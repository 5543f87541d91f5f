------------------------- MODULE ParcelResolutionProofs -------------------------
(***************************************************************************)
(* Proofs about ParcelResolution for any contents of the four data sets,   *)
(* any answer of GeoSearch, and any page and chunk sizes.                  *)
(*                                                                         *)
(* RequestInv says which resolution the outcome is.  LotEvidence and       *)
(* CondoEvidence show that what a lookup keeps is what the rows say of a   *)
(* parcel, whichever lookup gave them; SingleRow, that a lookup that must  *)
(* match one row did.  CoverBound counts the rows of a chunk by its keys:  *)
(* from it, a multiplied limit cuts off no row (PlutoAgrees), and a chunk  *)
(* exceeds its limits only if one of its keys does (CrowdedKey).           *)
(***************************************************************************)
EXTENDS ParcelResolution, FiniteSetTheorems, FunctionTheorems, WellFoundedInduction, TLAPS

(* An outcome is that of one request on the data sets as they stand. *)
RequestInv ==
  /\ city \in Cities
  /\ \/ request = NoRequest /\ outcome = <<>>
     \/ \E b \in Bbls :
          /\ request = [kind |-> "bbl", keys |-> {b}]
          /\ outcome = [i \in {b} |-> ResolveBbl(city, b, Absent)]
     \/ \E keys \in SUBSET Bbls :
          /\ request = [kind |-> "bulk", keys |-> keys]
          /\ outcome = [b \in keys |-> IF BulkFails(city, keys) THEN Failure("REQUEST_FAILED")
                                       ELSE ResolveInBulk(city, keys, b)]
     \/ \E q \in AddressQueries :
          /\ request = [kind |-> "address", query |-> q]
          /\ outcome = [i \in {NoInput} |-> ResolveAddress(city, q)]
     \/ \E inputs \in SUBSET Bbls :
          /\ request = [kind |-> "failed"]
          /\ outcome = [i \in inputs |-> Failure("CALL_FAILED")]

LEMMA RequestHolds == Spec => []RequestInv
  <1>1. Init => RequestInv
    BY DEF Init, RequestInv
  <1>2. RequestInv /\ [Next]_vars => RequestInv'
    <2> SUFFICES ASSUME RequestInv, [Next]_vars PROVE RequestInv'
      OBVIOUS
    <2>1. CASE \E b \in Bbls : AskBbl(b)
      BY <2>1 DEF RequestInv, AskBbl
    <2>2. CASE \E keys \in SUBSET Bbls \ {{}} : AskBulk(keys)
      BY <2>2 DEF RequestInv, AskBulk
    <2>3. CASE \E q \in AddressQueries : AskAddress(q)
      BY <2>3 DEF RequestInv, AskAddress
    <2>4. CASE \E inputs \in SUBSET Bbls \ {{}} : CallFails(inputs)
      BY <2>4 DEF RequestInv, CallFails
    <2>5. CASE Answer
      BY <2>5 DEF RequestInv, Answer
    <2>6. CASE UNCHANGED vars
      BY <2>6 DEF RequestInv, vars
    <2> QED BY <2>1, <2>2, <2>3, <2>4, <2>5, <2>6 DEF Next
  <1> QED BY <1>1, <1>2, PTL DEF Spec

-----------------------------------------------------------------------------
(* One row *)

LEMMA CityTypes ==
  ASSUME NEW c \in Cities
  PROVE  /\ c.prints \subseteq FootprintRows
         /\ c.units \subseteq UnitRows /\ IsFiniteSet(c.units)
         /\ c.condos \subseteq CondoRows /\ IsFiniteSet(c.condos)
  BY CitiesAssumption

(* A lookup that passed found exactly one row, and it parses. *)
LEMMA SingleRow ==
  ASSUME NEW rows, IsFiniteSet(rows), NEW what,
         what.zero # "OK", what.multiple # "OK", MatchCode(rows, what) = "OK"
  PROVE  /\ rows = {TheRow(rows)}
         /\ ~Malformed(rows)
  <1>1. ~Malformed(rows)
    BY DEF MatchCode
  <1>2. MatchCount(rows) # "zero" /\ MatchCount(rows) # "multiple"
    <2>1. CASE MatchCount(rows) = "zero"
      <3>1. MatchCode(rows, what) = what.zero
        BY <1>1, <2>1 DEF MatchCode
      <3> QED BY <3>1
    <2>2. CASE MatchCount(rows) = "multiple"
      <3>1. MatchCode(rows, what) = what.multiple
        BY <1>1, <2>2 DEF MatchCode
      <3> QED BY <3>1
    <2> QED BY <2>1, <2>2
  <1>3. rows # {}
    <2> SUFFICES ASSUME rows = {} PROVE FALSE
      OBVIOUS
    <2>1. MatchCount({}) = "zero"
      BY FS_EmptySet DEF MatchCount
    <2> QED BY <1>2, <2>1
  <1>4. Cardinality(rows) \in Nat /\ Cardinality(rows) # 0
    BY <1>3, FS_CardinalityType, FS_EmptySet
  <1>5. Cardinality(rows) = 1
    BY <1>2, <1>3, <1>4 DEF MatchCount
  <1>6. \E r : rows = {r}
    BY <1>5, FS_Singleton
  <1> QED BY <1>1, <1>6 DEF TheRow

LEMMA CodesAreErrors ==
  /\ UnitCodes.zero # "OK" /\ UnitCodes.multiple # "OK"
  /\ BillingCodes.zero # "OK" /\ BillingCodes.multiple # "OK"
  /\ BaseCodes.zero # "OK" /\ BaseCodes.multiple # "OK"
  BY DEF UnitCodes, BillingCodes, BaseCodes

(* The unit's row, and the row of its condominium. *)
LEMMA CondoRow ==
  ASSUME NEW c \in Cities, NEW unit,
         MatchCode(UnitRowsOf(c.units, unit), UnitCodes) = "OK",
         MatchCode(BillingRowsOf(c.condos, TheRow(UnitRowsOf(c.units, unit)).base), BillingCodes) = "OK"
  PROVE  LET u == TheRow(UnitRowsOf(c.units, unit))
             b == TheRow(BillingRowsOf(c.condos, u.base))
         IN  /\ UnitRowsOf(c.units, unit) = {u} /\ u \in c.units /\ u.unit = unit
             /\ BillingRowsOf(c.condos, u.base) = {b} /\ b \in c.condos
             /\ unit \in UnitBbls /\ u.base \in ParcelBbls /\ b.billing \in BillingBbls
  <1> DEFINE rows == UnitRowsOf(c.units, unit)
             u == TheRow(rows)
             billings == BillingRowsOf(c.condos, u.base)
             b == TheRow(billings)
  <1>1. IsFiniteSet(rows) /\ IsFiniteSet(billings)
    BY CityTypes, FS_Subset DEF UnitRowsOf, BillingRowsOf
  <1>2. rows = {u} /\ ~Malformed(rows)
    BY <1>1, CodesAreErrors, SingleRow
  <1>3. billings = {b} /\ ~Malformed(billings)
    BY <1>1, CodesAreErrors, SingleRow
  <1>4. u \in c.units /\ u.unit = unit /\ u \in UnitRows
    BY <1>2, CityTypes DEF UnitRowsOf
  <1>5. b \in c.condos /\ b \in CondoRows
    BY <1>3, CityTypes DEF BillingRowsOf
  <1>6. u.unit # Unparsed /\ u.base # Unparsed
    BY <1>2, <1>4 DEF Malformed, UnitRows
  <1>7. b.billing # Unparsed
    BY <1>3, <1>5 DEF Malformed, CondoRows
  <1> QED BY <1>2, <1>3, <1>4, <1>5, <1>6, <1>7 DEF UnitRows, CondoRows

-----------------------------------------------------------------------------
(* Footprints *)

LEMMA BblFacts ==
  /\ Unparsed \notin Bbls /\ Absent \notin Bbls /\ NoBbl \notin Bbls
  /\ ParcelBbls \subseteq Bbls /\ BillingBbls \subseteq Bbls /\ UnitBbls \subseteq Bbls
  /\ Bbls \subseteq Nat
  BY BblsAssumption DEF Bbls

LEMMA RowFacts ==
  ASSUME NEW r \in FootprintRows
  PROVE  /\ Candidate(r) <=> r.bin \in Bins \cup {Placeholder} /\ r.base \in Bbls
         /\ Candidate(r) => (r.bin # Placeholder <=> r.bin \in Bins)
  <1>1. r.bin \in Bins \cup {Placeholder, Unparsed} /\ r.base \in Bbls \cup {Unparsed}
    BY DEF FootprintRows
  <1>2. Placeholder \notin Bins /\ Unparsed \notin Bins /\ Unparsed # Placeholder
    BY BinsAssumption
  <1> QED BY <1>1, <1>2, BblFacts DEF Candidate

LEMMA LotVerdict ==
  ASSUME NEW r \in FootprintRows, r.base \in Bbls, NEW bbl \in Bbls
  PROVE  Verdict(r, bbl, "non-condo") = "ACCEPTED"
           <=> bbl = IF r.mappluto \in Bbls THEN r.mappluto ELSE r.base
  BY BblFacts DEF Verdict

LEMMA CondoVerdict ==
  ASSUME NEW r \in FootprintRows, r.base \in ParcelBbls, NEW billing \in BillingBbls
  PROVE  Verdict(r, billing, "condo") = "ACCEPTED" <=> r.mappluto = billing
  <1>1. r.base # billing
    BY BblsAssumption
  <1> QED BY <1>1, BblFacts DEF Verdict

(* What is collected from the rows that name a lot is what the rows say of *)
(* the lot.                                                                *)
LEMMA LotEvidence ==
  ASSUME NEW c \in Cities, NEW bbl \in Bbls, NEW found,
         found = {r \in c.prints : Candidate(r) /\ (r.base = bbl \/ r.mappluto = bbl)}
  PROVE  CollectBins(found, bbl, "non-condo")
           = {r.bin : r \in {q \in c.prints :
                /\ q.bin \in Bins /\ q.base \in Bbls
                /\ bbl = IF q.mappluto \in Bbls THEN q.mappluto ELSE q.base}}
  <1>1. \A r \in c.prints : Candidate(r) =>
          (Verdict(r, bbl, "non-condo") = "ACCEPTED"
             <=> bbl = IF r.mappluto \in Bbls THEN r.mappluto ELSE r.base)
    BY CityTypes, RowFacts, LotVerdict
  <1>2. \A r \in c.prints :
          (Candidate(r) /\ r.bin # Placeholder) <=> (r.bin \in Bins /\ r.base \in Bbls)
    BY CityTypes, RowFacts, BinsAssumption
  <1>3. {r \in {q \in found : Verdict(q, bbl, "non-condo") = "ACCEPTED"} : r.bin # Placeholder}
          = {q \in c.prints : /\ q.bin \in Bins /\ q.base \in Bbls
                              /\ bbl = IF q.mappluto \in Bbls THEN q.mappluto ELSE q.base}
    BY <1>1, <1>2
  <1> QED BY <1>3 DEF CollectBins

(* The same of a condominium's base lot and billing BBL.                   *)
LEMMA CondoEvidence ==
  ASSUME NEW c \in Cities, NEW base \in ParcelBbls, NEW billing \in BillingBbls, NEW found,
         found = {r \in c.prints : Candidate(r) /\ r.base = base}
  PROVE  CollectBins(found, billing, "condo")
           = {r.bin : r \in {q \in c.prints : /\ q.bin \in Bins /\ q.base \in Bbls
                                              /\ q.base = base /\ q.mappluto = billing}}
  <1>1. \A r \in c.prints : r.base = base =>
          (Verdict(r, billing, "condo") = "ACCEPTED" <=> r.mappluto = billing)
    BY CityTypes, CondoVerdict
  <1>2. \A r \in c.prints :
          (Candidate(r) /\ r.bin # Placeholder) <=> (r.bin \in Bins /\ r.base \in Bbls)
    BY CityTypes, RowFacts, BinsAssumption
  <1>3. {r \in {q \in found : Verdict(q, billing, "condo") = "ACCEPTED"} : r.bin # Placeholder}
          = {q \in c.prints : /\ q.bin \in Bins /\ q.base \in Bbls
                              /\ q.base = base /\ q.mappluto = billing}
    BY <1>1, <1>2
  <1> QED BY <1>3 DEF CollectBins

(* The lookups keep those rows, one key at a time or in chunks. *)
LotRows(prints, bbl)   == {r \in prints : Candidate(r) /\ (r.base = bbl \/ r.mappluto = bbl)}
CondoRowsOf(prints, base) == {r \in prints : Candidate(r) /\ r.base = base}

LEMMA LotLookup ==
  ASSUME NEW prints, NEW bbl
  PROVE  LookupFootprints(prints, "parcel", bbl).candidates = LotRows(prints, bbl)
  BY DEF LookupFootprints, AsksFor, LotRows

LEMMA CondoLookup ==
  ASSUME NEW prints, NEW base
  PROVE  LookupFootprints(prints, "base", base).candidates = CondoRowsOf(prints, base)
  BY DEF LookupFootprints, AsksFor, CondoRowsOf

LEMMA LotBulkLookup ==
  ASSUME NEW prints, NEW keys, NEW bbl \in keys
  PROVE  LookupFootprintsBulk(prints, "parcel", keys, bbl) = LotRows(prints, bbl)
  <1>1. bbl \in ChunkOf(keys, bbl)
    BY DEF ChunkOf
  <1> QED BY <1>1 DEF LookupFootprintsBulk, FootprintChunkRows, AsksFor, GroupedUnder, LotRows

LEMMA CondoBulkLookup ==
  ASSUME NEW prints, NEW keys, NEW base \in keys
  PROVE  LookupFootprintsBulk(prints, "base", keys, base) = CondoRowsOf(prints, base)
  <1>1. base \in ChunkOf(keys, base)
    BY DEF ChunkOf
  <1> QED BY <1>1 DEF LookupFootprintsBulk, FootprintChunkRows, AsksFor, GroupedUnder, CondoRowsOf

-----------------------------------------------------------------------------
(* Resolutions *)

(* The buildings of a resolution, in any city. *)
BuildingsIn(c, o) ==
  {r \in c.prints :
     /\ r.bin \in Bins /\ r.base \in Bbls
     /\ IF o.base = NoBbl
        THEN o.parcel = IF r.mappluto \in Bbls THEN r.mappluto ELSE r.base
        ELSE r.base = o.base /\ r.mappluto = o.billing}

Evident(c, o) == o.code = "OK" => o.bins = {r.bin : r \in BuildingsIn(c, o)}

LEMMA ResolvedWell ==
  ASSUME NEW parcel, NEW base, NEW billing, NEW status, NEW found, NEW bbl, NEW mode, NEW bin,
         Resolved(parcel, base, billing, status, found, bbl, mode, bin).code = "OK"
  PROVE  Resolved(parcel, base, billing, status, found, bbl, mode, bin)
           = Success(parcel, base, billing, CollectBins(found.candidates, bbl, mode))
  <1> DEFINE bins == CollectBins(found.candidates, bbl, mode)
             code == FirstError(<<PlutoCode(status), found.code,
                                  Agreement(found.candidates, bbl, mode), Corroboration(bin, bins)>>)
  <1>1. Resolved(parcel, base, billing, status, found, bbl, mode, bin)
          = IF code = "OK" THEN Success(parcel, base, billing, bins) ELSE Failure(code)
    BY DEF Resolved
  <1> HIDE DEF bins, code
  <1>2. Failure(code).code = code
    BY DEF Failure
  <1> QED BY <1>1, <1>2 DEF bins

LEMMA FailureIsEvident ==
  ASSUME NEW c, NEW code, code # "OK"
  PROVE  Evident(c, Failure(code)) /\ Failure(code).code # "OK"
  BY DEF Evident, Failure

(* A lot, from any lookup that keeps the rows that name it. *)
LEMMA LotIsEvident ==
  ASSUME NEW c \in Cities, NEW bbl \in Bbls, NEW status, NEW bin, NEW found,
         found.candidates = LotRows(c.prints, bbl)
  PROVE  LET o == Resolved(bbl, NoBbl, NoBbl, status, found, bbl, "non-condo", bin)
         IN  Evident(c, o) /\ (o.code = "OK" => o.parcel = bbl /\ o.base = NoBbl)
  <1> DEFINE o == Resolved(bbl, NoBbl, NoBbl, status, found, bbl, "non-condo", bin)
  <1> SUFFICES ASSUME o.code = "OK"
               PROVE  /\ o.bins = {r.bin : r \in BuildingsIn(c, o)}
                      /\ o.parcel = bbl /\ o.base = NoBbl
    BY DEF Evident
  <1>1. o = Success(bbl, NoBbl, NoBbl, CollectBins(found.candidates, bbl, "non-condo"))
    BY ResolvedWell, SMT
  <1> HIDE DEF o
  <1>2. /\ o.parcel = bbl /\ o.base = NoBbl
        /\ o.bins = CollectBins(found.candidates, bbl, "non-condo")
    BY <1>1 DEF Success
  <1>3. BuildingsIn(c, o) = {q \in c.prints :
          /\ q.bin \in Bins /\ q.base \in Bbls
          /\ bbl = IF q.mappluto \in Bbls THEN q.mappluto ELSE q.base}
    BY <1>2 DEF BuildingsIn
  <1> QED BY <1>2, <1>3, LotEvidence DEF LotRows

(* A condominium unit, likewise. *)
LEMMA UnitIsEvident ==
  ASSUME NEW c \in Cities, NEW unit, NEW base \in ParcelBbls, NEW billing \in BillingBbls,
         NEW status, NEW bin, NEW found,
         found.candidates = CondoRowsOf(c.prints, base)
  PROVE  LET o == Resolved(unit, base, billing, status, found, billing, "condo", bin)
         IN  /\ Evident(c, o)
             /\ o.code = "OK" => o.parcel = unit /\ o.base = base /\ o.billing = billing
  <1> DEFINE o == Resolved(unit, base, billing, status, found, billing, "condo", bin)
  <1> SUFFICES ASSUME o.code = "OK"
               PROVE  /\ o.bins = {r.bin : r \in BuildingsIn(c, o)}
                      /\ o.parcel = unit /\ o.base = base /\ o.billing = billing
    BY DEF Evident
  <1>1. o = Success(unit, base, billing, CollectBins(found.candidates, billing, "condo"))
    BY ResolvedWell, SMT
  <1> HIDE DEF o
  <1>2. /\ o.parcel = unit /\ o.base = base /\ o.billing = billing /\ base # NoBbl
        /\ o.bins = CollectBins(found.candidates, billing, "condo")
    BY <1>1, BblFacts DEF Success
  <1>3. BuildingsIn(c, o) = {q \in c.prints : /\ q.bin \in Bins /\ q.base \in Bbls
                                              /\ q.base = base /\ q.mappluto = billing}
    BY <1>2 DEF BuildingsIn
  <1> QED BY <1>2, <1>3, CondoEvidence DEF CondoRowsOf

LEMMA LotAlone ==
  ASSUME NEW c \in Cities, NEW bbl \in Bbls, NEW bin
  PROVE  /\ Evident(c, ResolveLot(c, bbl, bin))
         /\ ResolveLot(c, bbl, bin).code = "OK" =>
              ResolveLot(c, bbl, bin).parcel = bbl /\ ResolveLot(c, bbl, bin).base = NoBbl
  <1> DEFINE found == LookupFootprints(c.prints, "parcel", bbl)
             status == LookupPluto(c.pluto, bbl)
  <1>1. found.candidates = LotRows(c.prints, bbl)
    BY LotLookup
  <1>2. ResolveLot(c, bbl, bin) = Resolved(bbl, NoBbl, NoBbl, status, found, bbl, "non-condo", bin)
    BY DEF ResolveLot
  <1> HIDE DEF found, status
  <1> QED BY <1>1, <1>2, LotIsEvident

(* A unit resolves to what its one row and the one row of its condominium  *)
(* say.                                                                    *)
LEMMA UnitAlone ==
  ASSUME NEW c \in Cities, NEW unit, NEW bin
  PROVE  LET o == ResolveUnit(c, unit, bin)
             u == TheRow(UnitRowsOf(c.units, unit))
             b == TheRow(BillingRowsOf(c.condos, u.base))
         IN  /\ Evident(c, o)
             /\ o.code = "OK" =>
                  /\ o.parcel = unit /\ o.base = u.base /\ o.billing = b.billing
                  /\ UnitRowsOf(c.units, unit) = {u} /\ BillingRowsOf(c.condos, u.base) = {b}
                  /\ unit \in UnitBbls /\ u.base \in ParcelBbls /\ b.billing \in BillingBbls
  <1> DEFINE o == ResolveUnit(c, unit, bin)
             rows == UnitRowsOf(c.units, unit)
             u == TheRow(rows)
             billings == BillingRowsOf(c.condos, u.base)
             b == TheRow(billings)
             found == LookupFootprints(c.prints, "base", u.base)
             status == LookupPluto(c.pluto, b.billing)
  <1>1. CASE MatchCode(rows, UnitCodes) # "OK"
    <2>1. o = Failure(MatchCode(rows, UnitCodes))
      BY <1>1 DEF ResolveUnit
    <2>2. MatchCode(rows, UnitCodes) # "OK"
      BY <1>1
    <2> DEFINE code == MatchCode(rows, UnitCodes)
    <2> HIDE DEF o, code
    <2>3. Evident(c, o) /\ o.code # "OK"
      BY <2>1, <2>2, FailureIsEvident DEF code
    <2> QED BY <2>3 DEF o
  <1>2. CASE MatchCode(rows, UnitCodes) = "OK" /\ MatchCode(billings, BillingCodes) # "OK"
    <2>1. o = Failure(MatchCode(billings, BillingCodes))
      BY <1>2 DEF ResolveUnit
    <2>2. MatchCode(billings, BillingCodes) # "OK"
      BY <1>2
    <2> DEFINE code == MatchCode(billings, BillingCodes)
    <2> HIDE DEF o, code
    <2>3. Evident(c, o) /\ o.code # "OK"
      BY <2>1, <2>2, FailureIsEvident DEF code
    <2> QED BY <2>3 DEF o
  <1>3. CASE MatchCode(rows, UnitCodes) = "OK" /\ MatchCode(billings, BillingCodes) = "OK"
    <2>1. o = Resolved(unit, u.base, b.billing, status, found, b.billing, "condo", bin)
      BY <1>3 DEF ResolveUnit
    <2>2. /\ rows = {u} /\ billings = {b}
          /\ unit \in UnitBbls /\ u.base \in ParcelBbls /\ b.billing \in BillingBbls
      BY <1>3, CondoRow
    <2>3. found.candidates = CondoRowsOf(c.prints, u.base)
      BY CondoLookup
    <2> HIDE DEF o, rows, u, billings, b, found, status
    <2>4. Evident(c, o) /\ (o.code = "OK" => o.parcel = unit /\ o.base = u.base /\ o.billing = b.billing)
      BY <2>1, <2>2, <2>3, UnitIsEvident
    <2> QED BY <2>2, <2>4 DEF o, rows, u, billings, b
  <1> QED BY <1>1, <1>2, <1>3

(* The bulk registration of a BBL. *)
LEMMA BulkIsEvident ==
  ASSUME NEW c \in Cities, NEW keys \in SUBSET Bbls, NEW bbl \in keys
  PROVE  Evident(c, ResolveInBulk(c, keys, bbl))
  <1> DEFINE o == ResolveInBulk(c, keys, bbl)
             rows == UnitRowsOf(c.units, bbl)
             u == TheRow(rows)
             billings == BillingRowsOf(c.condos, u.base)
             b == TheRow(billings)
  <1>1. CASE bbl \notin UnitBbls
    <2> DEFINE found == BulkPrints(c, "parcel", keys \ UnitBbls, bbl)
               status == LookupPlutoBulk(c.pluto, BulkPlutoKeys(c, keys), bbl)
    <2>1. o = Resolved(bbl, NoBbl, NoBbl, status, found, bbl, "non-condo", Absent)
      BY <1>1 DEF ResolveInBulk
    <2>2. found.candidates = LotRows(c.prints, bbl)
      BY <1>1, LotBulkLookup DEF BulkPrints
    <2> HIDE DEF o, found, status
    <2>3. Evident(c, o)
      BY <2>1, <2>2, LotIsEvident
    <2> QED BY <2>3 DEF o
  <1>2. CASE bbl \in UnitBbls /\ MatchCode(rows, UnitCodes) # "OK"
    <2> DEFINE code == MatchCode(rows, UnitCodes)
    <2>1. o = Failure(code) /\ code # "OK"
      BY <1>2 DEF ResolveInBulk
    <2> HIDE DEF o, code
    <2>2. Evident(c, o)
      BY <2>1, FailureIsEvident
    <2> QED BY <2>2 DEF o
  <1>3. CASE bbl \in UnitBbls /\ MatchCode(rows, UnitCodes) = "OK"
               /\ MatchCode(billings, BillingCodes) # "OK"
    <2> DEFINE code == MatchCode(billings, BillingCodes)
    <2>1. o = Failure(code) /\ code # "OK"
      BY <1>3 DEF ResolveInBulk
    <2> HIDE DEF o, code
    <2>2. Evident(c, o)
      BY <2>1, FailureIsEvident
    <2> QED BY <2>2 DEF o
  <1>4. CASE bbl \in UnitBbls /\ MatchCode(rows, UnitCodes) = "OK"
               /\ MatchCode(billings, BillingCodes) = "OK"
    <2> DEFINE found == BulkPrints(c, "base", BulkBases(c, keys), u.base)
               status == LookupPlutoBulk(c.pluto, BulkPlutoKeys(c, keys), b.billing)
    <2>1. o = Resolved(bbl, u.base, b.billing, status, found, b.billing, "condo", Absent)
      BY <1>4 DEF ResolveInBulk
    <2>2. rows = {u} /\ u.base \in ParcelBbls /\ b.billing \in BillingBbls
      BY <1>4, CondoRow
    <2>3. MatchCount(rows) = "one"
      <3>1. rows # {} /\ Cardinality(rows) = 1
        BY <2>2, FS_Singleton
      <3> HIDE DEF rows
      <3> QED BY <3>1 DEF MatchCount
    <2>4. u.base \in BulkBases(c, keys)
      BY <1>4, <2>3 DEF BulkBases
    <2>5. found.candidates = CondoRowsOf(c.prints, u.base)
      BY <2>4, CondoBulkLookup DEF BulkPrints
    <2> HIDE DEF o, rows, u, billings, b, found, status
    <2>6. Evident(c, o)
      BY <2>1, <2>2, <2>5, UnitIsEvident
    <2> QED BY <2>6 DEF o
  <1> QED BY <1>1, <1>2, <1>3, <1>4

-----------------------------------------------------------------------------
(* Addresses *)

(* The candidates that match the address in every respect. *)
Full(q) == {d \in q.candidates : /\ d.bbl # NoBbl /\ d.street /\ d.addressLayer
                                 /\ q.boroughGiven => d.borough}

LEMMA PoolHasFull ==
  ASSUME NEW q
  PROVE  /\ Pool(q) \subseteq {d \in q.candidates : d.bbl # NoBbl}
         /\ Full(q) \subseteq Pool(q)
  <1> DEFINE S == {d \in q.candidates : d.bbl # NoBbl /\ (q.boroughGiven => d.borough)}
             T == IF \E d \in S : d.street THEN {d \in S : d.street} ELSE S
             P == IF \E d \in T : d.addressLayer THEN {d \in T : d.addressLayer} ELSE T
  <1>1. Pool(q) = P
    BY DEF Pool, Narrowed, Preferred
  <1>2. P \subseteq T /\ T \subseteq S
    OBVIOUS
  <1>3. ASSUME NEW d \in Full(q) PROVE d \in P
    <2>1. d \in S /\ d.street /\ d.addressLayer
      BY DEF Full
    <2>2. d \in T
      BY <2>1
    <2> QED BY <2>1, <2>2
  <1> HIDE DEF P, T
  <1> QED BY <1>1, <1>2, <1>3

LEMMA LeastRank ==
  ASSUME NEW T, T \subseteq Nat, T # {}
  PROVE  \E x \in T : \A y \in T : x <= y
  <1> DEFINE R == OpToRel(<, Nat)
  <1>1. IsWellFoundedOn(R, Nat)
    BY NatLessThanWellFounded
  <1> HIDE DEF R
  <1>2. PICK x \in T : \A y \in T : ~(<<y, x>> \in R)
    BY <1>1, WFMin
  <1>3. \A y \in T : y < x => <<y, x>> \in R
    BY DEF R, OpToRel
  <1>4. ASSUME NEW y \in T PROVE x <= y
    <2>1. ~(y < x)
      BY <1>2, <1>3
    <2>2. x \in Nat /\ y \in Nat
      OBVIOUS
    <2> QED BY <2>1, <2>2
  <1> QED BY <1>4

(* The selected candidate names the BBL that every full match names.       *)
LEMMA SelectionIsUnanimous ==
  ASSUME NEW q \in AddressQueries, SelectionCode(q) = "OK"
  PROVE  Selected(q).bbl \in Bbls /\ \A d \in Full(q) : d.bbl = Selected(q).bbl
  <1> DEFINE P == Pool(q)
             named == {d \in q.candidates : d.bbl # NoBbl}
             bbls == {d.bbl : d \in P}
  <1>1. /\ P \subseteq named /\ Full(q) \subseteq P
        /\ q.candidates \subseteq Candidates /\ IsFiniteSet(q.candidates)
    BY PoolHasFull, AddressesAssumption
  <1>2. IsFiniteSet(P)
    BY <1>1, FS_Subset
  <1>3. IsFiniteSet(bbls) /\ Cardinality(bbls) \in Nat
    <2> DEFINE f == [d \in P |-> d.bbl]
    <2>1. f \in Surjection(P, bbls)
      BY DEF Surjection
    <2> HIDE DEF f, P, bbls
    <2>2. IsFiniteSet(bbls)
      BY <1>2, <2>1, FS_Surjection
    <2> QED BY <2>2, FS_CardinalityType
  <1>4. bbls # {} /\ Unparsed \notin bbls /\ ~(Cardinality(bbls) > 1)
    <2>1. /\ bbls = {} => P = {}
          /\ named = {} => bbls = {}
          /\ q.candidates = {} => bbls = {}
      BY <1>1
    <2>2. Cardinality({}) = 0
      BY FS_EmptySet
    <2>3. SelectionCode(q) =
            CASE q.candidates = {} -> "GEOSEARCH_EMPTY_RESULT"
              [] q.candidates # {} /\ named = {} -> "GEOSEARCH_NO_IDENTIFIERS"
              [] named # {} /\ bbls = {} -> "GEOSEARCH_AMBIGUOUS"
              [] Unparsed \in bbls -> "INVALID_BBL"
              [] Unparsed \notin bbls /\ Cardinality(bbls) > 1 -> "GEOSEARCH_AMBIGUOUS"
              [] OTHER -> "OK"
      BY DEF SelectionCode
    <2> DEFINE n == Cardinality(bbls)
    <2>4. bbls = {} => n = 0
      BY <2>2
    <2> HIDE DEF n, bbls, named, P
    <2>5. CASE bbls = {}
      BY <2>1, <2>3, <2>4, <2>5 DEF n
    <2>6. CASE bbls # {} /\ Unparsed \in bbls
      BY <2>1, <2>3, <2>6
    <2>7. CASE bbls # {} /\ Unparsed \notin bbls /\ Cardinality(bbls) > 1
      BY <2>1, <2>3, <2>7
    <2> QED BY <2>5, <2>6, <2>7
  <1>5. Cardinality(bbls) = 1
    <2>1. Cardinality(bbls) # 0
      BY <1>3, <1>4, FS_EmptySet
    <2> HIDE DEF bbls
    <2> QED BY <1>3, <1>4, <2>1
  <1>6. PICK x : bbls = {x}
    BY <1>3, <1>5, FS_Singleton
  <1>7. Selected(q) \in P
    <2> DEFINE ranks == {d.rank : d \in P}
    <2>1. ranks \subseteq Nat /\ ranks # {}
      BY <1>1, <1>4 DEF Candidates
    <2>2. PICK n \in ranks : \A m \in ranks : n <= m
      <3> HIDE DEF ranks
      <3> QED BY <2>1, LeastRank
    <2>3. \E d \in P : \A e \in P : d.rank <= e.rank
      BY <2>2
    <2> QED BY <2>3 DEF Selected
  <1>8. \A d \in P : d.bbl = x
    BY <1>6
  <1>9. Selected(q).bbl \in Bbls
    <2>1. Selected(q).bbl # Unparsed /\ Selected(q).bbl # NoBbl
      BY <1>1, <1>4, <1>7
    <2>2. Selected(q) \in Candidates
      BY <1>1, <1>7
    <2> QED BY <2>1, <2>2 DEF Candidates
  <1> QED BY <1>1, <1>7, <1>8, <1>9

(* What AddressIsUnambiguous says of one resolution. *)
Unambiguous(c, q, o) ==
  o.code = "OK" =>
    \A d \in Full(q) :
      IF q.designation = NoDesignation THEN o.parcel = d.bbl
      ELSE /\ {r \in c.units : r.base = o.base /\ r.designation = q.designation}
                = {r \in c.units : r.unit = o.parcel}
           /\ d.bbl \in {o.base, o.billing}

(* The unit so designated is one unit of the condominium on that lot.      *)
LEMMA DesignationIsUnambiguous ==
  ASSUME NEW c \in Cities, NEW bbl \in Bbls, NEW designation, NEW bin
  PROVE  LET o == ResolveDesignation(c, bbl, designation, bin)
         IN  /\ Evident(c, o)
             /\ o.code = "OK" =>
                  /\ {r \in c.units : r.base = o.base /\ r.designation = designation}
                       = {r \in c.units : r.unit = o.parcel}
                  /\ bbl \in {o.base, o.billing}
  <1> DEFINE o == ResolveDesignation(c, bbl, designation, bin)
             bases == BaseRowsOf(c.condos, bbl)
             base == IF bbl \in BillingBbls THEN TheRow(bases).base ELSE bbl
             units == DesignatedUnits(c.units, base, designation)
             v == TheRow(units)
             baseFound == bbl \in BillingBbls => MatchCode(bases, BaseCodes) = "OK"
  <1>1. CASE ~baseFound
    <2> DEFINE code == MatchCode(bases, BaseCodes)
    <2>1. o = Failure(code) /\ code # "OK"
      BY <1>1 DEF ResolveDesignation
    <2> HIDE DEF o, code
    <2>2. Evident(c, o) /\ o.code # "OK"
      BY <2>1, FailureIsEvident
    <2> QED BY <2>2 DEF o
  <1>2. CASE baseFound /\ MatchCode(units, UnitCodes) # "OK"
    <2> DEFINE code == MatchCode(units, UnitCodes)
    <2>1. o = Failure(code) /\ code # "OK"
      BY <1>2 DEF ResolveDesignation
    <2> HIDE DEF o, code
    <2>2. Evident(c, o) /\ o.code # "OK"
      BY <2>1, FailureIsEvident
    <2> QED BY <2>2 DEF o
  <1>3. CASE baseFound /\ MatchCode(units, UnitCodes) = "OK"
    <2>1. o = ResolveUnit(c, v.unit, bin)
      BY <1>3 DEF ResolveDesignation
    <2>2. IsFiniteSet(units) /\ IsFiniteSet(bases)
      BY CityTypes, FS_Subset DEF DesignatedUnits, BaseRowsOf
    <2>3. units = {v}
      BY <1>3, <2>2, CodesAreErrors, SingleRow
    <2>4. v \in c.units /\ v.base = base
      BY <2>3 DEF DesignatedUnits
    <2> DEFINE u == TheRow(UnitRowsOf(c.units, v.unit))
               b == TheRow(BillingRowsOf(c.condos, u.base))
    <2>5. /\ Evident(c, o)
          /\ o.code = "OK" =>
               /\ o.parcel = v.unit /\ o.base = u.base /\ o.billing = b.billing
               /\ UnitRowsOf(c.units, v.unit) = {u} /\ BillingRowsOf(c.condos, u.base) = {b}
      BY <2>1, UnitAlone
    <2>6. ASSUME o.code = "OK"
          PROVE  /\ {r \in c.units : r.base = o.base /\ r.designation = designation}
                      = {r \in c.units : r.unit = o.parcel}
                 /\ bbl \in {o.base, o.billing}
      <3>1. /\ o.parcel = v.unit /\ o.base = u.base /\ o.billing = b.billing
            /\ UnitRowsOf(c.units, v.unit) = {u} /\ BillingRowsOf(c.condos, u.base) = {b}
        BY <2>5, <2>6
      <3>2. u = v
        <4>1. v \in UnitRowsOf(c.units, v.unit)
          BY <2>4 DEF UnitRowsOf
        <4> QED BY <3>1, <4>1
      <3>3. {r \in c.units : r.base = o.base /\ r.designation = designation} = units
        BY <2>4, <3>1, <3>2 DEF DesignatedUnits
      <3>4. {r \in c.units : r.unit = o.parcel} = UnitRowsOf(c.units, v.unit)
        BY <3>1 DEF UnitRowsOf
      <3>5. bbl \in {o.base, o.billing}
        <4>1. CASE bbl \in BillingBbls
          <5>1. bases = {TheRow(bases)}
            BY <1>3, <2>2, <4>1, CodesAreErrors, SingleRow
          <5>2. TheRow(bases) \in c.condos /\ TheRow(bases).billing = bbl /\ TheRow(bases).base = base
            BY <4>1, <5>1 DEF BaseRowsOf
          <5>3. TheRow(bases) \in BillingRowsOf(c.condos, u.base)
            BY <2>4, <3>2, <5>2 DEF BillingRowsOf
          <5> QED BY <3>1, <5>2, <5>3
        <4>2. CASE bbl \notin BillingBbls
          BY <2>4, <3>1, <3>2, <4>2
        <4> QED BY <4>1, <4>2
      <3> QED BY <2>3, <3>1, <3>2, <3>3, <3>4, <3>5
    <2> QED BY <2>5, <2>6
  <1> HIDE DEF o, baseFound, units
  <1> QED BY <1>1, <1>2, <1>3 DEF o

LEMMA AddressAlone ==
  ASSUME NEW c \in Cities, NEW q \in AddressQueries
  PROVE  Evident(c, ResolveAddress(c, q)) /\ Unambiguous(c, q, ResolveAddress(c, q))
  <1> DEFINE o == ResolveAddress(c, q)
             d == Selected(q)
  <1>1. CASE SelectionCode(q) # "OK"
    <2>1. o = Failure(SelectionCode(q))
      BY <1>1 DEF ResolveAddress
    <2> HIDE DEF o
    <2>2. Evident(c, o) /\ o.code # "OK"
      BY <1>1, <2>1, FailureIsEvident
    <2> QED BY <2>2 DEF o, Unambiguous
  <1>2. CASE SelectionCode(q) = "OK" /\ q.designation = NoDesignation
    <2>1. o = ResolveLot(c, d.bbl, d.bin)
      BY <1>2 DEF ResolveAddress
    <2>2. d.bbl \in Bbls /\ \A e \in Full(q) : e.bbl = d.bbl
      BY <1>2, SelectionIsUnanimous
    <2>3. Evident(c, o) /\ (o.code = "OK" => o.parcel = d.bbl)
      BY <2>1, <2>2, LotAlone
    <2>4. Unambiguous(c, q, o)
      BY <1>2, <2>2, <2>3 DEF Unambiguous
    <2> QED BY <2>3, <2>4
  <1>3. CASE SelectionCode(q) = "OK" /\ q.designation # NoDesignation
    <2>1. o = ResolveDesignation(c, d.bbl, q.designation, d.bin)
      BY <1>3 DEF ResolveAddress
    <2>2. d.bbl \in Bbls /\ \A e \in Full(q) : e.bbl = d.bbl
      BY <1>3, SelectionIsUnanimous
    <2>3. /\ Evident(c, o)
          /\ o.code = "OK" =>
               /\ {r \in c.units : r.base = o.base /\ r.designation = q.designation}
                    = {r \in c.units : r.unit = o.parcel}
               /\ d.bbl \in {o.base, o.billing}
      BY <2>1, <2>2, DesignationIsUnambiguous
    <2>4. Unambiguous(c, q, o)
      BY <1>3, <2>2, <2>3 DEF Unambiguous
    <2> QED BY <2>3, <2>4
  <1> QED BY <1>1, <1>2, <1>3

-----------------------------------------------------------------------------

LEMMA OutcomesEvident ==
  ASSUME RequestInv, NEW i \in DOMAIN outcome
  PROVE  Evident(city, outcome[i])
  <1>1. ASSUME NEW b \in Bbls, outcome = [j \in {b} |-> ResolveBbl(city, b, Absent)]
        PROVE  Evident(city, outcome[i])
    <2>1. outcome[i] = IF b \in UnitBbls THEN ResolveUnit(city, b, Absent) ELSE ResolveLot(city, b, Absent)
      BY <1>1 DEF ResolveBbl
    <2> QED BY <2>1, LotAlone, UnitAlone DEF RequestInv
  <1>2. ASSUME NEW keys \in SUBSET Bbls,
               outcome = [b \in keys |-> IF BulkFails(city, keys) THEN Failure("REQUEST_FAILED")
                                        ELSE ResolveInBulk(city, keys, b)]
        PROVE  Evident(city, outcome[i])
    <2>1. /\ i \in keys
          /\ outcome[i] = Failure("REQUEST_FAILED") \/ outcome[i] = ResolveInBulk(city, keys, i)
      BY <1>2
    <2>2. Evident(city, Failure("REQUEST_FAILED"))
      BY FailureIsEvident
    <2>3. Evident(city, ResolveInBulk(city, keys, i))
      BY <2>1, BulkIsEvident DEF RequestInv
    <2> QED BY <2>1, <2>2, <2>3
  <1>3. ASSUME NEW q \in AddressQueries, outcome = [j \in {NoInput} |-> ResolveAddress(city, q)]
        PROVE  Evident(city, outcome[i])
    <2>1. outcome[i] = ResolveAddress(city, q)
      BY <1>3
    <2> QED BY <2>1, AddressAlone DEF RequestInv
  <1>4. ASSUME NEW inputs \in SUBSET Bbls, outcome = [j \in inputs |-> Failure("CALL_FAILED")]
        PROVE  Evident(city, outcome[i])
    <2>1. outcome[i] = Failure("CALL_FAILED")
      BY <1>4
    <2> QED BY <2>1, FailureIsEvident
  <1>5. outcome # <<>>
    <2>1. DOMAIN <<>> = {}
      OBVIOUS
    <2> QED BY <2>1
  <1> QED BY <1>1, <1>2, <1>3, <1>4, <1>5 DEF RequestInv

(* Whatever the data sets contain and whatever is asked for along with it, *)
(* a resolution has the BINs of all the buildings on its parcel and of no  *)
(* other.                                                                  *)
THEOREM EvidenceIsComplete == Spec => []ResolvedFromAllEvidence
  <1>1. RequestInv => ResolvedFromAllEvidence
    <2> SUFFICES ASSUME RequestInv, NEW i \in DOMAIN outcome, outcome[i].code = "OK"
                 PROVE  outcome[i].bins = {r.bin : r \in Buildings(outcome[i])}
      BY DEF ResolvedFromAllEvidence, Resolutions
    <2>1. Buildings(outcome[i]) = BuildingsIn(city, outcome[i])
      BY DEF Buildings, BuildingsIn
    <2> QED BY <2>1, OutcomesEvident DEF Evident
  <1> QED BY <1>1, RequestHolds, PTL

(* An address resolves only to what all its full matches name, for any     *)
(* answer of GeoSearch.                                                    *)
THEOREM AddressesAreUnambiguous == Spec => []AddressIsUnambiguous
  <1>1. RequestInv => AddressIsUnambiguous
    <2> SUFFICES ASSUME RequestInv, request.kind = "address" PROVE AddressIsUnambiguous
      BY DEF AddressIsUnambiguous
    <2>1. PICK q \in AddressQueries :
            request = [kind |-> "address", query |-> q]
              /\ outcome = [i \in {NoInput} |-> ResolveAddress(city, q)]
      <3>1. /\ request # NoRequest /\ request # [kind |-> "failed"]
            /\ \A b : request # [kind |-> "bbl", keys |-> {b}]
            /\ \A keys : request # [kind |-> "bulk", keys |-> keys]
        BY DEF NoRequest
      <3> QED BY <3>1, Zenon DEF RequestInv
    <2> DEFINE o == ResolveAddress(city, q)
    <2>2. request.query = q /\ city \in Cities
      BY <2>1 DEF RequestInv
    <2>3. Unambiguous(city, q, o)
      BY <2>2, AddressAlone
    <2>4. \A p \in Resolutions : p = o /\ p.code = "OK"
      BY <2>1 DEF Resolutions
    <2> HIDE DEF o
    <2> QED BY <2>2, <2>3, <2>4 DEF AddressIsUnambiguous, Unambiguous, Full
  <1> QED BY <1>1, RequestHolds, PTL

-----------------------------------------------------------------------------
(* Rows of a chunk *)

(* A finite set covered by parts of at most n elements each. *)
LEMMA CoverBound ==
  ASSUME NEW S, NEW K, NEW n \in Nat, IsFiniteSet(S), IsFiniteSet(K),
         NEW part \in [K -> SUBSET S], \A s \in S : \E k \in K : s \in part[k],
         \A k \in K : Cardinality(part[k]) <= n
  PROVE  Cardinality(S) <= Cardinality(K) * n
  <1> DEFINE keyOf == [s \in S |-> CHOOSE k \in K : s \in part[k]]
             number(k) == CHOOSE f : f \in Injection(part[k], 1..n)
             g == [s \in S |-> <<keyOf[s], number(keyOf[s])[s]>>]
  <1>1. \A s \in S : keyOf[s] \in K /\ s \in part[keyOf[s]]
    OBVIOUS
  <1>2. ASSUME NEW k \in K PROVE number(k) \in Injection(part[k], 1..n)
    <2> DEFINE size == Cardinality(part[k])
    <2>1. size \in Nat /\ size <= n /\ ExistsBijection(1..size, part[k])
      BY FS_Subset, FS_CardinalityType
    <2>2. ExistsBijection(part[k], 1..size)
      BY <2>1, Fun_ExistsBijSymmetric
    <2>3. PICK f : f \in Bijection(part[k], 1..size)
      BY <2>2 DEF ExistsBijection
    <2>4. 1..size \subseteq 1..n
      BY <2>1
    <2> HIDE DEF size
    <2>5. f \in Injection(part[k], 1..n)
      BY <2>3, <2>4 DEF Bijection, Injection, IsInjective
    <2> QED BY <2>5
  <1> HIDE DEF keyOf, number
  <1>3. \A s \in S : number(keyOf[s])[s] \in 1..n
    BY <1>1, <1>2 DEF Injection
  <1>4. g \in Injection(S, K \X (1..n))
    <2>1. g \in [S -> K \X (1..n)]
      BY <1>1, <1>3
    <2>2. ASSUME NEW s \in S, NEW t \in S, g[s] = g[t] PROVE s = t
      <3>1. keyOf[s] = keyOf[t] /\ number(keyOf[s])[s] = number(keyOf[s])[t]
        BY <2>2
      <3>2. number(keyOf[s]) \in Injection(part[keyOf[s]], 1..n) /\ s \in part[keyOf[s]] /\ t \in part[keyOf[s]]
        BY <1>1, <1>2, <3>1
      <3> QED BY <3>1, <3>2 DEF Injection, IsInjective
    <2> HIDE DEF g
    <2> QED BY <2>1, <2>2 DEF Injection, IsInjective
  <1>5. IsFiniteSet(1..n) /\ Cardinality(1..n) = n
    BY FS_Interval
  <1>6. IsFiniteSet(K \X (1..n)) /\ Cardinality(K \X (1..n)) = Cardinality(K) * n
    BY <1>5, FS_Product
  <1> HIDE DEF g
  <1> QED BY <1>4, <1>6, FS_Injection

LEMMA ChunkFacts ==
  ASSUME NEW keys, IsFiniteSet(keys), NEW k \in keys
  PROVE  /\ k \in ChunkOf(keys, k) /\ ChunkOf(keys, k) \subseteq keys
         /\ IsFiniteSet(ChunkOf(keys, k))
         /\ Cardinality(ChunkOf(keys, k)) \in Nat \ {0}
  <1>1. k \in ChunkOf(keys, k) /\ ChunkOf(keys, k) \subseteq keys
    BY DEF ChunkOf
  <1>2. IsFiniteSet(ChunkOf(keys, k))
    BY <1>1, FS_Subset
  <1> QED BY <1>1, <1>2, FS_CardinalityType, FS_EmptySet

(* If a chunk has n rows or more per key, one of its keys has. *)
LEMMA CrowdedKey ==
  ASSUME NEW rows, IsFiniteSet(rows), NEW chunk, IsFiniteSet(chunk), chunk # {},
         NEW part \in [chunk -> SUBSET rows], \A r \in rows : \E k \in chunk : r \in part[k],
         NEW n \in Nat \ {0}, Cardinality(rows) >= n * Cardinality(chunk)
  PROVE  \E k \in chunk : Cardinality(part[k]) >= n
  <1> SUFFICES ASSUME \A k \in chunk : ~(Cardinality(part[k]) >= n) PROVE FALSE
    OBVIOUS
  <1>1. \A k \in chunk : Cardinality(part[k]) \in Nat
    BY FS_Subset, FS_CardinalityType
  <1>2. \A k \in chunk : Cardinality(part[k]) <= n - 1
    BY <1>1
  <1>3. Cardinality(rows) <= Cardinality(chunk) * (n - 1)
    BY <1>2, CoverBound
  <1>4. Cardinality(chunk) \in Nat \ {0} /\ Cardinality(rows) \in Nat
    BY FS_CardinalityType, FS_EmptySet
  <1>5. \A i \in Nat \ {0} : i * (n - 1) < n * i
    BY SMT
  <1> QED BY <1>3, <1>4, <1>5

-----------------------------------------------------------------------------
(* The two routes *)

(* $limit, alone or multiplied by the keys of a chunk, cuts off no row.    *)
LEMMA PlutoAgrees ==
  ASSUME NEW c \in Cities, NEW keys, IsFiniteSet(keys), NEW bbl \in keys, bbl \in Bbls
  PROVE  LookupPlutoBulk(c.pluto, keys, bbl) = LookupPluto(c.pluto, bbl)
  <1> DEFINE chunk == ChunkOf(keys, bbl)
             own(k) == {r \in c.pluto : r.bbl = k}
             rows == {r \in c.pluto : r.bbl \in chunk}
             before(r) == {q \in rows : q.bbl < r.bbl \/ (q.bbl = r.bbl /\ q.id < r.id)}
             earlier(r) == {q \in own(bbl) : q.id < r.id}
  <1>1. /\ bbl \in chunk /\ IsFiniteSet(chunk) /\ Cardinality(chunk) \in Nat \ {0}
        /\ PlutoLimit \in Nat \ {0}
    BY ChunkFacts, LimitsAssumption
  <1>2. c.pluto \subseteq PlutoRows /\ IsFiniteSet(c.pluto)
    BY CitiesAssumption
  <1>3. \A r \in c.pluto : r.bbl \in Bbls /\ r.bbl \in Nat /\ r.id \in Nat
    BY <1>2, BblsAssumption DEF PlutoRows, Bbls
  <1>4. ASSUME NEW k
        PROVE  IsFiniteSet(own(k)) /\ Cardinality(own(k)) \in Nat /\ Cardinality(own(k)) <= PlutoLimit
    <2>1. IsFiniteSet(own(k)) /\ Cardinality(own(k)) \in Nat
      BY <1>2, FS_Subset, FS_CardinalityType
    <2>2. CASE k \in Bbls
      BY <2>1, <2>2, CitiesAssumption
    <2>3. CASE k \notin Bbls
      <3>1. own(k) = {}
        BY <1>3, <2>3
      <3> HIDE DEF own
      <3> QED BY <1>1, <2>1, <3>1, FS_EmptySet
    <2> QED BY <2>2, <2>3
  <1>5. IsFiniteSet(rows) /\ Cardinality(rows) \in Nat
    BY <1>2, FS_Subset, FS_CardinalityType
  <1>6. Cardinality(rows) <= Cardinality(chunk) * PlutoLimit
    <2> DEFINE part == [k \in chunk |-> own(k)]
    <2>1. part \in [chunk -> SUBSET rows] /\ \A k \in chunk : part[k] = own(k)
      OBVIOUS
    <2>2. \A s \in rows : \E k \in chunk : s \in part[k]
      OBVIOUS
    <2>3. \A k \in chunk : Cardinality(part[k]) <= PlutoLimit
      BY <1>4, <2>1
    <2> HIDE DEF part, chunk, rows
    <2> QED BY <1>1, <1>5, <2>1, <2>2, <2>3, CoverBound
  <1>7. ASSUME NEW r \in rows PROVE Cardinality(before(r)) < PlutoLimit * Cardinality(chunk)
    <2>1. r \notin before(r) /\ before(r) \subseteq rows
      BY <1>3
    <2>2. /\ Cardinality(before(r)) \in Nat /\ Cardinality(before(r)) <= Cardinality(rows)
          /\ Cardinality(before(r)) # Cardinality(rows)
      BY <1>5, <1>7, <2>1, FS_Subset, FS_CardinalityType
    <2>3. Cardinality(chunk) * PlutoLimit = PlutoLimit * Cardinality(chunk)
      BY <1>1
    <2> HIDE DEF before, rows, chunk
    <2> QED BY <1>1, <1>5, <1>6, <2>2, <2>3
  <1>8. {r \in {q \in rows : Cardinality(before(q)) < PlutoLimit * Cardinality(chunk)} : r.bbl = bbl} = own(bbl)
    BY <1>1, <1>7
  <1>9. FirstRows(own(bbl), PlutoLimit) = own(bbl)
    <2>1. ASSUME NEW r \in own(bbl) PROVE Cardinality(earlier(r)) < PlutoLimit
      <3>1. r \notin earlier(r) /\ earlier(r) \subseteq own(bbl)
        BY <1>3
      <3>2. /\ Cardinality(earlier(r)) \in Nat /\ Cardinality(earlier(r)) <= Cardinality(own(bbl))
            /\ Cardinality(earlier(r)) # Cardinality(own(bbl))
        BY <1>4, <2>1, <3>1, FS_Subset, FS_CardinalityType
      <3> HIDE DEF earlier, own
      <3> QED BY <1>1, <1>4, <3>2
    <2> QED BY <2>1 DEF FirstRows
  <1>10. LookupPlutoBulk(c.pluto, keys, bbl) = ClassifyPluto(own(bbl))
    BY <1>8 DEF LookupPlutoBulk
  <1> QED BY <1>9, <1>10 DEF LookupPluto

(* The statuses of PLUTO and the codes of the footprints, in the order in  *)
(* which they are looked at.                                               *)
LEMMA FirstOfFour ==
  ASSUME NEW a, NEW b, NEW x, NEW y
  PROVE  FirstError(<<a, b, x, y>>) =
           IF a # "OK" THEN a ELSE IF b # "OK" THEN b ELSE IF x # "OK" THEN x ELSE y
  <1> DEFINE codes == <<a, b, x, y>>
             first(i) == codes[i] # "OK" /\ \A j \in DOMAIN codes : j < i => codes[j] = "OK"
  <1>1. DOMAIN codes = 1..4 /\ codes[1] = a /\ codes[2] = b /\ codes[3] = x /\ codes[4] = y
    OBVIOUS
  <1> HIDE DEF codes
  <1>2. FirstError(codes) = IF \A i \in 1..4 : codes[i] = "OK" THEN "OK" ELSE codes[CHOOSE i \in 1..4 : first(i)]
    BY <1>1 DEF FirstError
  <1>3. 1..4 = {1, 2, 3, 4}
    OBVIOUS
  <1>4. (\A i \in 1..4 : codes[i] = "OK") <=> a = "OK" /\ b = "OK" /\ x = "OK" /\ y = "OK"
    BY <1>1, <1>3
  <1>5. \A i, j \in 1..4 : first(i) /\ first(j) => i = j
    BY <1>1
  <1>6. \A i \in 1..4 : first(i) => (CHOOSE j \in 1..4 : first(j)) = i
    BY <1>5
  <1>7. /\ a # "OK" => first(1)
        /\ a = "OK" /\ b # "OK" => first(2)
        /\ a = "OK" /\ b = "OK" /\ x # "OK" => first(3)
        /\ a = "OK" /\ b = "OK" /\ x = "OK" /\ y # "OK" => first(4)
    BY <1>1, <1>3
  <1> HIDE DEF first
  <1> QED BY <1>1, <1>2, <1>3, <1>4, <1>6, <1>7 DEF codes

Refusals == {"FOOTPRINT_PAGE_LIMIT", "FOOTPRINTS_MALFORMED"}

LEMMA LookupCode ==
  ASSUME NEW prints, NEW mode, NEW bbl
  PROVE  LookupFootprints(prints, mode, bbl).code \in {"OK"} \cup Refusals
  BY DEF LookupFootprints, Refusals

LEMMA SameButRefused ==
  ASSUME NEW parcel, NEW base, NEW billing, NEW status, NEW bbl, NEW mode, NEW bin, NEW alone, NEW bulk,
         alone.candidates = bulk.candidates, bulk.code = "OK", alone.code \in {"OK"} \cup Refusals
  PROVE  LET o == Resolved(parcel, base, billing, status, alone, bbl, mode, bin)
         IN  Resolved(parcel, base, billing, status, bulk, bbl, mode, bin) = o \/ o.code \in Refusals
  <1> DEFINE bins == CollectBins(alone.candidates, bbl, mode)
             code(f) == FirstError(<<PlutoCode(status), f, Agreement(alone.candidates, bbl, mode),
                                     Corroboration(bin, bins)>>)
             end(f) == IF code(f) = "OK" THEN Success(parcel, base, billing, bins) ELSE Failure(code(f))
  <1>1. /\ Resolved(parcel, base, billing, status, alone, bbl, mode, bin) = end(alone.code)
        /\ Resolved(parcel, base, billing, status, bulk, bbl, mode, bin) = end(bulk.code)
    BY DEF Resolved
  <1>2. alone.code # "OK" => code(alone.code) = code(bulk.code) \/ code(alone.code) = alone.code
    BY FirstOfFour
  <1> HIDE DEF code
  <1>3. CASE alone.code = "OK"
    BY <1>1, <1>3
  <1>4. CASE alone.code # "OK" /\ code(alone.code) = code(bulk.code)
    BY <1>1, <1>4
  <1>5. CASE alone.code # "OK" /\ code(alone.code) = alone.code
    <2>1. end(alone.code) = Failure(alone.code)
      BY <1>5
    <2>2. Failure(alone.code).code = alone.code
      BY DEF Failure
    <2> QED BY <1>1, <1>5, <2>1, <2>2
  <1> QED BY <1>2, <1>3, <1>4, <1>5

LEMMA BulkKeysFinite ==
  ASSUME NEW c \in Cities, NEW keys \in SUBSET Bbls
  PROVE  /\ IsFiniteSet(keys) /\ IsFiniteSet(keys \ UnitBbls) /\ IsFiniteSet(keys \cap UnitBbls)
         /\ IsFiniteSet(BulkBases(c, keys)) /\ IsFiniteSet(BulkPlutoKeys(c, keys))
  <1> DEFINE known == {k \in keys \cap UnitBbls : MatchCount(UnitRowsOf(c.units, k)) = "one"}
             baseOf(u) == TheRow(UnitRowsOf(c.units, u)).base
             billed == {a \in BulkBases(c, keys) : MatchCount(BillingRowsOf(c.condos, a)) = "one"}
             billingOf(b) == TheRow(BillingRowsOf(c.condos, b)).billing
             bases == [u \in known |-> baseOf(u)]
             billings == [b \in billed |-> billingOf(b)]
  <1>1. /\ IsFiniteSet(keys) /\ IsFiniteSet(keys \ UnitBbls) /\ IsFiniteSet(keys \cap UnitBbls)
        /\ IsFiniteSet(known)
    BY BblsAssumption, FS_Subset
  <1>2. BulkBases(c, keys) = {baseOf(u) : u \in known}
    BY DEF BulkBases
  <1>3. bases \in Surjection(known, BulkBases(c, keys))
    BY <1>2 DEF Surjection
  <1> HIDE DEF bases, known
  <1>4. IsFiniteSet(BulkBases(c, keys))
    BY <1>1, <1>3, FS_Surjection
  <1>5. IsFiniteSet(billed)
    BY <1>4, FS_Subset
  <1>6. billings \in Surjection(billed, {billingOf(b) : b \in billed})
    BY DEF Surjection
  <1>7. BulkPlutoKeys(c, keys) = (keys \ UnitBbls) \cup {billingOf(b) : b \in billed}
    BY DEF BulkPlutoKeys
  <1> HIDE DEF billings, billed
  <1>8. IsFiniteSet({billingOf(b) : b \in billed})
    BY <1>5, <1>6, FS_Surjection
  <1> QED BY <1>1, <1>4, <1>7, <1>8, FS_Union

LEMMA OneRow ==
  ASSUME NEW rows, NEW r, rows = {r} PROVE MatchCount(rows) = "one"
  <1>1. rows # {} /\ Cardinality(rows) = 1
    BY FS_Singleton
  <1> QED BY <1>1 DEF MatchCount

LEMMA BulkAgrees ==
  ASSUME NEW c \in Cities, NEW keys \in SUBSET Bbls, NEW bbl \in keys
  PROVE  LET alone == ResolveBbl(c, bbl, Absent)
         IN  ResolveInBulk(c, keys, bbl) = alone \/ alone.code \in Refusals
  <1> DEFINE o == ResolveInBulk(c, keys, bbl)
             alone == ResolveBbl(c, bbl, Absent)
             rows == UnitRowsOf(c.units, bbl)
             u == TheRow(rows)
             billings == BillingRowsOf(c.condos, u.base)
             b == TheRow(billings)
  <1>1. CASE bbl \notin UnitBbls
    <2> DEFINE bulk == BulkPrints(c, "parcel", keys \ UnitBbls, bbl)
               single == LookupFootprints(c.prints, "parcel", bbl)
               status == LookupPluto(c.pluto, bbl)
    <2>1. LookupPlutoBulk(c.pluto, BulkPlutoKeys(c, keys), bbl) = status
      <3>1. bbl \in BulkPlutoKeys(c, keys)
        BY <1>1 DEF BulkPlutoKeys
      <3> QED BY <3>1, BulkKeysFinite, PlutoAgrees
    <2>2. /\ o = Resolved(bbl, NoBbl, NoBbl, status, bulk, bbl, "non-condo", Absent)
          /\ alone = Resolved(bbl, NoBbl, NoBbl, status, single, bbl, "non-condo", Absent)
      BY <1>1, <2>1 DEF ResolveInBulk, ResolveBbl, ResolveLot
    <2>3. bulk.candidates = single.candidates /\ bulk.code = "OK"
      BY <1>1, LotBulkLookup, LotLookup DEF BulkPrints
    <2>4. single.code \in {"OK"} \cup Refusals
      BY LookupCode
    <2> HIDE DEF o, alone, bulk, single, status
    <2>5. o = alone \/ alone.code \in Refusals
      BY <2>2, <2>3, <2>4, SameButRefused
    <2> QED BY <2>5 DEF o, alone
  <1>2. CASE bbl \in UnitBbls /\ MatchCode(rows, UnitCodes) # "OK"
    BY <1>2 DEF ResolveInBulk, ResolveBbl, ResolveUnit
  <1>3. CASE bbl \in UnitBbls /\ MatchCode(rows, UnitCodes) = "OK"
               /\ MatchCode(billings, BillingCodes) # "OK"
    BY <1>3 DEF ResolveInBulk, ResolveBbl, ResolveUnit
  <1>4. CASE bbl \in UnitBbls /\ MatchCode(rows, UnitCodes) = "OK"
               /\ MatchCode(billings, BillingCodes) = "OK"
    <2> DEFINE bulk == BulkPrints(c, "base", BulkBases(c, keys), u.base)
               single == LookupFootprints(c.prints, "base", u.base)
               status == LookupPluto(c.pluto, b.billing)
    <2>1. rows = {u} /\ billings = {b} /\ b.billing \in BillingBbls
      BY <1>4, CondoRow
    <2>2. u.base \in BulkBases(c, keys)
      <3>1. MatchCount(rows) = "one"
        BY <2>1, OneRow
      <3> QED BY <1>4, <3>1 DEF BulkBases
    <2>3. b.billing \in BulkPlutoKeys(c, keys)
      <3>1. MatchCount(billings) = "one"
        BY <2>1, OneRow
      <3> QED BY <2>2, <3>1 DEF BulkPlutoKeys
    <2>4. LookupPlutoBulk(c.pluto, BulkPlutoKeys(c, keys), b.billing) = status
      BY <2>1, <2>3, BblFacts, BulkKeysFinite, PlutoAgrees
    <2>5. o = Resolved(bbl, u.base, b.billing, status, bulk, b.billing, "condo", Absent)
      BY <1>4, <2>4 DEF ResolveInBulk
    <2>6. alone = Resolved(bbl, u.base, b.billing, status, single, b.billing, "condo", Absent)
      BY <1>4 DEF ResolveBbl, ResolveUnit
    <2>7. bulk.candidates = single.candidates /\ bulk.code = "OK"
      BY <2>2, CondoBulkLookup, CondoLookup DEF BulkPrints
    <2>8. single.code \in {"OK"} \cup Refusals
      BY LookupCode
    <2> HIDE DEF o, alone, rows, u, billings, b, bulk, single, status
    <2>9. o = alone \/ alone.code \in Refusals
      BY <2>5, <2>6, <2>7, <2>8, SameButRefused
    <2> QED BY <2>9 DEF o, alone
  <1> QED BY <1>1, <1>2, <1>3, <1>4

LEMMA BulkRequest ==
  ASSUME RequestInv, request.kind = "bulk"
  PROVE  /\ city \in Cities /\ request.keys \in SUBSET Bbls
         /\ outcome = [b \in request.keys |-> IF BulkFails(city, request.keys) THEN Failure("REQUEST_FAILED")
                                              ELSE ResolveInBulk(city, request.keys, b)]
  <1>1. PICK keys \in SUBSET Bbls :
          request = [kind |-> "bulk", keys |-> keys]
            /\ outcome = [b \in keys |-> IF BulkFails(city, keys) THEN Failure("REQUEST_FAILED")
                                         ELSE ResolveInBulk(city, keys, b)]
    <2>1. /\ request # NoRequest /\ request # [kind |-> "failed"]
          /\ \A b : request # [kind |-> "bbl", keys |-> {b}]
          /\ \A q : request # [kind |-> "address", query |-> q]
      BY DEF NoRequest
    <2> QED BY <2>1, Zenon DEF RequestInv
  <1>2. request.keys = keys
    BY <1>1
  <1> QED BY <1>1, <1>2 DEF RequestInv

(* An input resolves the same in a bulk registration as alone, whatever is *)
(* asked for along with it and however the keys fall into chunks, except   *)
(* for what the client of the footprints alone refuses outright.           *)
THEOREM RoutesGiveTheSame == Spec => []RoutesAgree
  <1>1. RequestInv => RoutesAgree
    <2> SUFFICES ASSUME RequestInv, request.kind = "bulk", NEW b \in request.keys,
                        outcome[b].code # "REQUEST_FAILED"
                 PROVE  LET alone == ResolveBbl(city, b, Absent)
                        IN  outcome[b] = alone \/ alone.code \in Refusals
      BY DEF RoutesAgree, Refusals
    <2>1. Failure("REQUEST_FAILED").code = "REQUEST_FAILED"
      BY DEF Failure
    <2>2. outcome[b] = ResolveInBulk(city, request.keys, b)
      BY <2>1, BulkRequest
    <2> QED BY <2>2, BulkRequest, BulkAgrees
  <1> QED BY <1>1, RequestHolds, PTL

-----------------------------------------------------------------------------
(* Refusing a bulk request *)

LEMMA ChunkLimit ==
  ASSUME NEW n \in Nat
  PROVE  /\ MaxPages * PageSize \in Nat /\ MaxPages * PageSize > 1
         /\ MaxPages * (PageSize * n) = (MaxPages * PageSize) * n
  <1>1. MaxPages \in Nat /\ PageSize \in Nat /\ MaxPages * PageSize > 1
    BY LimitsAssumption
  <1>2. \A i, j, k \in Nat : i * j \in Nat /\ i * (j * k) = (i * j) * k
    BY SMT
  <1> QED BY <1>1, <1>2

(* A chunk of footprints is too long only if that of one of its keys is. *)
LEMMA FootprintCrowd ==
  ASSUME NEW c \in Cities, NEW mode, NEW keys, IsFiniteSet(keys),
         FootprintsBulkFails(c.prints, mode, keys)
  PROVE  \E k \in keys : LookupFootprints(c.prints, mode, k).code # "OK"
  <1>1. PICK l \in keys : TooManyRows(FootprintChunkRows(c.prints, mode, keys, l),
                                      BulkPageSize(ChunkOf(keys, l)))
    BY DEF FootprintsBulkFails
  <1> DEFINE chunk == ChunkOf(keys, l)
             rows == FootprintChunkRows(c.prints, mode, keys, l)
             own(k) == {r \in c.prints : AsksFor(r, mode, {k})}
             part == [k \in chunk |-> own(k)]
  <1>2. /\ l \in chunk /\ chunk \subseteq keys /\ IsFiniteSet(chunk)
        /\ Cardinality(chunk) \in Nat
    BY ChunkFacts
  <1>3. IsFiniteSet(rows)
    BY CitiesAssumption, FS_Subset DEF FootprintChunkRows
  <1>4. part \in [chunk -> SUBSET rows] /\ \A r \in rows : \E k \in chunk : r \in part[k]
    BY DEF FootprintChunkRows, AsksFor
  <1>5. Cardinality(rows) >= MaxPages * (PageSize * Cardinality(chunk))
    BY <1>1 DEF TooManyRows, BulkPageSize
  <1>6. \A k \in chunk : part[k] = own(k)
    OBVIOUS
  <1> HIDE DEF chunk, rows, part
  <1>7. Cardinality(rows) >= (MaxPages * PageSize) * Cardinality(chunk)
    BY <1>2, <1>5, ChunkLimit
  <1>8. MaxPages * PageSize \in Nat \ {0}
    BY <1>2, ChunkLimit
  <1>9. PICK k \in chunk : Cardinality(part[k]) >= MaxPages * PageSize
    BY <1>2, <1>3, <1>4, <1>7, <1>8, CrowdedKey
  <1>10. TooManyRows(own(k), PageSize)
    BY <1>6, <1>9 DEF TooManyRows
  <1> QED BY <1>2, <1>10 DEF LookupFootprints

(* Likewise for the data sets of the condominiums, where a single key must *)
(* match one row.                                                          *)
LEMMA CondoCrowd ==
  ASSUME NEW rows, IsFiniteSet(rows), NEW keys, IsFiniteSet(keys), NEW own \in [keys -> SUBSET rows],
         NEW l \in keys, NEW asked, asked = {r \in rows : \E k \in ChunkOf(keys, l) : r \in own[k]},
         Malformed(asked) \/ TooManyRows(asked, BulkPageSize(ChunkOf(keys, l)))
  PROVE  \E k \in keys : \A what : what.zero # "OK" /\ what.multiple # "OK" => MatchCode(own[k], what) # "OK"
  <1> DEFINE chunk == ChunkOf(keys, l)
             part == [k \in chunk |-> own[k]]
  <1>1. /\ l \in chunk /\ chunk \subseteq keys /\ IsFiniteSet(chunk)
        /\ Cardinality(chunk) \in Nat
    BY ChunkFacts
  <1>2. ASSUME NEW k \in keys, NEW what, what.zero # "OK", what.multiple # "OK",
               MatchCode(own[k], what) = "OK"
        PROVE  ~Malformed(own[k]) /\ Cardinality(own[k]) = 1
    <2>1. IsFiniteSet(own[k])
      BY FS_Subset
    <2>2. own[k] = {TheRow(own[k])} /\ ~Malformed(own[k])
      BY <1>2, <2>1, SingleRow
    <2> QED BY <2>1, <2>2, FS_Singleton
  <1>3. CASE Malformed(asked)
    <2>1. PICK r \in asked : \E field \in DOMAIN r \cap {"unit", "base", "billing"} : r[field] = Unparsed
      BY <1>3 DEF Malformed
    <2>2. PICK k \in chunk : r \in own[k]
      OBVIOUS
    <2>3. Malformed(own[k])
      BY <2>1, <2>2 DEF Malformed
    <2> QED BY <1>1, <1>2, <2>2, <2>3
  <1>4. CASE TooManyRows(asked, BulkPageSize(chunk))
    <2>1. part \in [chunk -> SUBSET asked] /\ \A r \in asked : \E k \in chunk : r \in part[k]
      BY <1>1
    <2>2. IsFiniteSet(asked) /\ Cardinality(asked) >= MaxPages * (PageSize * Cardinality(chunk))
      BY <1>4, FS_Subset DEF TooManyRows, BulkPageSize
    <2>3. \A k \in chunk : part[k] = own[k]
      OBVIOUS
    <2> HIDE DEF chunk, part
    <2>4. Cardinality(asked) >= (MaxPages * PageSize) * Cardinality(chunk)
      BY <1>1, <2>2, ChunkLimit
    <2>5. MaxPages * PageSize \in Nat \ {0} /\ MaxPages * PageSize > 1
      BY <1>1, ChunkLimit
    <2>6. PICK k \in chunk : Cardinality(part[k]) >= MaxPages * PageSize
      BY <1>1, <2>1, <2>2, <2>4, <2>5, CrowdedKey
    <2>7. Cardinality(own[k]) # 1
      BY <2>3, <2>5, <2>6
    <2> QED BY <1>1, <1>2, <2>6, <2>7
  <1> QED BY <1>3, <1>4

LEMMA ResolvedFails ==
  ASSUME NEW parcel, NEW base, NEW billing, NEW status, NEW found, NEW bbl, NEW mode, NEW bin,
         found.code # "OK"
  PROVE  Resolved(parcel, base, billing, status, found, bbl, mode, bin).code # "OK"
  <1> DEFINE bins == CollectBins(found.candidates, bbl, mode)
             code == FirstError(<<PlutoCode(status), found.code,
                                  Agreement(found.candidates, bbl, mode), Corroboration(bin, bins)>>)
  <1>1. code # "OK"
    BY FirstOfFour
  <1>2. Resolved(parcel, base, billing, status, found, bbl, mode, bin) = Failure(code)
    BY <1>1 DEF Resolved
  <1> HIDE DEF code
  <1> QED BY <1>1, <1>2 DEF Failure

LEMMA UnitFails ==
  ASSUME NEW c, NEW unit \in UnitBbls,
         LET base == TheRow(UnitRowsOf(c.units, unit)).base
         IN  \/ MatchCode(UnitRowsOf(c.units, unit), UnitCodes) # "OK"
             \/ MatchCode(BillingRowsOf(c.condos, base), BillingCodes) # "OK"
             \/ LookupFootprints(c.prints, "base", base).code # "OK"
  PROVE  ResolveBbl(c, unit, Absent).code # "OK"
  <1> DEFINE o == ResolveUnit(c, unit, Absent)
             rows == UnitRowsOf(c.units, unit)
             base == TheRow(rows).base
             billings == BillingRowsOf(c.condos, base)
             billing == TheRow(billings).billing
             single == LookupFootprints(c.prints, "base", base)
  <1>1. ResolveBbl(c, unit, Absent) = o
    BY DEF ResolveBbl
  <1>2. \A code : Failure(code).code = code
    BY DEF Failure
  <1>3. CASE MatchCode(rows, UnitCodes) # "OK"
    <2>1. o = Failure(MatchCode(rows, UnitCodes))
      BY <1>3 DEF ResolveUnit
    <2> HIDE DEF o, rows
    <2> QED BY <1>1, <1>2, <1>3, <2>1
  <1>4. CASE MatchCode(rows, UnitCodes) = "OK" /\ MatchCode(billings, BillingCodes) # "OK"
    <2>1. o = Failure(MatchCode(billings, BillingCodes))
      BY <1>4 DEF ResolveUnit
    <2> HIDE DEF o, billings
    <2> QED BY <1>1, <1>2, <1>4, <2>1
  <1>5. CASE MatchCode(rows, UnitCodes) = "OK" /\ MatchCode(billings, BillingCodes) = "OK"
               /\ single.code # "OK"
    <2>1. o = Resolved(unit, base, billing, LookupPluto(c.pluto, billing), single, billing, "condo", Absent)
      BY <1>5 DEF ResolveUnit
    <2> DEFINE status == LookupPluto(c.pluto, billing)
    <2> HIDE DEF o, single, base, billing, status
    <2> QED BY <1>1, <1>5, <2>1, ResolvedFails DEF status
  <1> QED BY <1>3, <1>4, <1>5

(* The BINs of a bulk request's bases are asked for on behalf of a unit. *)
LEMMA BaseOfUnit ==
  ASSUME NEW c, NEW keys, NEW base \in BulkBases(c, keys)
  PROVE  \E u \in keys \cap UnitBbls : TheRow(UnitRowsOf(c.units, u)).base = base
  BY DEF BulkBases

LEMMA RefusalIsAnInputs ==
  ASSUME NEW c \in Cities, NEW keys \in SUBSET Bbls, BulkFails(c, keys)
  PROVE  \E b \in keys : ResolveBbl(c, b, Absent).code # "OK"
  <1>1. CASE FootprintsBulkFails(c.prints, "parcel", keys \ UnitBbls)
    <2>1. PICK b \in keys \ UnitBbls : LookupFootprints(c.prints, "parcel", b).code # "OK"
      BY <1>1, BulkKeysFinite, FootprintCrowd
    <2> DEFINE single == LookupFootprints(c.prints, "parcel", b)
               status == LookupPluto(c.pluto, b)
    <2>2. ResolveBbl(c, b, Absent) = Resolved(b, NoBbl, NoBbl, status, single, b, "non-condo", Absent)
      BY DEF ResolveBbl, ResolveLot
    <2> HIDE DEF single, status
    <2> QED BY <2>1, <2>2, ResolvedFails DEF single
  <1>2. CASE UnitsBulkFails(c.units, keys \cap UnitBbls)
    <2> DEFINE units == keys \cap UnitBbls
               own == [k \in units |-> UnitRowsOf(c.units, k)]
    <2>1. PICK l \in units : LET asked == {r \in c.units : r.unit \in ChunkOf(units, l)}
                             IN  Malformed(asked) \/ TooManyRows(asked, BulkPageSize(ChunkOf(units, l)))
      BY <1>2 DEF UnitsBulkFails, CondoBulkFails
    <2> DEFINE asked == {r \in c.units : r.unit \in ChunkOf(units, l)}
    <2>2. own \in [units -> SUBSET c.units] /\ \A k \in units : own[k] = UnitRowsOf(c.units, k)
      BY DEF UnitRowsOf
    <2>3. asked = {r \in c.units : \E k \in ChunkOf(units, l) : r \in own[k]}
      BY DEF UnitRowsOf, ChunkOf
    <2>4. IsFiniteSet(c.units) /\ IsFiniteSet(units)
      BY CityTypes, BulkKeysFinite
    <2>5. Malformed(asked) \/ TooManyRows(asked, BulkPageSize(ChunkOf(units, l)))
      BY <2>1
    <2> HIDE DEF asked, own, units
    <2>6. PICK k \in units : MatchCode(own[k], UnitCodes) # "OK"
      BY <2>2, <2>3, <2>4, <2>5, CondoCrowd, CodesAreErrors
    <2>7. k \in keys /\ k \in UnitBbls /\ MatchCode(UnitRowsOf(c.units, k), UnitCodes) # "OK"
      BY <2>2, <2>6 DEF units
    <2> QED BY <2>7, UnitFails
  <1>3. CASE CondosBulkFails(c.condos, BulkBases(c, keys))
    <2> DEFINE bases == BulkBases(c, keys)
               own == [k \in bases |-> BillingRowsOf(c.condos, k)]
    <2>1. PICK l \in bases : LET asked == {r \in c.condos : r.base \in ChunkOf(bases, l)}
                             IN  Malformed(asked) \/ TooManyRows(asked, BulkPageSize(ChunkOf(bases, l)))
      BY <1>3 DEF CondosBulkFails, CondoBulkFails
    <2> DEFINE asked == {r \in c.condos : r.base \in ChunkOf(bases, l)}
    <2>2. own \in [bases -> SUBSET c.condos] /\ \A k \in bases : own[k] = BillingRowsOf(c.condos, k)
      BY DEF BillingRowsOf
    <2>3. asked = {r \in c.condos : \E k \in ChunkOf(bases, l) : r \in own[k]}
      BY DEF BillingRowsOf, ChunkOf
    <2>4. IsFiniteSet(c.condos) /\ IsFiniteSet(bases)
      BY CityTypes, BulkKeysFinite
    <2>5. Malformed(asked) \/ TooManyRows(asked, BulkPageSize(ChunkOf(bases, l)))
      BY <2>1
    <2> HIDE DEF asked, own, bases
    <2>6. PICK k \in bases : MatchCode(own[k], BillingCodes) # "OK"
      BY <2>2, <2>3, <2>4, <2>5, CondoCrowd, CodesAreErrors
    <2>7. PICK u \in keys \cap UnitBbls : TheRow(UnitRowsOf(c.units, u)).base = k
      BY BaseOfUnit DEF bases
    <2>8. MatchCode(BillingRowsOf(c.condos, TheRow(UnitRowsOf(c.units, u)).base), BillingCodes) # "OK"
      BY <2>2, <2>6, <2>7
    <2> QED BY <2>7, <2>8, UnitFails
  <1>4. CASE FootprintsBulkFails(c.prints, "base", BulkBases(c, keys))
    <2>1. PICK k \in BulkBases(c, keys) : LookupFootprints(c.prints, "base", k).code # "OK"
      BY <1>4, BulkKeysFinite, FootprintCrowd
    <2>2. PICK u \in keys \cap UnitBbls : TheRow(UnitRowsOf(c.units, u)).base = k
      BY BaseOfUnit
    <2> QED BY <2>1, <2>2, UnitFails
  <1> QED BY <1>1, <1>2, <1>3, <1>4 DEF BulkFails

(* A bulk registration is refused as a whole only when one of its inputs   *)
(* would not resolve alone either: the limits of a chunk grow with its     *)
(* keys.                                                                   *)
THEOREM RefusalsAreJustified == Spec => []RefusedForAnInput
  <1>1. RequestInv => RefusedForAnInput
    <2> SUFFICES ASSUME RequestInv, request.kind = "bulk", NEW b \in request.keys,
                        outcome[b].code = "REQUEST_FAILED"
                 PROVE  \E k \in request.keys : ResolveBbl(city, k, Absent).code # "OK"
      BY DEF RefusedForAnInput
    <2>1. CASE BulkFails(city, request.keys)
      BY <2>1, BulkRequest, RefusalIsAnInputs
    <2>2. CASE ~BulkFails(city, request.keys)
      <3>1. outcome[b] = ResolveInBulk(city, request.keys, b)
        BY <2>2, BulkRequest
      <3>2. outcome[b] = ResolveBbl(city, b, Absent) \/ ResolveBbl(city, b, Absent).code \in Refusals
        BY <3>1, BulkRequest, BulkAgrees
      <3> QED BY <3>2 DEF Refusals
    <2> QED BY <2>1, <2>2
  <1> QED BY <1>1, RequestHolds, PTL

-----------------------------------------------------------------------------
(* Types *)

LEMMA CodeTypes ==
  /\ \A rows : /\ MatchCode(rows, UnitCodes) \in Codes /\ MatchCode(rows, BillingCodes) \in Codes
               /\ MatchCode(rows, BaseCodes) \in Codes
  /\ {"OK", "REQUEST_FAILED", "CALL_FAILED"} \cup Refusals \subseteq Codes
  /\ \A rows, bbl, mode : Agreement(rows, bbl, mode) \in Codes
  /\ \A bin, bins : Corroboration(bin, bins) \in Codes
  /\ \A q : SelectionCode(q) \in Codes
  /\ \A code \in Codes : Failure(code) \in Outcomes
  <1>1. \A codes \in {UnitCodes, BillingCodes, BaseCodes} : codes.zero \in Codes /\ codes.multiple \in Codes
    <2>1. \A codes \in {UnitCodes, BillingCodes, BaseCodes} :
            codes.zero = codes["zero"] /\ codes.multiple = codes["multiple"]
      OBVIOUS
    <2> QED BY <2>1 DEF Codes
  <1>2. "CONDO_MALFORMED" \in Codes /\ "OK" \in Codes
    BY DEF Codes
  <1>3. \A rows, what : MatchCode(rows, what) \in {"CONDO_MALFORMED", what.zero, what.multiple, "OK"}
    BY DEF MatchCode
  <1>4. \A rows : /\ MatchCode(rows, UnitCodes) \in Codes /\ MatchCode(rows, BillingCodes) \in Codes
                  /\ MatchCode(rows, BaseCodes) \in Codes
    BY <1>1, <1>2, <1>3
  <1>5. {"OK", "REQUEST_FAILED", "CALL_FAILED"} \cup Refusals \subseteq Codes
    BY DEF Codes, Refusals
  <1>6. \A rows, bbl, mode :
          Agreement(rows, bbl, mode) \in {"OK", "FOOTPRINT_BASE_BBL_MISMATCH", "FOOTPRINT_MAPPLUTO_BBL_MISMATCH"}
    BY DEF Agreement
  <1>7. \A bin, bins : Corroboration(bin, bins) \in {"OK", "GEOSEARCH_BIN_CONFLICT"}
    BY DEF Corroboration
  <1>8. \A q : SelectionCode(q) \in {"GEOSEARCH_EMPTY_RESULT", "GEOSEARCH_NO_IDENTIFIERS",
                                     "GEOSEARCH_AMBIGUOUS", "INVALID_BBL", "OK"}
    BY DEF SelectionCode
  <1>9. {"OK", "FOOTPRINT_BASE_BBL_MISMATCH", "FOOTPRINT_MAPPLUTO_BBL_MISMATCH", "GEOSEARCH_BIN_CONFLICT",
         "GEOSEARCH_EMPTY_RESULT", "GEOSEARCH_NO_IDENTIFIERS", "GEOSEARCH_AMBIGUOUS", "INVALID_BBL"}
          \subseteq Codes
    BY DEF Codes
  <1>10. \A code \in Codes : Failure(code) \in Outcomes
    BY DEF Failure, Outcomes
  <1> QED BY <1>4, <1>5, <1>6, <1>7, <1>8, <1>9, <1>10

LEMMA PlutoCodeType ==
  ASSUME NEW rows, IsFiniteSet(rows)
  PROVE  PlutoCode(ClassifyPluto(rows)) \in Codes
  <1> DEFINE complete == {r \in rows : r.complete}
  <1>1. IsFiniteSet(complete) /\ Cardinality(complete) \in Nat
    BY FS_Subset, FS_CardinalityType
  <1>2. Cardinality(complete) = 0 => complete = {}
    BY <1>1, FS_EmptySet
  <1>3. complete = {} => Cardinality(complete) = 0
    BY FS_EmptySet
  <1>4. ClassifyPluto(rows) \in {"found", "multiple", "incomplete", "not_found"}
    <2>1. CASE rows = {}
      BY <1>3, <2>1 DEF ClassifyPluto
    <2>2. CASE rows # {} /\ complete = {}
      BY <1>3, <2>2 DEF ClassifyPluto
    <2>3. CASE Cardinality(complete) = 1
      BY <2>3 DEF ClassifyPluto
    <2>4. CASE Cardinality(complete) > 1
      BY <1>1, <2>4 DEF ClassifyPluto
    <2> HIDE DEF complete
    <2> QED BY <1>1, <1>2, <2>1, <2>2, <2>3, <2>4
  <1> QED BY <1>4 DEF PlutoCode, Codes

LEMMA ResolvedType ==
  ASSUME NEW parcel \in Bbls, NEW base \in ParcelBbls \cup {NoBbl}, NEW billing \in BillingBbls \cup {NoBbl},
         NEW status, NEW found, NEW bbl, NEW mode, NEW bin, PlutoCode(status) \in Codes,
         found.code \in {"OK"} \cup Refusals,
         \A r \in found.candidates : r \in FootprintRows /\ Candidate(r)
  PROVE  Resolved(parcel, base, billing, status, found, bbl, mode, bin) \in Outcomes
  <1> DEFINE bins == CollectBins(found.candidates, bbl, mode)
             code == FirstError(<<PlutoCode(status), found.code,
                                  Agreement(found.candidates, bbl, mode), Corroboration(bin, bins)>>)
  <1>1. bins \subseteq Bins
    BY RowFacts DEF CollectBins
  <1>2. code \in Codes
    <2>1. found.code \in Codes /\ Agreement(found.candidates, bbl, mode) \in Codes /\ Corroboration(bin, bins) \in Codes
      BY CodeTypes
    <2> HIDE DEF bins
    <2> QED BY <2>1, FirstOfFour
  <1>3. Resolved(parcel, base, billing, status, found, bbl, mode, bin)
          = IF code = "OK" THEN Success(parcel, base, billing, bins) ELSE Failure(code)
    BY DEF Resolved
  <1> HIDE DEF bins, code
  <1>4. Success(parcel, base, billing, bins) \in Outcomes
    BY <1>1, CodeTypes DEF Success, Outcomes
  <1> QED BY <1>2, <1>3, <1>4, CodeTypes

LEMMA PlutoTypes ==
  ASSUME NEW c \in Cities, NEW keys, NEW bbl
  PROVE  /\ PlutoCode(LookupPluto(c.pluto, bbl)) \in Codes
         /\ PlutoCode(LookupPlutoBulk(c.pluto, keys, bbl)) \in Codes
  <1>1. \A rows \in SUBSET c.pluto : PlutoCode(ClassifyPluto(rows)) \in Codes
    BY CitiesAssumption, FS_Subset, PlutoCodeType
  <1>2. FirstRows({r \in c.pluto : r.bbl = bbl}, PlutoLimit) \in SUBSET c.pluto
    BY DEF FirstRows
  <1>3. \E rows \in SUBSET c.pluto : LookupPlutoBulk(c.pluto, keys, bbl) = ClassifyPluto(rows)
    <2> DEFINE chunk == ChunkOf(keys, bbl)
               rows == {r \in c.pluto : r.bbl \in chunk}
               before(r) == {q \in rows : q.bbl < r.bbl \/ (q.bbl = r.bbl /\ q.id < r.id)}
               kept == {r \in {s \in rows : Cardinality(before(s)) < PlutoLimit * Cardinality(chunk)} : r.bbl = bbl}
    <2>1. kept \in SUBSET c.pluto
      OBVIOUS
    <2>2. LookupPlutoBulk(c.pluto, keys, bbl) = ClassifyPluto(kept)
      BY DEF LookupPlutoBulk
    <2> HIDE DEF kept
    <2> QED BY <2>1, <2>2
  <1> QED BY <1>1, <1>2, <1>3 DEF LookupPluto

LEMMA FoundTypes ==
  ASSUME NEW c \in Cities, NEW mode, NEW keys, NEW bbl
  PROVE  /\ \A r \in LookupFootprints(c.prints, mode, bbl).candidates : r \in FootprintRows /\ Candidate(r)
         /\ BulkPrints(c, mode, keys, bbl).code \in {"OK"} \cup Refusals
         /\ \A r \in BulkPrints(c, mode, keys, bbl).candidates : r \in FootprintRows /\ Candidate(r)
  BY CityTypes DEF LookupFootprints, BulkPrints, LookupFootprintsBulk, FootprintChunkRows

LEMMA LotType ==
  ASSUME NEW c \in Cities, NEW bbl \in Bbls, NEW bin
  PROVE  ResolveLot(c, bbl, bin) \in Outcomes
  <1> DEFINE found == LookupFootprints(c.prints, "parcel", bbl)
             status == LookupPluto(c.pluto, bbl)
  <1>1. /\ ResolveLot(c, bbl, bin) = Resolved(bbl, NoBbl, NoBbl, status, found, bbl, "non-condo", bin)
        /\ PlutoCode(status) \in Codes /\ found.code \in {"OK"} \cup Refusals
        /\ \A r \in found.candidates : r \in FootprintRows /\ Candidate(r)
    BY PlutoTypes, LookupCode, FoundTypes DEF ResolveLot
  <1> HIDE DEF found, status
  <1> QED BY <1>1, ResolvedType

LEMMA UnitType ==
  ASSUME NEW c \in Cities, NEW unit, NEW bin
  PROVE  ResolveUnit(c, unit, bin) \in Outcomes
  <1> DEFINE o == ResolveUnit(c, unit, bin)
             rows == UnitRowsOf(c.units, unit)
             u == TheRow(rows)
             billings == BillingRowsOf(c.condos, u.base)
             b == TheRow(billings)
             found == LookupFootprints(c.prints, "base", u.base)
             status == LookupPluto(c.pluto, b.billing)
  <1>1. CASE MatchCode(rows, UnitCodes) # "OK"
    <2>1. o = Failure(MatchCode(rows, UnitCodes))
      BY <1>1 DEF ResolveUnit
    <2> QED BY <2>1, CodeTypes
  <1>2. CASE MatchCode(rows, UnitCodes) = "OK" /\ MatchCode(billings, BillingCodes) # "OK"
    <2>1. o = Failure(MatchCode(billings, BillingCodes))
      BY <1>2 DEF ResolveUnit
    <2> QED BY <2>1, CodeTypes
  <1>3. CASE MatchCode(rows, UnitCodes) = "OK" /\ MatchCode(billings, BillingCodes) = "OK"
    <2>1. o = Resolved(unit, u.base, b.billing, status, found, b.billing, "condo", bin)
      BY <1>3 DEF ResolveUnit
    <2>2. unit \in Bbls /\ u.base \in ParcelBbls /\ b.billing \in BillingBbls
      BY <1>3, CondoRow, BblFacts
    <2>3. /\ PlutoCode(status) \in Codes /\ found.code \in {"OK"} \cup Refusals
          /\ \A r \in found.candidates : r \in FootprintRows /\ Candidate(r)
      BY PlutoTypes, LookupCode, FoundTypes
    <2> HIDE DEF o, rows, u, billings, b, found, status
    <2>4. o \in Outcomes
      BY <2>1, <2>2, <2>3, ResolvedType
    <2> QED BY <2>4 DEF o
  <1> QED BY <1>1, <1>2, <1>3

LEMMA BulkType ==
  ASSUME NEW c \in Cities, NEW keys \in SUBSET Bbls, NEW bbl \in keys
  PROVE  ResolveInBulk(c, keys, bbl) \in Outcomes
  <1> DEFINE o == ResolveInBulk(c, keys, bbl)
             rows == UnitRowsOf(c.units, bbl)
             u == TheRow(rows)
             billings == BillingRowsOf(c.condos, u.base)
             b == TheRow(billings)
  <1>1. CASE bbl \notin UnitBbls
    <2> DEFINE found == BulkPrints(c, "parcel", keys \ UnitBbls, bbl)
               status == LookupPlutoBulk(c.pluto, BulkPlutoKeys(c, keys), bbl)
    <2>1. /\ o = Resolved(bbl, NoBbl, NoBbl, status, found, bbl, "non-condo", Absent)
          /\ PlutoCode(status) \in Codes /\ found.code \in {"OK"} \cup Refusals
          /\ \A r \in found.candidates : r \in FootprintRows /\ Candidate(r)
      BY <1>1, PlutoTypes, FoundTypes DEF ResolveInBulk
    <2> HIDE DEF o, found, status
    <2>2. o \in Outcomes
      BY <2>1, ResolvedType
    <2> QED BY <2>2 DEF o
  <1>2. CASE bbl \in UnitBbls /\ MatchCode(rows, UnitCodes) # "OK"
    <2>1. o = Failure(MatchCode(rows, UnitCodes))
      BY <1>2 DEF ResolveInBulk
    <2> QED BY <2>1, CodeTypes
  <1>3. CASE bbl \in UnitBbls /\ MatchCode(rows, UnitCodes) = "OK"
               /\ MatchCode(billings, BillingCodes) # "OK"
    <2>1. o = Failure(MatchCode(billings, BillingCodes))
      BY <1>3 DEF ResolveInBulk
    <2> QED BY <2>1, CodeTypes
  <1>4. CASE bbl \in UnitBbls /\ MatchCode(rows, UnitCodes) = "OK"
               /\ MatchCode(billings, BillingCodes) = "OK"
    <2> DEFINE found == BulkPrints(c, "base", BulkBases(c, keys), u.base)
               status == LookupPlutoBulk(c.pluto, BulkPlutoKeys(c, keys), b.billing)
    <2>1. o = Resolved(bbl, u.base, b.billing, status, found, b.billing, "condo", Absent)
      BY <1>4 DEF ResolveInBulk
    <2>2. u.base \in ParcelBbls /\ b.billing \in BillingBbls
      BY <1>4, CondoRow
    <2>3. /\ PlutoCode(status) \in Codes /\ found.code \in {"OK"} \cup Refusals
          /\ \A r \in found.candidates : r \in FootprintRows /\ Candidate(r)
      BY PlutoTypes, FoundTypes
    <2> HIDE DEF o, rows, u, billings, b, found, status
    <2>4. o \in Outcomes
      BY <2>1, <2>2, <2>3, ResolvedType
    <2> QED BY <2>4 DEF o
  <1> QED BY <1>1, <1>2, <1>3, <1>4

LEMMA AddressType ==
  ASSUME NEW c \in Cities, NEW q \in AddressQueries
  PROVE  ResolveAddress(c, q) \in Outcomes
  <1> DEFINE d == Selected(q)
  <1>1. CASE SelectionCode(q) # "OK"
    <2>1. ResolveAddress(c, q) = Failure(SelectionCode(q))
      BY <1>1 DEF ResolveAddress
    <2> QED BY <2>1, CodeTypes
  <1>2. CASE SelectionCode(q) = "OK" /\ q.designation = NoDesignation
    <2>1. ResolveAddress(c, q) = ResolveLot(c, d.bbl, d.bin)
      BY <1>2 DEF ResolveAddress
    <2>2. d.bbl \in Bbls
      BY <1>2, SelectionIsUnanimous
    <2> HIDE DEF d
    <2> QED BY <2>1, <2>2, LotType
  <1>3. CASE SelectionCode(q) = "OK" /\ q.designation # NoDesignation
    <2>1. ResolveAddress(c, q) = ResolveDesignation(c, d.bbl, q.designation, d.bin)
      BY <1>3 DEF ResolveAddress
    <2> DEFINE bases == BaseRowsOf(c.condos, d.bbl)
               base == IF d.bbl \in BillingBbls THEN TheRow(bases).base ELSE d.bbl
               units == DesignatedUnits(c.units, base, q.designation)
               o == ResolveDesignation(c, d.bbl, q.designation, d.bin)
    <2>2. \/ o = Failure(MatchCode(bases, BaseCodes))
          \/ o = Failure(MatchCode(units, UnitCodes))
          \/ o = ResolveUnit(c, TheRow(units).unit, d.bin)
      BY DEF ResolveDesignation
    <2> HIDE DEF bases, base, units, o, d
    <2>3. o \in Outcomes
      BY <2>2, CodeTypes, UnitType
    <2> QED BY <2>1, <2>3 DEF o
  <1> QED BY <1>1, <1>2, <1>3

(* Types: every outcome carries a known code, BBLs that parse, and BINs    *)
(* that are no placeholders.                                               *)
THEOREM TypeCorrect == Spec => []TypeOK
  <1>1. RequestInv => TypeOK
    <2> SUFFICES ASSUME RequestInv PROVE TypeOK
      OBVIOUS
    <2>1. CASE request = NoRequest /\ outcome = <<>>
      <3>1. DOMAIN outcome = {}
        BY <2>1
      <3> QED BY <2>1, <3>1 DEF TypeOK, RequestInv, NoRequest
    <2>2. ASSUME NEW b \in Bbls, request = [kind |-> "bbl", keys |-> {b}],
                 outcome = [i \in {b} |-> ResolveBbl(city, b, Absent)]
          PROVE  TypeOK
      <3>1. ResolveBbl(city, b, Absent) \in Outcomes
        BY LotType, UnitType DEF ResolveBbl, RequestInv
      <3> QED BY <2>2, <3>1 DEF TypeOK, RequestInv
    <2>3. ASSUME NEW keys \in SUBSET Bbls, request = [kind |-> "bulk", keys |-> keys],
                 outcome = [b \in keys |-> IF BulkFails(city, keys) THEN Failure("REQUEST_FAILED")
                                           ELSE ResolveInBulk(city, keys, b)]
          PROVE  TypeOK
      <3>1. Failure("REQUEST_FAILED") \in Outcomes /\ \A b \in keys : ResolveInBulk(city, keys, b) \in Outcomes
        BY BulkType, CodeTypes DEF RequestInv
      <3> QED BY <2>3, <3>1 DEF TypeOK, RequestInv
    <2>4. ASSUME NEW q \in AddressQueries, request = [kind |-> "address", query |-> q],
                 outcome = [i \in {NoInput} |-> ResolveAddress(city, q)]
          PROVE  TypeOK
      <3>1. ResolveAddress(city, q) \in Outcomes
        BY AddressType DEF RequestInv
      <3> QED BY <2>4, <3>1 DEF TypeOK, RequestInv
    <2>5. ASSUME NEW inputs \in SUBSET Bbls, request = [kind |-> "failed"],
                 outcome = [i \in inputs |-> Failure("CALL_FAILED")]
          PROVE  TypeOK
      <3>1. Failure("CALL_FAILED") \in Outcomes
        BY CodeTypes
      <3> QED BY <2>5, <3>1 DEF TypeOK, RequestInv
    <2> QED BY <2>1, <2>2, <2>3, <2>4, <2>5 DEF RequestInv
  <1> QED BY <1>1, RequestHolds, PTL
=============================================================================
