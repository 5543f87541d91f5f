----------------------------- MODULE SourceClients -----------------------------
(***************************************************************************)
(* What the lookup clients of the resolver make of the open data sets:     *)
(* PLUTO (tax parcels), Building Footprints, Condominium Units and         *)
(* Condominiums.  Each can be asked for one key or, by the bulk            *)
(* registration, for many keys in chunks whose rows come in pages and are  *)
(* grouped by key again.                                                   *)
(*                                                                         *)
(* A data set is a set of rows.  A BBL is a number in the order of its     *)
(* text; a field that no parser accepts is Unparsed.  How a text becomes a *)
(* BBL or a BIN is not modelled, only whether it does.                     *)
(***************************************************************************)
EXTENDS Naturals, FiniteSets

CONSTANTS
  ParcelBbls,     \* BBLs of ordinary lots, condominium base lots included
  UnitBbls,       \* BBLs whose lot is a condominium unit (1001 to 7500)
  BillingBbls,    \* BBLs whose lot is a billing lot (7501 and up)
  Designations,   \* unit designations
  Bins,           \* building numbers
  Placeholder,    \* a BIN ending in 000000
  Unparsed,       \* a field the parsers refuse
  Absent,         \* a field the row does not have
  NoBbl,          \* no BBL
  PageSize,       \* rows of a page, for one key; per key of a chunk in bulk
  MaxPages,       \* pages a lookup reads at most
  ChunkSize,      \* keys of one bulk query
  PlutoLimit      \* PLUTO rows asked for per key

Bbls == ParcelBbls \cup UnitBbls \cup BillingBbls

ASSUME BblsAssumption ==
  /\ Bbls \subseteq Nat /\ IsFiniteSet(Bbls)
  /\ ParcelBbls \cap UnitBbls = {} /\ ParcelBbls \cap BillingBbls = {}
  /\ UnitBbls \cap BillingBbls = {}
  /\ {Unparsed, Absent, NoBbl} \cap Bbls = {}
ASSUME BinsAssumption == Placeholder \notin Bins /\ Unparsed \notin Bins \cup {Placeholder}
ASSUME LimitsAssumption ==
  /\ {PageSize, MaxPages, ChunkSize, PlutoLimit} \subseteq Nat \ {0}
  /\ MaxPages * PageSize > 1

PlutoRows     == [id : Nat, bbl : ParcelBbls \cup BillingBbls, complete : BOOLEAN]
FootprintRows == [id : Nat, bin : Bins \cup {Placeholder, Unparsed},
                  base : Bbls \cup {Unparsed}, mappluto : Bbls \cup {Unparsed, Absent}]
UnitRows      == [id : Nat, unit : UnitBbls \cup {Unparsed},
                  base : ParcelBbls \cup {Unparsed}, designation : Designations]
CondoRows     == [id : Nat, base : ParcelBbls \cup {Unparsed},
                  billing : BillingBbls \cup {Unparsed}]

(* chunkValues over the sorted keys: the keys asked for together with k. *)
Position(keys, k) == Cardinality({l \in keys : l < k})
ChunkOf(keys, k) ==
  {l \in keys : Position(keys, l) \div ChunkSize = Position(keys, k) \div ChunkSize}

(* bulkFootprintPageLimit, bulkQueryPageLimit (below the 50000 rows that   *)
(* one page may have).                                                     *)
BulkPageSize_unscaled(chunk) == PageSize
BulkPageSize(chunk) == PageSize * Cardinality(chunk)

(* A query is read page by page until a page is not full; a lookup whose   *)
(* last allowed page is still full fails instead of answering in part.     *)
TooManyRows(rows, pageSize) == Cardinality(rows) >= MaxPages * pageSize

-----------------------------------------------------------------------------
(* PlutoClient *)

(* classifyPlutoParcels, classifyRawPlutoRecords *)
ClassifyPluto(rows) ==
  LET complete == {r \in rows : r.complete}
  IN  CASE Cardinality(complete) = 1 -> "found"
        [] Cardinality(complete) > 1 -> "multiple"
        [] complete = {} /\ rows # {} -> "incomplete"
        [] rows = {} -> "not_found"

FirstRows(rows, n) ==
  {r \in rows : Cardinality({q \in rows : q.id < r.id}) < n}

(* lookupByBbl: $limit keeps the first rows. *)
LookupPluto(pluto, bbl) == ClassifyPluto(FirstRows({r \in pluto : r.bbl = bbl}, PlutoLimit))

(* lookupByBblChunk: one query for the chunk, ordered by BBL, with the     *)
(* limit multiplied and no second page.                                    *)
LookupPlutoBulk(pluto, keys, bbl) ==
  LET chunk == ChunkOf(keys, bbl)
      rows  == {r \in pluto : r.bbl \in chunk}
      before(r) == {q \in rows : q.bbl < r.bbl \/ (q.bbl = r.bbl /\ q.id < r.id)}
      kept  == {r \in rows : Cardinality(before(r)) < PlutoLimit * Cardinality(chunk)}
  IN  ClassifyPluto({r \in kept : r.bbl = bbl})

(* requirePlutoParcel *)
PlutoCode(status) ==
  CASE status = "found"      -> "OK"
    [] status = "not_found"  -> "PLUTO_NOT_FOUND"
    [] status = "incomplete" -> "PLUTO_INCOMPLETE"
    [] status = "multiple"   -> "PLUTO_MULTIPLE"

-----------------------------------------------------------------------------
(* BuildingFootprintsClient *)

(* parseBuildingFootprintCandidate drops a row without a BIN or base BBL. *)
Candidate(row) == row.bin # Unparsed /\ row.base # Unparsed

(* buildWhereClause *)
AsksFor(row, mode, keys) ==
  row.base \in keys \/ (mode = "parcel" /\ row.mappluto \in keys)

(* lookup: rows none of which parses are an error. *)
LookupFootprints(prints, mode, bbl) ==
  LET rows       == {r \in prints : AsksFor(r, mode, {bbl})}
      candidates == {r \in rows : Candidate(r)}
  IN  [code |-> IF TooManyRows(rows, PageSize) THEN "FOOTPRINT_PAGE_LIMIT"
                ELSE IF rows # {} /\ candidates = {} THEN "FOOTPRINTS_MALFORMED" ELSE "OK",
       candidates |-> candidates]

(* fetchBulkLookupCandidates: the rows of a chunk, each grouped under its  *)
(* base BBL and, for parcels, under its MAPPLUTO BBL.                      *)
GroupedUnder_base(row, mode, bbl) == row.base = bbl
GroupedUnder(row, mode, bbl) == row.base = bbl \/ (mode = "parcel" /\ row.mappluto = bbl)

FootprintChunkRows(prints, mode, keys, bbl) ==
  {r \in prints : AsksFor(r, mode, ChunkOf(keys, bbl))}

LookupFootprintsBulk(prints, mode, keys, bbl) ==
  {r \in FootprintChunkRows(prints, mode, keys, bbl) : Candidate(r) /\ GroupedUnder(r, mode, bbl)}

FootprintsBulkFails(prints, mode, keys) ==
  \E bbl \in keys : TooManyRows(FootprintChunkRows(prints, mode, keys, bbl),
                                BulkPageSize(ChunkOf(keys, bbl)))

-----------------------------------------------------------------------------
(* CondoUnitsClient and CondominiumsClient *)

(* normalizeSourceBbl throws: one row that does not parse fails the query. *)
Malformed(rows) ==
  \E r \in rows : \E field \in DOMAIN r \cap {"unit", "base", "billing"} : r[field] = Unparsed

(* classifyLookupResult *)
MatchCount(rows) ==
  CASE rows = {} -> "zero"
    [] Cardinality(rows) = 1 -> "one"
    [] Cardinality(rows) > 1 -> "multiple"

TheRow(rows) == CHOOSE r \in rows : TRUE

UnitRowsOf(units, unit)     == {r \in units : r.unit = unit}
BillingRowsOf(condos, base) == {r \in condos : r.base = base}

(* lookupByCondoBaseAndUnitDesignation, lookupByCondoBillingBbl *)
DesignatedUnits(units, base, designation) ==
  {r \in units : r.base = base /\ r.designation = designation}
BaseRowsOf(condos, billing) == {r \in condos : r.billing = billing}

(* The bulk query of a chunk, by the same key as the single one. *)
CondoBulkFails(rows, keys, keyOf(_)) ==
  \E k \in keys :
    LET asked == {r \in rows : keyOf(r) \in ChunkOf(keys, k)}
    IN  Malformed(asked) \/ TooManyRows(asked, BulkPageSize(ChunkOf(keys, k)))

UnitsBulkFails(units, keys)   == CondoBulkFails(units, keys, LAMBDA r : r.unit)
CondosBulkFails(condos, keys) == CondoBulkFails(condos, keys, LAMBDA r : r.base)
=============================================================================
