--------------------------- MODULE MCParcelResolution ---------------------------
(* Instances of ParcelResolution for TLC. *)
EXTENDS ParcelResolution

CONSTANTS k1, k2

(* Two lots, the second the base of a condominium with unit 3, billed as 4. *)
Pluto(id, bbl, complete) == [id |-> id, bbl |-> bbl, complete |-> complete]
PlutoContents ==
  {{Pluto(1, 1, TRUE), Pluto(2, 2, TRUE), Pluto(3, 4, TRUE)},
   {Pluto(1, 1, TRUE), Pluto(2, 1, TRUE), Pluto(3, 2, TRUE), Pluto(4, 4, TRUE)},
   {Pluto(1, 1, FALSE), Pluto(2, 2, FALSE), Pluto(3, 2, TRUE), Pluto(4, 4, TRUE), Pluto(5, 4, TRUE)},
   {Pluto(1, 2, TRUE)}}

Footprint(id, bin, base, mappluto) == [id |-> id, bin |-> bin, base |-> base, mappluto |-> mappluto]
PrintPool ==
  {Footprint(1, k1, 1, 1), Footprint(2, k2, 2, 4), Footprint(3, k1, 1, 2), Footprint(4, k2, 2, Absent),
   Footprint(5, Placeholder, 1, Unparsed), Footprint(6, k1, 2, Unparsed), Footprint(7, Unparsed, 1, 1)}
PrintContents == {s \in SUBSET PrintPool : Cardinality(s) <= 6}

Unit(id, unit, base, designation) ==
  [id |-> id, unit |-> unit, base |-> base, designation |-> designation]
UnitContents ==
  {{Unit(1, 3, 2, "PH")}, {Unit(1, 3, 2, "PH"), Unit(2, 3, 1, "PH")},
   {Unit(1, 3, Unparsed, "PH")}, {Unit(1, 3, 2, "PH"), Unit(2, Unparsed, 2, "12C")}}

Condo(id, base, billing) == [id |-> id, base |-> base, billing |-> billing]
CondoContents ==
  {{}, {Condo(1, 2, 4)}, {Condo(1, 2, 4), Condo(2, 1, 4)}, {Condo(1, 2, 4), Condo(2, 2, 4)},
   {Condo(1, 2, Unparsed)}}

MCCities ==
  [pluto : PlutoContents, prints : PrintContents, units : UnitContents, condos : CondoContents]

Found(rank, bbl, bin, borough, street, layer) ==
  [rank |-> rank, bbl |-> bbl, bin |-> bin, borough |-> borough, street |-> street,
   addressLayer |-> layer]
CandidateSets ==
  {{}, {Found(1, NoBbl, Absent, TRUE, TRUE, TRUE)},
   {Found(1, 1, k1, TRUE, TRUE, TRUE), Found(2, 2, k2, FALSE, TRUE, TRUE)},
   {Found(1, 1, k2, TRUE, FALSE, TRUE), Found(2, 2, Absent, TRUE, TRUE, FALSE)},
   {Found(1, 4, Placeholder, TRUE, TRUE, TRUE), Found(2, Unparsed, k1, TRUE, TRUE, FALSE)},
   {Found(1, Unparsed, k1, TRUE, FALSE, FALSE)},
   {Found(1, 2, k1, FALSE, TRUE, TRUE)}}
MCAddressQueries ==
  [candidates : CandidateSets, boroughGiven : BOOLEAN,
   designation : {"PH", "12C", NoDesignation}]
=============================================================================
