CONSTANTS
  k1 = k1
  k2 = k2
  Placeholder = Placeholder
  Unparsed = Unparsed
  Absent = Absent
  NoBbl = NoBbl
  NoDesignation = NoDesignation
  NoInput = NoInput
  ParcelBbls = {1, 2}
  UnitBbls = {3}
  BillingBbls = {4}
  Designations = {"PH", "12C"}
  Bins = {k1, k2}
  PageSize = 1
  MaxPages = 3
  ChunkSize = 2
  PlutoLimit = 2
  Cities <- MCCities
  AddressQueries <- MCAddressQueries
SPECIFICATION Spec
INVARIANTS
  ResolvedFromAllEvidence
  RoutesAgree
  RefusedForAnInput
  AddressIsUnambiguous
