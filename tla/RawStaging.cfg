CONSTANTS
  w1 = w1
  w2 = w2
  s1 = s1
  s2 = s2
  NoWorker = NoWorker
  Workers = {w1, w2}
  Sources = {s1, s2}
  Contents <- MCContents
  MaxRuns = 2
  MaxClock = 2
SYMMETRY Symmetry
SPECIFICATION Spec
INVARIANTS
  StagedIsDerivable
  RefusedRowsKeepEvidence
  UnchangedSourceIsStagedAsIs
PROPERTY EvidenceIsImmutable
