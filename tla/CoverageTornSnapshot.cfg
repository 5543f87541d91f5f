CONSTANTS
  p1 = p1
  p2 = p2
  b1 = b1
  b2 = b2
  v1 = v1
  v2 = v2
  NoBin = NoBin
  Properties = {p1}
  Bins = {b1, b2}
  Violations = {v1}
  MaxRuns = 1
  MaxVersion = 3
  MaxSource = 2
SYMMETRY Symmetry
SPECIFICATION Spec
INVARIANT CheckedMeansScanned
