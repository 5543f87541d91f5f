CONSTANTS
  a1 = a1
  s1 = s1
  s2 = s2
  s3 = s3
  b1 = b1
  k1 = k1
  k2 = k2
  NoRequest = NoRequest
  Singles = {s1, s2, s3}
  Bulks = {b1}
  Addresses = {a1}
  MaxBbl = 2
  Bins = {k1, k2}
  BinSets <- NoneOrOne
SYMMETRY Symmetry
CONSTRAINT ThreeRequests
SPECIFICATION Spec
INVARIANTS
  AnswerIsStored
  LaterCallsGetTheMapping
  FoundBinsAreScanned
PROPERTY ImplementsPropertyIdentity
CHECK_DEADLOCK FALSE
