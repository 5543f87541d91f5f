CONSTANTS
  w1 = w1
  w2 = w2
  r1 = r1
  r2 = r2
  NoWorker = NoWorker
  NoRun = NoRun
  Workers <- TwoWorkers
  Runs = {r1, r2}
  MaxBatches = 2
  MaxAttempts = 3
  MaxPages = 2
  PageSize = 1
  MaxRows = 1
  MaxWatermark = 2
  RowCount <- TwoBatches
  FaultKinds = {"crash", "loss", "http", "httpTerminal", "db"}
  MaxFaults = 1
  MaxLosses = 1
SYMMETRY RunSymmetry
SPECIFICATION Spec
INVARIANTS
  OneActiveRun
  RejectionHasCause
PROPERTIES
  ImplementsRunLifecycle
  AcceptedRunFrozen
