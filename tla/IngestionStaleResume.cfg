CONSTANTS
  w1 = w1
  w2 = w2
  r1 = r1
  r2 = r2
  NoWorker = NoWorker
  NoRun = NoRun
  Workers <- TwoWorkers
  Runs = {r1}
  MaxBatches = 1
  MaxAttempts = 3
  MaxPages = 3
  PageSize = 1
  MaxRows = 2
  MaxWatermark = 2
  RowCount <- OneBatchGrowing
  FaultKinds = {"crash", "loss"}
  MaxFaults = 2
  MaxLosses = 1
SYMMETRY Symmetry
SPECIFICATION Spec
INVARIANT AcceptedIsSourceSnapshot
