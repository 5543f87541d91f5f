CONSTANTS
  c1 = c1
  c2 = c2
  Callers = {c1, c2}
  Cancellable = {c1}
  Concurrency = 2
  MaxRetries = 2
SPECIFICATION FairSpec
INVARIANTS
  LiveRequestsBounded
  MetricsAreExact
  ReturnedValueIsCurrent
PROPERTIES
  StartsOnlyForWaitingCaller
  EveryCallSettles
CHECK_DEADLOCK FALSE
