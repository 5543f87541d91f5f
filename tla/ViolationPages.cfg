CONSTANTS
  p1 = p1
  p2 = p2
  b1 = b1
  b2 = b2
  NoProperty = NoProperty
  Properties = {p1, p2}
  Bins = {b1, b2}
  Sources = {1, 2, 3}
  Contents <- MCContents
  Listings <- MCListings
  InitialBins <- MCInitialBins
  InitialSource <- MCInitialSource
  Limits = {1}
  MaxRuns = 2
  MaxClock = 2
  MaxMoves = 1
  MaxListings = 2
  MaxPages = 5
SPECIFICATION FairSpec
INVARIANTS
  PagesAreOrdered
  SettledRowsOnce
  AnswerIsOneMoment
  FeedMissesNoUpdate
PROPERTY ListingEnds
CHECK_DEADLOCK FALSE
