SPECIFICATION MCSpec
CONSTANTS
  Brackets = {"b1", "b2"}
  Catalogues <- MCCatalogues
  Core = {"3v3"}
  Specs = {"s1"}
  Players = {"p", "q"}
  MaxBatch = 1
  SummaryTtl = 4
  SpecsTtl = 3
  Backoff = 2
  UsualGap = 1
  LongestGap = 3
  MaxAge = 5
  MaxNew = 1
  Readers = {"scheduler", "sweep"}
  MaxSeason = 2
  MayFail = TRUE
  MayStop = TRUE
INVARIANTS
  ChangeIsHeard
  CleanSweepAgrees
  VouchedIsTrue
  NobodyHoldsTheQueue
PROPERTIES
  OnlyUnrankedDeleted
