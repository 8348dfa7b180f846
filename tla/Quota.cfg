SPECIFICATION Spec
CONSTANTS
  Keys = {"sweep", "enrichment", "archive", "other"}
  WindowBuckets = 1
  MaxClock = 5
  Usable = 5
  SweepReserve = 1
  EnrichmentShare = 3
  ArchiveConcurrency = 2
  RunPace = 3
  BatchSize = 2
  MaxDue = 4
  MaxUnforeseen = 1
  MaxRequests = 3
CHECK_DEADLOCK FALSE
INVARIANTS
  WindowIsExact
  SharesHeld
PROPERTY KeepsShares
