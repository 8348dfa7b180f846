SPECIFICATION FairSpec
CONSTANTS
  Waiters <- Yielding
  WaitsOut <- MCWaitsOut
  MaxDepth = 2
  Enabled <- NoMplusPass
  Impatient <- NoOne
  Faulty = {}
  MayRunOut = {}
  Hourly = TRUE
PROPERTIES
  MplusArchiveGetsItsTurn
