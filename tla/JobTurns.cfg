SPECIFICATION FairSpec
CONSTANTS
  Waiters <- Yielding
  WaitsOut <- MCWaitsOut
  MaxDepth = 2
  Enabled <- NoMplus
  Impatient <- NoOne
  Faulty = {}
  MayRunOut = {}
  Hourly = TRUE
PROPERTIES
  WarmUpReached
  WaitersGetTheirTurn
