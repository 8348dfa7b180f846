SPECIFICATION TimerSpec
CONSTANTS
  Waiters <- Yielding
  WaitsOut <- MCWaitsOut
  MaxDepth = 2
  Enabled <- AllJobs
  Impatient <- AllJobs
  Faulty <- AllJobs
  MayRunOut <- AllJobs
  Hourly = FALSE
INVARIANTS
  NoLostWakeup
  SignalsOnce
  DepthMatchesWork
  FirstTickNotMissed
PROPERTIES
  CoordSpec
  NobodyWaitsForEver
