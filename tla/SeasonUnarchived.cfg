SPECIFICATION Spec
CONSTANTS
  Regions <- Alone
  Families <- OneFamily
  MaxSeason = 2
  MaxInterruptions = 0
  ListsAhead = {}
  Unserved <- GoneInUs
  RequireArchive = TRUE
  DryRun = FALSE
PROPERTIES
  NothingRetiredUnarchived
