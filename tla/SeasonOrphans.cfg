SPECIFICATION Spec
CONSTANTS
  Regions <- Alone
  Families <- OneFamily
  MaxSeason = 2
  MaxInterruptions = 0
  ListsAhead = {}
  Unserved = {}
  RequireArchive = TRUE
  DryRun = FALSE
INVARIANTS
  NoOrphanRows
