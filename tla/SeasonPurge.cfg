SPECIFICATION FairSpec
CONSTANTS
  Regions <- Both
  Families <- OneFamily
  MaxSeason = 2
  MaxInterruptions = 1
  ListsAhead <- Alone
  Unserved <- GoneInUs
  RequireArchive = TRUE
  DryRun = FALSE

  
PROPERTIES
  LiveBoardKept
  NothingRetiredUnsettled
  
