SPECIFICATION FairSpec
CONSTANTS
  Order <- MCOrder
  MaxSeason = 2
  LastPhase = 2
  LastPassed = 1
  Boards <- MCBoards
  RequireArchive = TRUE
CHECK_DEADLOCK FALSE
INVARIANTS
  MarkerIsTrue
  OnlyNamedCharacters
  RetiredForGood
PROPERTIES
  ReadOnceWhenOver
  RetiredIsArchived
  SupersededGo
