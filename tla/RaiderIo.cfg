SPECIFICATION MCSpec
CONSTANTS
  Runs = {"r1", "r2", "r3"}
  Dungeons = {"d1", "d2"}
  RosterOf <- MCRosterOf
  DungeonOf <- MCDungeonOf
  ScoreOf <- MCScoreOf
  Pushed <- MCPushed
  MaxScore = 2
  Keys = {"mplus", "mplusArchive", "other"}
  WindowBuckets = 1
  MaxClock = 2
  MinuteUsable = 3
  ArchiveShare = 2
  PageBatch = 2
  MaxUnasked = 1
  MaxCharged = 3
  Watchers = {"check", "pass"}
  LastSeason = 2
  Raids = {"one", "two", "three"}
  ExpansionOf <- MCExpansionOf
  MaxWalked = 4
  LastDay = 3
  Boards = {"b1", "b2"}
  NoBoard = "none"
  WorkersOf <- MCWorkersOf
  MaxFailures = 2
  RefusedRetry = 1
  LastMoment = 2
INVARIANTS
  BoardAgrees
  MinuteHeld
  MinuteSurvives
  OpeningIsHeard
  SettledIsFinal
PROPERTIES
  RunsKept
  ScoreNeverFalls
  OnlyGoneUnlisted
  EndedRunBeginsNothing
