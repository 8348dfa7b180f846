SPECIFICATION SeasonSpec
CONSTANTS
  Readers <- Alone
  MaxSeason = 2
  MayFail = FALSE
  MayStop = FALSE
INVARIANTS
  RewardsOfTheSeason
