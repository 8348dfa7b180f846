SPECIFICATION FairSpec
CONSTANTS
  Regions <- MCRegions
  Brackets = {"3v3", "rbg"}
  LastSeason <- MCLastSeason
  Playing <- MCPlaying
  Published <- MCPublished
  Empty = {"rbg"}
  Served <- MCServed
  Legacy <- MCLegacy
  ListsAhead = FALSE
  MaxDrops = 1
INVARIANTS
  FetchRecordIsTrue
  CompleteMeansCovered
PROPERTIES
  NoLadderTwice
  OnlyFinishedSeasons
  BacklogIsWorkedOff
