----------------------- MODULE SeasonObservationProofs -----------------------
(* No PvP season opens unheard, and rewards outlive their season in one      *)
(* order of steps alone, for every set of callers and every number of        *)
(* seasons.                                                                  *)
EXTENDS SeasonObservation, TLAPS

Comparing(p) == reader[p].at \in {"season", "record"} \/ Saving(p)

(* What Announce goes by: another season than was compared with, or the      *)
(* first one ever stored.                                                    *)
IsNews(p) ==
  /\ reader[p].previous.season # reader[p].seen.season
  /\ reader[p].previous # Unknown \/ reader[p].first

(* A season is heard of, or its refresh was cut off, or has yet to announce. *)
WillBeHeard(s) ==
  \/ s \in heard
  \/ \E o \in cut : o.season = s
  \/ \E p \in Readers : Saving(p) /\ IsNews(p) /\ reader[p].seen.season = s

(* Only a running process refreshes; once it has booted its memory is empty  *)
(* only when nothing was ever stored, as memory is set before the document;  *)
(* and a refresh that compared with an empty memory found nothing stored.    *)
MemoryHolds ==
  /\ up /\ memory = Unknown => stored = Unknown
  /\ \A p \in Readers : reader[p].at # "idle" => up /\ reader[p].seen.season # None
  /\ \A p \in Readers : Saving(p) => memory # Unknown
  /\ \A p \in Readers : Comparing(p) /\ reader[p].previous = Unknown => reader[p].first

(* No record names no season but the one of nothing known.                   *)
NoneIsUnknown ==
  /\ memory.season = None => memory = Unknown
  /\ stored.season = None => stored = Unknown
  /\ \A p \in Readers : reader[p].previous.season = None => reader[p].previous = Unknown

(* A season in memory, in the document, on its way there, or compared with.  *)
Known(s) ==
  \/ memory.season = s \/ stored.season = s
  \/ \E p \in Readers : Saving(p) /\ reader[p].seen.season = s
  \/ \E p \in Readers : Comparing(p) /\ reader[p].previous.season = s

SeasonsHeard == \A s \in Seasons : Known(s) => WillBeHeard(s)

HeardInv == SeasonTypeOK /\ MemoryHolds /\ NoneIsUnknown /\ SeasonsHeard

Refresh == [at : Places, seen : Observation, previous : Observation, first : BOOLEAN]

LEMMA RestType == /\ Unknown \in Observation /\ AtRest \in Refresh
                  /\ AtRest.at = "idle" /\ AtRest.previous = Unknown
  BY DEF Unknown, AtRest, Refresh, Observation, Places

LEMMA Starts == SeasonInit => HeardInv
<1> SUFFICES ASSUME SeasonInit PROVE HeardInv
  OBVIOUS
<1>1. [season |-> 1, ended |-> FALSE] \in Observation /\ 1 # None
  BY SeasonAssumption DEF Observation, Seasons, None
<1>2. SeasonTypeOK
  BY <1>1, RestType DEF SeasonInit, SeasonTypeOK, Refresh
<1>3. MemoryHolds /\ NoneIsUnknown /\ SeasonsHeard
  BY RestType DEF SeasonInit, MemoryHolds, NoneIsUnknown, SeasonsHeard, Known, Comparing, Saving, Unknown,
    None, Seasons
<1> QED BY <1>2, <1>3 DEF HeardInv

(* A step of one refresh.                                                    *)
ReaderStep(p) == AskIndex(p) \/ Advance(p) \/ ReadFails(p) \/ SaveFails(p)

(* Where a step takes the refresh: one that goes on keeps what it has seen   *)
(* and compared with.                                                        *)
StepEffect(p) ==
  /\ \A q \in Readers \ {p} : reader'[q] = reader[q]
  /\ reader'[p] \in Refresh
  /\ \/ reader'[p] = AtRest
     \/ /\ AskIndex(p) /\ reader'[p].at = "index" /\ reader'[p].previous = Unknown
        /\ reader'[p].seen = [season |-> upstream.season, ended |-> FALSE]
     \/ /\ IndexArrives(p) /\ reader'[p].at = "season" /\ reader'[p].seen = reader[p].seen
        /\ reader'[p].previous = memory /\ reader'[p].first = (stored = Unknown)
     \/ /\ reader'[p].previous = reader[p].previous /\ reader'[p].first = reader[p].first
        /\ reader'[p].seen.season = reader[p].seen.season
        /\ \/ ReadSeason(p) /\ reader'[p].at = "record"
           \/ RecordArrives(p) /\ reader'[p].at = "clearing"
           \/ ClearRewards(p) /\ reader'[p].at = "writing"
           \/ WriteState(p) /\ reader'[p].at = "written"

LEMMA ReaderEffect ==
  ASSUME SeasonTypeOK, NEW p \in Readers, ReaderStep(p)
  PROVE  StepEffect(p)
<1>1. reader \in [Readers -> Refresh] /\ reader[p] \in Refresh /\ reader[p].seen \in Observation
      /\ memory \in Observation /\ upstream \in Observation /\ upstream.season # None
  BY DEF SeasonTypeOK, Refresh
<1>2. CASE AskIndex(p)
  <2>1. [at |-> "index", seen |-> [season |-> upstream.season, ended |-> FALSE],
         previous |-> Unknown, first |-> FALSE] \in Refresh
    BY <1>1, RestType DEF Refresh, Observation, Places
  <2> QED BY <1>1, <1>2, <2>1 DEF AskIndex, StepEffect
<1>3. CASE IndexArrives(p)
  <2>1. [reader[p] EXCEPT !.at = "season", !.previous = memory, !.first = (stored = Unknown)] \in Refresh
    BY <1>1 DEF Refresh, Places
  <2>2. \/ reader' = [reader EXCEPT ![p] = AtRest]
        \/ reader' = [reader EXCEPT ![p] = [reader[p] EXCEPT !.at = "season", !.previous = memory,
                                                           !.first = (stored = Unknown)]]
    BY <1>3 DEF IndexArrives
  <2>3. CASE reader' = [reader EXCEPT ![p] = AtRest]
    BY <1>1, <2>3, RestType DEF StepEffect
  <2>4. CASE reader' = [reader EXCEPT ![p] = [reader[p] EXCEPT !.at = "season", !.previous = memory,
                                                             !.first = (stored = Unknown)]]
    <3>1. reader'[p] = [reader[p] EXCEPT !.at = "season", !.previous = memory, !.first = (stored = Unknown)]
      BY <1>1, <2>4
    <3>2. \A q \in Readers \ {p} : reader'[q] = reader[q]
      BY <1>1, <2>4
    <3>3. /\ reader'[p].at = "season" /\ reader'[p].seen = reader[p].seen
          /\ reader'[p].previous = memory /\ reader'[p].first = (stored = Unknown)
      BY <1>1, <3>1 DEF Refresh
    <3> QED BY <1>3, <2>1, <3>1, <3>2, <3>3 DEF StepEffect
  <2> QED BY <2>2, <2>3, <2>4
<1>4. CASE ReadSeason(p)
  <2> DEFINE next == [reader[p] EXCEPT !.at = "record", !.seen.ended = Ended(reader[p].seen.season)]
  <2>1. next.at = "record" /\ next.previous = reader[p].previous /\ next.first = reader[p].first
        /\ next.seen.season = reader[p].seen.season /\ next \in Refresh
    BY <1>1 DEF Refresh, Places, Ended, Observation
  <2>2. reader' = [reader EXCEPT ![p] = next]
    BY <1>4 DEF ReadSeason
  <2> HIDE DEF next
  <2> QED BY <1>1, <1>4, <2>1, <2>2 DEF StepEffect
<1>5. ASSUME NEW place \in {"clearing", "writing", "written"}, reader' = [reader EXCEPT ![p].at = place]
      PROVE  /\ \A q \in Readers \ {p} : reader'[q] = reader[q]
             /\ reader'[p] \in Refresh /\ reader'[p].at = place
             /\ reader'[p].previous = reader[p].previous /\ reader'[p].first = reader[p].first
             /\ reader'[p].seen = reader[p].seen
  <2>1. reader' = [reader EXCEPT ![p] = [reader[p] EXCEPT !.at = place]]
    BY <1>5
  <2>2. reader'[p] = [reader[p] EXCEPT !.at = place]
    BY <1>1, <2>1
  <2>3. [reader[p] EXCEPT !.at = place] \in Refresh /\ \A q \in Readers \ {p} : reader'[q] = reader[q]
    BY <1>1, <2>1 DEF Refresh, Places
  <2> QED BY <1>1, <2>2, <2>3 DEF Refresh
<1>6. CASE RecordArrives(p) \/ ClearRewards(p) \/ WriteState(p)
  BY <1>1, <1>5, <1>6 DEF RecordArrives, ClearRewards, WriteState, StepEffect
<1>7. CASE Announce(p) \/ ReadFails(p) \/ SaveFails(p)
  BY <1>1, <1>7, RestType DEF Announce, ReadFails, SaveFails, StepEffect
<1> QED BY <1>2, <1>3, <1>4, <1>6, <1>7 DEF ReaderStep, Advance

(* Every step is one of the dates, of a refresh, of the rewards, a stop, a   *)
(* boot or none.                                                             *)
LEMMA Steps ==
  ASSUME [SeasonNext]_seasonVars
  PROVE  \/ UNCHANGED <<up, memory, stored, reader, heard, cut>>
         \/ \E p \in Readers : ReaderStep(p)
         \/ Stop \/ Boot
  BY Zenon DEF SeasonNext, seasonVars, SeasonEnds, SeasonBegins, AskRewards, RecordRewards, RewardsFail, ReaderStep

(* Every action keeps the types.                                             *)
LEMMA TypeStep == HeardInv /\ [SeasonNext]_seasonVars => SeasonTypeOK'
<1> SUFFICES ASSUME HeardInv, [SeasonNext]_seasonVars PROVE SeasonTypeOK'
  OBVIOUS
<1>0. /\ SeasonTypeOK /\ reader \in [Readers -> Refresh]
      /\ \A p \in Readers : reader[p].at # "idle" => reader[p].seen.season \in Seasons
  BY DEF HeardInv, SeasonTypeOK, MemoryHolds, Refresh, Observation
<1>1. upstream' \in Observation /\ upstream'.season # None
  <2>1. upstream \in Observation /\ upstream.season \in Seasons /\ MaxSeason \in Nat
    BY <1>0, SeasonAssumption DEF SeasonTypeOK, Observation
  <2>2. CASE SeasonEnds
    <3>1. upstream' = [upstream EXCEPT !.ended = TRUE]
      BY <2>2 DEF SeasonEnds
    <3>2. [upstream EXCEPT !.ended = TRUE] \in Observation /\ [upstream EXCEPT !.ended = TRUE].season = upstream.season
      BY <2>1 DEF Observation
    <3> QED BY <1>0, <3>1, <3>2 DEF SeasonTypeOK
  <2>3. CASE SeasonBegins
    BY <2>1, <2>3 DEF SeasonBegins, Observation, Seasons, None
  <2>4. UNCHANGED upstream \/ SeasonEnds \/ SeasonBegins
    BY Zenon DEF SeasonNext, seasonVars, Advance, AskIndex, IndexArrives, ReadSeason, ReadFails, RecordArrives,
      ClearRewards,
      WriteState, SaveFails, Announce, AskRewards, RecordRewards, RewardsFail, Stop, Boot
  <2> QED BY <1>0, <2>2, <2>3, <2>4 DEF SeasonTypeOK
<1>2. rewards' \in Seasons \cup {None} /\ rewarder' \in Seasons \cup {None}
  BY <1>0 DEF SeasonTypeOK, Observation, SeasonNext, seasonVars, Advance, SeasonEnds, SeasonBegins, AskIndex,
    IndexArrives, ReadSeason,
    ReadFails, RecordArrives, ClearRewards, WriteState, SaveFails, Announce, AskRewards, RecordRewards,
    RewardsFail,
    Stop, Boot
<1>3. CASE UNCHANGED <<up, memory, stored, reader, heard, cut>>
  BY <1>0, <1>1, <1>2, <1>3 DEF SeasonTypeOK
<1>4. ASSUME NEW p \in Readers, ReaderStep(p) PROVE SeasonTypeOK'
  <2>1. StepEffect(p)
    BY <1>0, <1>4, ReaderEffect
  <2>2. reader[p] \in Refresh /\ reader[p].seen \in Observation
    BY <1>0 DEF Refresh
  <2>3. reader' \in [Readers -> Refresh]
    <3>1. \A q \in Readers : reader'[q] \in Refresh
      BY <1>0, <2>1 DEF StepEffect
    <3>2. reader' = [q \in Readers |-> reader'[q]]
      BY <1>0, <1>4 DEF ReaderStep, Advance, AskIndex, IndexArrives, ReadSeason, ReadFails, RecordArrives,
        ClearRewards, WriteState, SaveFails, Announce
    <3> QED BY <3>1, <3>2
  <2>4. up' = up /\ memory' \in {memory, reader[p].seen} /\ stored' \in {stored, reader[p].seen}
        /\ cut' \subseteq cut \cup {reader[p].seen}
    BY <1>4 DEF ReaderStep, Advance, AskIndex, IndexArrives, ReadSeason, ReadFails, RecordArrives,
      ClearRewards,
      WriteState, SaveFails, Announce
  <2>5. heard' \subseteq Seasons
    BY <1>0, <1>4 DEF SeasonTypeOK, ReaderStep, Advance, AskIndex, IndexArrives, ReadSeason, ReadFails,
      RecordArrives,
      ClearRewards, WriteState, SaveFails, Announce, At
  <2> QED BY <1>0, <1>1, <1>2, <2>2, <2>3, <2>4, <2>5 DEF SeasonTypeOK, Refresh
<1>5. CASE Stop
  BY <1>0, <1>1, <1>2, <1>5, RestType DEF SeasonTypeOK, Stop, Refresh
<1>6. CASE Boot
  BY <1>0, <1>1, <1>2, <1>6 DEF SeasonTypeOK, Boot
<1> QED BY <1>3, <1>4, <1>5, <1>6, Steps

(* Every action keeps memory ahead of the document.                          *)
LEMMA MemoryStep == HeardInv /\ [SeasonNext]_seasonVars => MemoryHolds' /\ NoneIsUnknown'
<1> SUFFICES ASSUME HeardInv, [SeasonNext]_seasonVars PROVE MemoryHolds' /\ NoneIsUnknown'
  OBVIOUS
<1>0. SeasonTypeOK /\ MemoryHolds /\ NoneIsUnknown
  BY DEF HeardInv
<1>1. CASE UNCHANGED <<up, memory, stored, reader, heard, cut>>
  BY <1>0, <1>1 DEF MemoryHolds, NoneIsUnknown, Comparing, Saving
<1>2. ASSUME NEW p \in Readers, ReaderStep(p) PROVE MemoryHolds' /\ NoneIsUnknown'
  <2>1. StepEffect(p)
    BY <1>0, <1>2, ReaderEffect
  <2>2. up /\ up' = up
    BY <1>0, <1>2 DEF MemoryHolds, ReaderStep, Advance, AskIndex, IndexArrives, ReadSeason, ReadFails,
      RecordArrives,
      ClearRewards, WriteState, SaveFails, Announce, At
  <2>3. /\ memory' = memory \/ (RecordArrives(p) /\ memory' = reader[p].seen)
        /\ stored' = stored \/ (WriteState(p) /\ stored' = reader[p].seen)
    BY <1>2 DEF ReaderStep, Advance, AskIndex, IndexArrives, ReadSeason, ReadFails, RecordArrives,
      ClearRewards, WriteState, SaveFails, Announce
  <2>4. RecordArrives(p) \/ WriteState(p) => reader[p].seen.season # None /\ reader[p].seen # Unknown
    BY <1>0 DEF RecordArrives, WriteState, At, MemoryHolds, Unknown
  <2>5. memory # Unknown => memory' # Unknown
    BY <2>3, <2>4
  <2>6. memory' = Unknown => memory = Unknown /\ stored' = Unknown
    BY <1>0, <2>2, <2>3, <2>4 DEF MemoryHolds, WriteState, At, Saving
  <2>7. \A q \in Readers : reader'[q].at # "idle" => reader'[q].seen.season # None
    BY <1>0, <2>1, RestType DEF StepEffect, MemoryHolds, SeasonTypeOK, IndexArrives, ReadSeason,
      RecordArrives, ClearRewards,
      WriteState, At
  <2>8. \A q \in Readers : Saving(q)' => memory' # Unknown
    <3>1. \A q \in Readers \ {p} : Saving(q)' => memory' # Unknown
      BY <1>0, <2>1, <2>5 DEF StepEffect, MemoryHolds, Saving
    <3>2. RecordArrives(p) => memory' # Unknown
      BY <2>4 DEF RecordArrives
    <3>3. ClearRewards(p) \/ WriteState(p) => memory' # Unknown
      BY <1>0, <2>5 DEF MemoryHolds, Saving, ClearRewards, WriteState, At
    <3>4. Saving(p)' => RecordArrives(p) \/ ClearRewards(p) \/ WriteState(p)
      BY <2>1, RestType DEF StepEffect, Saving
    <3> QED BY <3>1, <3>2, <3>3, <3>4
  <2>9. \A q \in Readers : Comparing(q)' /\ reader'[q].previous = Unknown => reader'[q].first
    <3>1. \A q \in Readers \ {p} : Comparing(q)' /\ reader'[q].previous = Unknown => reader'[q].first
      BY <1>0, <2>1 DEF StepEffect, MemoryHolds, Comparing, Saving
    <3>2. CASE reader'[p].previous = memory /\ reader'[p].first = (stored = Unknown)
      BY <1>0, <2>2, <3>1, <3>2 DEF MemoryHolds
    <3>3. CASE Comparing(p) /\ reader'[p].previous = reader[p].previous /\ reader'[p].first = reader[p].first
      BY <1>0, <3>1, <3>3 DEF MemoryHolds
    <3>4. CASE reader'[p].at \in {"idle", "index"}
      BY <3>1, <3>4 DEF Comparing, Saving
    <3>5. ReadSeason(p) \/ RecordArrives(p) \/ ClearRewards(p) \/ WriteState(p) => Comparing(p)
      BY DEF ReadSeason, RecordArrives, ClearRewards, WriteState, At, Comparing, Saving
    <3> QED BY <2>1, <3>2, <3>3, <3>4, <3>5, RestType DEF StepEffect
  <2>10. NoneIsUnknown'
    BY <1>0, <2>1, <2>3, <2>4, RestType DEF StepEffect, NoneIsUnknown, Unknown
  <2> QED BY <2>2, <2>6, <2>7, <2>8, <2>9, <2>10 DEF MemoryHolds
<1>3. CASE Stop
  BY <1>0, <1>3, RestType DEF Stop, MemoryHolds, NoneIsUnknown, Comparing, Saving
<1>4. CASE Boot
  <2>1. \A q \in Readers : reader[q].at = "idle"
    BY <1>0, <1>4 DEF Boot, MemoryHolds
  <2> QED BY <1>0, <1>4, <2>1 DEF Boot, MemoryHolds, NoneIsUnknown, Comparing, Saving
<1> QED BY <1>1, <1>2, <1>3, <1>4, Steps

(* What will be heard stays so: an announcement, a save that fails and a     *)
(* process that stops each leave their trace.                                *)
LEMMA HeardStays ==
  ASSUME HeardInv, [SeasonNext]_seasonVars, NEW s \in Seasons, WillBeHeard(s)
  PROVE  WillBeHeard(s)'
<1>0. SeasonTypeOK
  BY DEF HeardInv
<1>1. heard \subseteq heard' /\ cut \subseteq cut'
  BY DEF SeasonNext, seasonVars, Advance, SeasonEnds, SeasonBegins, AskIndex, IndexArrives, ReadSeason,
    ReadFails, RecordArrives, ClearRewards, WriteState, SaveFails, Announce, AskRewards, RecordRewards,
    RewardsFail,
    Stop, Boot
<1>2. CASE s \in heard \/ \E o \in cut : o.season = s
  BY <1>1, <1>2 DEF WillBeHeard
<1>3. ASSUME NEW p \in Readers, Saving(p), IsNews(p), reader[p].seen.season = s
      PROVE  WillBeHeard(s)'
  <2>1. CASE reader'[p] = reader[p]
    BY <1>3, <2>1 DEF WillBeHeard, Saving, IsNews
  <2>2. CASE Stop
    BY <1>3, <2>2 DEF Stop, WillBeHeard
  <2>3. CASE ReaderStep(p)
    <3>1. StepEffect(p)
      BY <1>0, <2>3, ReaderEffect
    <3>2. CASE SaveFails(p)
      BY <1>3, <3>2 DEF SaveFails, WillBeHeard
    <3>3. CASE Announce(p)
      BY <1>3, <3>3 DEF Announce, IsNews, WillBeHeard
    <3>4. CASE ClearRewards(p) \/ WriteState(p)
      <4>1. reader'[p].at \in {"writing", "written"}
        BY <1>0, <3>4 DEF ClearRewards, WriteState, SeasonTypeOK
      <4>2. reader'[p].previous = reader[p].previous /\ reader'[p].first = reader[p].first
            /\ reader'[p].seen.season = reader[p].seen.season
        BY <3>1, <3>4, <4>1, RestType DEF StepEffect, AskIndex, IndexArrives, ClearRewards, WriteState, At
      <4> QED BY <1>3, <4>1, <4>2 DEF Saving, IsNews, WillBeHeard
    <3> QED BY <1>3, <2>3, <3>2, <3>3, <3>4
        DEF ReaderStep, Advance, Saving, AskIndex, IndexArrives, ReadSeason, ReadFails, RecordArrives, At
  <2>4. CASE \E q \in Readers \ {p} : ReaderStep(q)
    BY <1>0, <2>1, <2>4, ReaderEffect DEF StepEffect
  <2>5. CASE Boot
    BY <2>1, <2>5 DEF Boot
  <2> QED BY <2>1, <2>2, <2>3, <2>4, <2>5, Steps
<1> QED BY <1>2, <1>3 DEF WillBeHeard

(* Every action keeps what is in memory, stored, saved or compared with      *)
(* heard of.                                                                 *)
LEMMA SeasonsStep == HeardInv /\ [SeasonNext]_seasonVars => SeasonsHeard'
<1> SUFFICES ASSUME HeardInv, [SeasonNext]_seasonVars PROVE SeasonsHeard'
  OBVIOUS
<1>0. SeasonTypeOK /\ MemoryHolds /\ SeasonsHeard
  BY DEF HeardInv
<1>1. \A s \in Seasons : Known(s) => WillBeHeard(s)'
  BY <1>0, HeardStays DEF SeasonsHeard
<1>2. ASSUME NEW p \in Readers, RecordArrives(p), NEW s \in Seasons, reader[p].seen.season = s
      PROVE  WillBeHeard(s)'
  <2>1. CASE reader[p].previous.season = s
    BY <1>1, <1>2, <2>1 DEF RecordArrives, At, Comparing, Known
  <2>2. CASE reader[p].previous.season # s
    <3>1. reader[p].previous # Unknown \/ reader[p].first
      BY <1>0, <1>2 DEF MemoryHolds, Comparing, RecordArrives, At
    <3>2. reader'[p] = [reader[p] EXCEPT !.at = "clearing"]
      BY <1>0, <1>2 DEF RecordArrives, SeasonTypeOK
    <3>3. /\ reader'[p].at = "clearing" /\ reader'[p].seen = reader[p].seen
          /\ reader'[p].previous = reader[p].previous /\ reader'[p].first = reader[p].first
      BY <1>0, <3>2 DEF SeasonTypeOK
    <3> QED BY <1>2, <2>2, <3>1, <3>3 DEF WillBeHeard, Saving, IsNews
  <2> QED BY <2>1, <2>2
<1>3. ASSUME NEW s \in Seasons, Known(s)' PROVE WillBeHeard(s)'
  <2>1. CASE UNCHANGED <<up, memory, stored, reader, heard, cut>>
    BY <1>1, <1>3, <2>1 DEF Known, Comparing, Saving
  <2>2. CASE Stop
    BY <1>1, <1>3, <2>2, RestType DEF Stop, Known, Comparing, Saving, Unknown, None, Seasons
  <2>3. CASE Boot
    BY <1>1, <1>3, <2>3 DEF Boot, Known, Comparing, Saving
  <2>4. ASSUME NEW p \in Readers, ReaderStep(p) PROVE Known(s) \/ (RecordArrives(p) /\ reader[p].seen.season = s)
    <3>1. StepEffect(p)
      BY <1>0, <2>4, ReaderEffect
    <3>2. /\ memory' = memory \/ (RecordArrives(p) /\ memory' = reader[p].seen)
          /\ stored' = stored \/ (WriteState(p) /\ stored' = reader[p].seen)
      BY <2>4 DEF ReaderStep, Advance, AskIndex, IndexArrives, ReadSeason, ReadFails, RecordArrives,
        ClearRewards, WriteState, SaveFails, Announce
    <3>3. CASE memory'.season = s \/ stored'.season = s
      BY <3>2, <3>3 DEF Known, WriteState, Saving, At
    <3>4. ASSUME NEW q \in Readers, q # p, reader'[q] = reader[q],
                 \/ Saving(q)' /\ reader'[q].seen.season = s
                 \/ Comparing(q)' /\ reader'[q].previous.season = s
          PROVE  Known(s)
      BY <3>4 DEF Known, Saving, Comparing
    <3>5. CASE Saving(p)' /\ reader'[p].seen.season = s
      <4>1. RecordArrives(p) \/ ClearRewards(p) \/ WriteState(p)
        BY <3>1, <3>5, RestType DEF StepEffect, Saving
      <4>2. reader[p].seen.season = s
        BY <3>1, <3>5, RestType DEF StepEffect, Saving
      <4> QED BY <4>1, <4>2 DEF ClearRewards, WriteState, At, Saving, Known
    <3>6. CASE Comparing(p)' /\ reader'[p].previous.season = s
      <4>1. reader'[p].previous = memory \/ (Comparing(p) /\ reader'[p].previous = reader[p].previous)
        BY <3>1, <3>6, RestType
        DEF StepEffect, Comparing, Saving, ReadSeason, RecordArrives, ClearRewards, WriteState, At
      <4> QED BY <3>6, <4>1 DEF Known
    <3> QED BY <1>3, <3>1, <3>3, <3>4, <3>5, <3>6 DEF Known, StepEffect
  <2> QED BY <1>1, <1>2, <2>1, <2>2, <2>3, <2>4, Steps
<1> QED BY <1>3 DEF SeasonsHeard

(* However the refreshes overlap, fail, are cut off and start again, a season*)
(* that reaches memory was published as a rollover, was the first ever seen, *)
(* or its refresh was cut off.                                               *)
THEOREM EveryChangeIsHeard == SeasonSpec => []ChangeIsHeard
<1>1. HeardInv /\ [SeasonNext]_seasonVars => HeardInv'
  BY TypeStep, MemoryStep, SeasonsStep DEF HeardInv
<1>2. HeardInv => ChangeIsHeard
  <2> SUFFICES ASSUME HeardInv, \A p \in Readers : At(p, "idle"), memory.season # None
               PROVE  memory.season \in heard \cup {o.season : o \in cut}
    BY DEF HeardInv, ChangeIsHeard
  <2>1. WillBeHeard(memory.season)
    BY DEF HeardInv, SeasonsHeard, Known, SeasonTypeOK, Observation
  <2> QED BY <2>1 DEF WillBeHeard, Saving, At
<1> QED BY Starts, <1>1, <1>2, PTL DEF SeasonSpec
-----------------------------------------------------------------------------
(* The rewards.  RewardsOfTheSeason can fail; here is the one order that     *)
(* breaks it.                                                                *)

(* Rewards are recorded onto the document in the middle of a save that is    *)
(* about to name another season on it: after its clearing, before its write. *)
RecordsMidSave ==
  /\ RecordRewards
  /\ stored.season = rewarder
  /\ \E p \in Readers : At(p, "writing") /\ reader[p].seen.season # rewarder

(* The rewards are those of the season the document names, and already those *)
(* of the season that any save past its clearing is about to name.           *)
RewardsSurviveSaves ==
  /\ rewards \in {None, stored.season}
  /\ \A p \in Readers : At(p, "writing") => rewards \in {None, reader[p].seen.season}

(* Only two steps write the rewards.                                         *)
LEMMA RewardsEffect ==
  ASSUME SeasonNext
  PROVE  \/ rewards' = rewards
         \/ RecordRewards
         \/ \E p \in Readers : ClearRewards(p)
  BY DEF SeasonNext, SeasonEnds, SeasonBegins, AskIndex, ReadFails, SaveFails, Advance,
         IndexArrives, ReadSeason, RecordArrives, WriteState, Announce, AskRewards,
         RewardsFail, Stop, Boot

(* Only a save's second update writes the document's season.                 *)
LEMMA StoredEffect ==
  ASSUME SeasonNext
  PROVE  stored' = stored \/ \E p \in Readers : WriteState(p)
  BY DEF SeasonNext, SeasonEnds, SeasonBegins, AskIndex, ReadFails, SaveFails, Advance,
         IndexArrives, ReadSeason, RecordArrives, ClearRewards, Announce, AskRewards,
         RecordRewards, RewardsFail, Stop, Boot

(* A refresh is about to write only if it already was, or has just cleared.  *)
LEMMA WritingEffect ==
  ASSUME SeasonTypeOK, [SeasonNext]_seasonVars, NEW p \in Readers, At(p, "writing")'
  PROVE  /\ At(p, "writing") \/ ClearRewards(p)
         /\ reader'[p].seen.season = reader[p].seen.season
<1>1. reader'[p].at = "writing" /\ AtRest.at # "writing"
  BY RestType DEF At
<1>2. CASE reader' = reader
  BY <1>1, <1>2 DEF At
<1>3. CASE Stop
  BY <1>1, <1>3 DEF Stop
<1>4. ASSUME NEW q \in Readers, ReaderStep(q) PROVE At(p, "writing") \/ ClearRewards(p)
  BY <1>1, <1>4, ReaderEffect, Zenon DEF StepEffect, At
<1>5. ASSUME NEW q \in Readers, ReaderStep(q) PROVE reader'[p].seen.season = reader[p].seen.season
  BY <1>1, <1>5, ReaderEffect, Zenon DEF StepEffect
<1>6. reader' = reader \/ Stop \/ \E q \in Readers : ReaderStep(q)
  BY Steps DEF Boot
<1> QED BY <1>2, <1>3, <1>4, <1>5, <1>6

LEMMA RewardsSurviveStep ==
  RewardsSurviveSaves /\ SeasonTypeOK /\ [SeasonNext]_seasonVars /\ ~RecordsMidSave => RewardsSurviveSaves'
<1> SUFFICES ASSUME RewardsSurviveSaves, SeasonTypeOK, [SeasonNext]_seasonVars, ~RecordsMidSave
             PROVE  RewardsSurviveSaves'
  OBVIOUS
<1>1. rewards' \in {None, stored'.season}
  <2>1. CASE UNCHANGED seasonVars
    BY <2>1 DEF seasonVars, RewardsSurviveSaves
  <2>2. CASE RecordRewards
    BY <2>2 DEF RecordRewards, RewardsSurviveSaves
  <2>3. ASSUME NEW p \in Readers, ClearRewards(p) PROVE rewards' \in {None, stored'.season}
    BY <2>3 DEF ClearRewards, RewardsSurviveSaves
  <2>4. ASSUME NEW p \in Readers, WriteState(p) PROVE rewards' \in {None, stored'.season}
    BY <2>4 DEF WriteState, RewardsSurviveSaves
  <2>5. CASE rewards' = rewards /\ stored' = stored
    BY <2>5 DEF RewardsSurviveSaves
  <2> QED BY <2>1, <2>2, <2>3, <2>4, <2>5, RewardsEffect, StoredEffect
<1>2. ASSUME NEW p \in Readers, At(p, "writing")'
      PROVE  rewards' \in {None, reader'[p].seen.season}
  <2>1. /\ At(p, "writing") \/ ClearRewards(p)
        /\ reader'[p].seen.season = reader[p].seen.season
    BY <1>2, WritingEffect
  <2>2. CASE ClearRewards(p)
    BY <2>1, <2>2 DEF ClearRewards, RewardsSurviveSaves
  <2>3. CASE At(p, "writing")
    <3>1. rewards \in {None, reader[p].seen.season}
      BY <2>3 DEF RewardsSurviveSaves
    <3>2. CASE RecordRewards
      BY <2>1, <2>3, <3>1, <3>2 DEF RecordRewards, RecordsMidSave
    <3>3. CASE \E q \in Readers : ClearRewards(q)
      BY <2>1, <3>1, <3>3 DEF ClearRewards
    <3>4. CASE rewards' = rewards
      BY <2>1, <3>1, <3>4
    <3> QED BY <3>2, <3>3, <3>4, RewardsEffect DEF seasonVars
  <2> QED BY <2>1, <2>2, <2>3
<1> QED BY <1>1, <1>2 DEF RewardsSurviveSaves

(* Rewards stay on the document past their season only when they are         *)
(* recorded between the two updates of a save that names another: but for    *)
(* that order the document never shows the rewards of a season it does not   *)
(* name, whatever else overlaps, fails or is cut off.                        *)
THEOREM OnlyMidSaveMixesRewards == SeasonSpec /\ [][~RecordsMidSave]_seasonVars => []RewardsOfTheSeason
<1>1. SeasonInit => RewardsSurviveSaves
  BY RestType DEF SeasonInit, RewardsSurviveSaves, At
<1>2. HeardInv /\ [SeasonNext]_seasonVars => HeardInv'
  BY TypeStep, MemoryStep, SeasonsStep DEF HeardInv
<1>3. HeardInv => SeasonTypeOK
  BY DEF HeardInv
<1>4. RewardsSurviveSaves => RewardsOfTheSeason
  BY DEF RewardsSurviveSaves, RewardsOfTheSeason
<1>5. RewardsSurviveSaves /\ SeasonTypeOK /\ [SeasonNext]_seasonVars /\ [~RecordsMidSave]_seasonVars => RewardsSurviveSaves'
  <2>1. CASE UNCHANGED seasonVars
    BY <2>1 DEF seasonVars, RewardsSurviveSaves, At
  <2> QED BY <2>1, RewardsSurviveStep
<1> QED BY Starts, <1>1, <1>2, <1>3, <1>4, <1>5, PTL DEF SeasonSpec
==============================================================================
