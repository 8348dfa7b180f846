-------------------------- MODULE SeasonObservation --------------------------
(***************************************************************************)
(* How one region's active PvP season is observed                          *)
(* (src/src/season/season.service.ts): the upstream moves from season to   *)
(* season, several refreshes read it at the same time, and what they see   *)
(* goes to memory, to the season_state document and out as an event.  The  *)
(* rewards of the running season live on the same document.  Regions share *)
(* nothing, so one is enough.                                              *)
(***************************************************************************)
EXTENDS Integers

CONSTANTS
  Readers,      \* callers of refresh: the season scheduler, a sweep
  MaxSeason,    \* bound: the last season the upstream opens
  MayFail,      \* a save may fail
  MayStop       \* the process may stop at any time

ASSUME SeasonAssumption ==
  /\ MaxSeason \in Nat \ {0}
  /\ {MayFail, MayStop} \subseteq BOOLEAN

Seasons == 1..MaxSeason
None == 0

(* What is known of a season: its id and whether it carries an end date.     *)
Observation == [season : Seasons \cup {None}, ended : BOOLEAN]
Unknown == [season |-> None, ended |-> FALSE]

VARIABLES
  upstream,  \* the season Blizzard lists as current
  up,        \* the process is running
  memory,    \* SeasonService.currentSeasons
  stored,    \* the season_state document: its observation
  rewards,   \* the season whose rewards the document carries, or None
  reader,    \* reader[p]: a refresh in progress
  rewarder,  \* a read of the rewards in progress
  heard,     \* history: the first season ever seen, and the rollovers published
  cut        \* history: observations whose refresh was cut off once in memory

seasonVars == <<upstream, up, memory, stored, rewards, reader, rewarder, heard, cut>>

(* "index": the season index has been answered.  "season": the season's own  *)
(* record is requested.  "record": it has been answered.  "clearing",        *)
(* "writing": the two updates of a save.  "written": the save has returned.  *)
(* first: history, nothing was stored when the refresh compared.             *)
Places == {"idle", "index", "season", "record", "clearing", "writing", "written"}
AtRest == [at |-> "idle", seen |-> Unknown, previous |-> Unknown, first |-> FALSE]

SeasonTypeOK ==
  /\ upstream \in Observation /\ upstream.season # None
  /\ up \in BOOLEAN
  /\ memory \in Observation /\ stored \in Observation
  /\ rewards \in Seasons \cup {None}
  /\ reader \in [Readers -> 
       [at : Places, seen : Observation, previous : Observation, first : BOOLEAN]]
  /\ rewarder \in Seasons \cup {None}
  /\ heard \subseteq Seasons
  /\ cut \subseteq Observation

SeasonInit ==
  /\ upstream = [season |-> 1, ended |-> FALSE]
  /\ up = TRUE
  /\ memory = Unknown /\ stored = Unknown
  /\ rewards = None
  /\ reader = [p \in Readers |-> AtRest]
  /\ rewarder = None
  /\ heard = {}
  /\ cut = {}

-----------------------------------------------------------------------------
(* The upstream stamps an end date on its season, or opens the next one.     *)

SeasonEnds ==
  /\ ~upstream.ended
  /\ upstream' = [upstream EXCEPT !.ended = TRUE]
  /\ UNCHANGED <<up, memory, stored, rewards, reader, rewarder, heard, cut>>

SeasonBegins ==
  /\ upstream.season < MaxSeason
  /\ upstream' = [season |-> upstream.season + 1, ended |-> FALSE]
  /\ UNCHANGED <<up, memory, stored, rewards, reader, rewarder, heard, cut>>

(* An end date on season s, as its own record shows it.                      *)
Ended(s) == s < upstream.season \/ upstream.ended

-----------------------------------------------------------------------------
(* refresh, step by step.                                                    *)

At(p, place) == reader[p].at = place

(* A faulty AskIndex that takes the newest season listed for the current.    *)
AskIndexLast(p) ==
  /\ up /\ At(p, "idle")
  /\ reader' = [reader EXCEPT ![p] =
       [at |-> "index", seen |-> [season |-> upstream.season + 1, ended |-> FALSE],
        previous |-> Unknown, first |-> FALSE]]
  /\ UNCHANGED <<upstream, up, memory, stored, rewards, rewarder, heard, cut>>

AskIndex(p) ==
  /\ up /\ At(p, "idle")
  /\ reader' = [reader EXCEPT ![p] =
       [at |-> "index", seen |-> [season |-> upstream.season, ended |-> FALSE],
        previous |-> Unknown, first |-> FALSE]]
  /\ UNCHANGED <<upstream, up, memory, stored, rewards, rewarder, heard, cut>>

(* Whether the season is known to its end, so that nothing more is read.     *)
Settled(p) == memory.season = reader[p].seen.season /\ memory.ended

(* A faulty Settled: a season already known is taken for settled.            *)
SettledWhenKnown(p) == memory.season = reader[p].seen.season

(* The index arrives; what memory holds now is what the change is told from. *)
IndexArrives(p) ==
  /\ At(p, "index")
  /\ reader' = [reader EXCEPT ![p] =
       IF Settled(p) THEN AtRest
       ELSE [@ EXCEPT !.at = "season", !.previous = memory, !.first = (stored = Unknown)]]
  /\ UNCHANGED <<upstream, up, memory, stored, rewards, rewarder, heard, cut>>

ReadSeason(p) ==
  /\ At(p, "season")
  /\ reader' = [reader EXCEPT ![p] =
       [@ EXCEPT !.at = "record", !.seen.ended = Ended(reader[p].seen.season)]]
  /\ UNCHANGED <<upstream, up, memory, stored, rewards, rewarder, heard, cut>>

(* A request fails: the refresh throws and nothing has changed.              *)
ReadFails(p) ==
  /\ reader[p].at \in {"index", "season"}
  /\ reader' = [reader EXCEPT ![p] = AtRest]
  /\ UNCHANGED <<upstream, up, memory, stored, rewards, rewarder, heard, cut>>

(* The record arrives: memory is set before anything is saved.               *)
RecordArrives(p) ==
  /\ At(p, "record")
  /\ memory' = reader[p].seen
  /\ reader' = [reader EXCEPT ![p].at = "clearing"]
  /\ UNCHANGED <<upstream, up, stored, rewards, rewarder, heard, cut>>

(* The first update of save: the rewards of another season are removed.      *)
ClearRewards(p) ==
  /\ At(p, "clearing")
  /\ rewards' = IF stored.season # reader[p].seen.season THEN None ELSE rewards
  /\ reader' = [reader EXCEPT ![p].at = "writing"]
  /\ UNCHANGED <<upstream, up, memory, stored, rewarder, heard, cut>>

(* The second: the observation, inserted if the region is new.               *)
WriteState(p) ==
  /\ At(p, "writing")
  /\ stored' = reader[p].seen
  /\ reader' = [reader EXCEPT ![p].at = "written"]
  /\ UNCHANGED <<upstream, up, memory, rewards, rewarder, heard, cut>>

(* Either update fails, and refresh throws before it announces anything.     *)
SaveFails(p) ==
  /\ reader[p].at \in {"clearing", "writing"}
  /\ MayFail
  /\ cut' = cut \cup {reader[p].seen}
  /\ reader' = [reader EXCEPT ![p] = AtRest]
  /\ UNCHANGED <<upstream, up, memory, stored, rewards, rewarder, heard>>

(* announce: a season that replaces another is published as a rollover.  One *)
(* with no other before it is only logged, rightly so when nothing was       *)
(* stored.                                                                   *)
Announce(p) ==
  /\ At(p, "written")
  /\ heard' = IF /\ reader[p].previous.season # reader[p].seen.season
                 /\ reader[p].previous # Unknown \/ reader[p].first
                THEN heard \cup {reader[p].seen.season} ELSE heard
  /\ reader' = [reader EXCEPT ![p] = AtRest]
  /\ UNCHANGED <<upstream, up, memory, stored, rewards, rewarder, cut>>

-----------------------------------------------------------------------------
(* SeasonRewardsScheduler: the rewards of the season in memory are read, and *)
(* recorded onto the document only if it still names that season.            *)

AskRewards ==
  /\ up /\ rewarder = None /\ memory.season # None
  /\ rewarder' = memory.season
  /\ UNCHANGED <<upstream, up, memory, stored, rewards, reader, heard, cut>>

RecordRewards ==
  /\ rewarder # None
  /\ rewards' = IF stored.season = rewarder THEN rewarder ELSE rewards
  /\ rewarder' = None
  /\ UNCHANGED <<upstream, up, memory, stored, reader, heard, cut>>

RewardsFail ==
  /\ rewarder # None
  /\ rewarder' = None
  /\ UNCHANGED <<upstream, up, memory, stored, rewards, reader, heard, cut>>

-----------------------------------------------------------------------------
(* The process stops, and boots with what was stored.                        *)

Saving(p) == reader[p].at \in {"clearing", "writing", "written"}

Stop ==
  /\ MayStop /\ up
  /\ up' = FALSE
  /\ memory' = Unknown
  /\ cut' = cut \cup {reader[p].seen : p \in {q \in Readers : Saving(q)}}
  /\ reader' = [p \in Readers |-> AtRest]
  /\ rewarder' = None
  /\ UNCHANGED <<upstream, stored, rewards, heard>>

(* A faulty boot that starts from an empty memory.                           *)
BootForgetful ==
  /\ ~up
  /\ up' = TRUE
  /\ UNCHANGED <<upstream, memory, stored, rewards, reader, rewarder, heard, cut>>

(* onModuleInit. *)
Boot ==
  /\ ~up
  /\ up' = TRUE
  /\ memory' = stored
  /\ UNCHANGED <<upstream, stored, rewards, reader, rewarder, heard, cut>>

-----------------------------------------------------------------------------
Advance(p) ==
  \/ IndexArrives(p) \/ ReadSeason(p) \/ RecordArrives(p)
  \/ ClearRewards(p) \/ WriteState(p) \/ Announce(p)

SeasonNext ==
  \/ SeasonEnds \/ SeasonBegins
  \/ \E p \in Readers : AskIndex(p) \/ Advance(p) \/ ReadFails(p) \/ SaveFails(p)
  \/ AskRewards \/ RecordRewards \/ RewardsFail
  \/ Stop \/ Boot

SeasonSpec == SeasonInit /\ [][SeasonNext]_seasonVars

-----------------------------------------------------------------------------
(* No rollover goes unheard unless its refresh was cut off: whenever no      *)
(* refresh is in progress, the season in memory is one that was published as *)
(* a rollover, or the first ever seen, by this run of the process or an      *)
(* earlier one, however many refreshes overlap and wherever the process      *)
(* stops.  (The comment of SeasonService: "a rollover that happens while the *)
(* process is down must still be seen as a rollover on the next boot".)      *)
(* Every value is of its type.                                               *)
ChangeIsHeard ==
  /\ SeasonTypeOK
  /\ (\A p \in Readers : At(p, "idle")) /\ memory.season # None
       => memory.season \in heard \cup {o.season : o \in cut}

(* The rewards on the document are those of the season it names.             *)
RewardsOfTheSeason == rewards \in {None, stored.season}

==============================================================================
