-------------------------- MODULE SeasonTransition --------------------------
(***************************************************************************)
(* How a finished PvP season leaves the live collections                   *)
(* (src/src/season/season-transition.service.ts): regions move to a new    *)
(* season at their own time, sweeps and snapshots write the season their   *)
(* region was last seen on, the archive takes finished seasons, and a tick *)
(* deletes, one collection after the other, what a newer season has        *)
(* superseded.  A collection is abstracted to the seasons it has rows of.  *)
(***************************************************************************)
EXTENDS Integers, Sequences, FiniteSets

CONSTANTS
  Regions,           \* BLIZZARD_REGIONS
  Families,          \* the rating families, in the order they are purged
  MaxSeason,         \* bound: the last season
  MaxInterruptions,  \* bound: how many ticks fail, or stop with the process
  ListsAhead,        \* the regions whose index may name a season before it starts
  Unserved,          \* the pairs whose archive request is answered 404
  RequireArchive,    \* SEASON_PURGE_REQUIRE_ARCHIVE
  DryRun             \* SEASON_PURGE_DRY_RUN

ASSUME TransitionAssumption ==
  /\ IsFiniteSet(Regions) /\ Regions # {}
  /\ Families \in Seq(STRING \ {"characters", "spec_representation"})
  /\ MaxSeason \in Nat \ {0} /\ MaxInterruptions \in Nat
  /\ {RequireArchive, DryRun} \subseteq BOOLEAN
  /\ ListsAhead \subseteq Regions /\ Unserved \subseteq Regions \X (1..MaxSeason)

Seasons == 1..MaxSeason
None == 0

(* A faulty order, with the characters before their rows.                    *)
CharactersFirst == <<"characters">> \o Families \o <<"spec_representation">>

(* The order in which purge empties the collections.                         *)
Collections == Families \o <<"characters", "spec_representation">>
Names == {Collections[i] : i \in 1..Len(Collections)}
Ratings == {Families[i] : i \in 1..Len(Families)}

VARIABLES
  listed,    \* listed[r]: the season r's index names as current
  playing,   \* playing[r]: the latest season that has started in r
  over,      \* over[r]: that season has ended
  observed,  \* observed[r]: the season of r's season_state document, or None
  live,      \* live[r][c]: the seasons collection c has rows of
  sweep,     \* the sweep in progress: region, season, and how far it is
  archive,   \* archive[r][s]: the archive_seasons marker
  purged,    \* purged[r]: the seasons recorded in season_transitions
  tick,      \* the purge in progress
  interruptions,
  disturbed  \* history: the pairs deleted from while a sweep of them was on

vars ==
  <<listed, playing, over, observed, live, sweep, archive, purged, tick, interruptions, disturbed>>

(* "partly": a marker that names failed brackets.  "unserved": one set by    *)
(* markUnarchivable.                                                         *)
Markers == {"none", "partly", "whole", "unserved"}

(* A sweep of several regions is taken region by region: they share nothing. *)
NoSweep == [at |-> "idle", region |-> None, season |-> None]
NoTick == [at |-> "idle", stale |-> {}, archived |-> {}, unread |-> {}, candidates |-> {},
           target |-> <<>>, step |-> 1]

Pairs == Regions \X Seasons

TypeOK ==
  /\ listed \in [Regions -> Seasons] /\ playing \in [Regions -> Seasons]
  /\ over \in [Regions -> BOOLEAN]
  /\ observed \in [Regions -> Seasons \cup {None}]
  /\ live \in [Regions -> [Names -> SUBSET Seasons]]
  /\ sweep \in {NoSweep} \cup [at : {"fetched", "ranked"}, region : Regions, season : Seasons]
  /\ archive \in [Regions -> [Seasons -> Markers]]
  /\ purged \in [Regions -> SUBSET Seasons]
  /\ tick.at \in {"idle", "markers", "boards", "purging"}
  /\ {tick.stale, tick.archived, tick.candidates} \subseteq SUBSET Pairs
  /\ tick.unread \subseteq Regions
  /\ tick.target \in Pairs \cup {<<>>} /\ (tick.at = "purging" <=> tick.target # <<>>)
  /\ tick.step \in 1..Len(Collections) + 1
  /\ interruptions \in 0..MaxInterruptions
  /\ disturbed \subseteq Pairs

Init ==
  /\ listed = [r \in Regions |-> 1] /\ playing = [r \in Regions |-> 1]
  /\ over = [r \in Regions |-> FALSE]
  /\ observed = [r \in Regions |-> None]
  /\ live = [r \in Regions |-> [c \in Names |-> {}]]
  /\ sweep = NoSweep
  /\ archive = [r \in Regions |-> [s \in Seasons |-> "none"]]
  /\ purged = [r \in Regions |-> {}]
  /\ tick = NoTick
  /\ interruptions = 0
  /\ disturbed = {}

-----------------------------------------------------------------------------
(* The upstream.                                                             *)

upstream == <<listed, playing, over>>
ours == <<observed, live, sweep, archive, purged, tick, interruptions, disturbed>>

(* Bound: the last season stays in progress.                                 *)
SeasonEnds(r) ==
  /\ ~over[r] /\ playing[r] < MaxSeason
  /\ over' = [over EXCEPT ![r] = TRUE]
  /\ UNCHANGED <<listed, playing, ours>>

(* The index names a season whose start is still to come.                    *)
SeasonListed(r) ==
  /\ r \in ListsAhead /\ listed[r] = playing[r] /\ listed[r] < MaxSeason
  /\ listed' = [listed EXCEPT ![r] = @ + 1]
  /\ UNCHANGED <<playing, over, ours>>

SeasonStarts(r) ==
  /\ playing[r] < MaxSeason
  /\ playing' = [playing EXCEPT ![r] = @ + 1]
  /\ listed' = [listed EXCEPT ![r] = playing[r] + 1]
  /\ over' = [over EXCEPT ![r] = FALSE]
  /\ UNCHANGED ours

IsOver(r, s) == s < playing[r] \/ (s = playing[r] /\ over[r])

-----------------------------------------------------------------------------
(* What writes the live collections.                                         *)

(* A completed refresh of the region's season.                               *)
Refresh(r) ==
  /\ observed[r] # listed[r]
  /\ observed' = [observed EXCEPT ![r] = listed[r]]
  /\ UNCHANGED <<upstream, live, sweep, archive, purged, tick, interruptions, disturbed>>

(* Bound: the last season is there to supersede the others; its own rows are *)
(* left out.                                                                 *)
Holding(r, cs, s) ==
  [live EXCEPT ![r] = [c \in Names |-> IF c \in cs /\ s < MaxSeason THEN @[c] \cup {s} ELSE @[c]]]
Lacking(r, cs, s) ==
  [live EXCEPT ![r] = [c \in Names |-> IF c \in cs THEN @[c] \ {s} ELSE @[c]]]

(* A sweep resolves the season, and every ladder it reads makes characters,  *)
(* then rating rows, several ladders at a time.  It asks nobody whether the  *)
(* season is being purged.                                                   *)
SweepStarts(r) ==
  /\ sweep = NoSweep
  /\ observed' = [observed EXCEPT ![r] = listed[r]]
  /\ sweep' = [at |-> "fetched", region |-> r, season |-> listed[r]]
  /\ UNCHANGED <<upstream, live, archive, purged, tick, interruptions, disturbed>>

SweepRanks ==
  /\ sweep # NoSweep
  /\ live' = Holding(sweep.region, {"characters"}, sweep.season)
  /\ sweep' = [sweep EXCEPT !.at = "ranked"]
  /\ UNCHANGED <<upstream, observed, archive, purged, tick, interruptions, disturbed>>

(* The pair a sweep is writing.                                              *)
Swept == IF sweep = NoSweep THEN {} ELSE {<<sweep.region, sweep.season>>}

(* Only a ladder whose characters are written comes to its rows.             *)
SweepRates ==
  /\ sweep.at = "ranked"
  /\ live' = Holding(sweep.region, Ratings, sweep.season)
  /\ UNCHANGED <<upstream, observed, sweep, archive, purged, tick, interruptions, disturbed>>

(* At the end it removes the rows of characters it does not find: all of     *)
(* them, or only those of characters it removed itself.                      *)
SweepEnds ==
  /\ sweep # NoSweep
  /\ \E full \in BOOLEAN :
       live' = IF full /\ sweep.season \notin live[sweep.region]["characters"]
                 THEN Lacking(sweep.region, Ratings, sweep.season) ELSE live
  /\ sweep' = NoSweep
  /\ UNCHANGED <<upstream, observed, archive, purged, tick, interruptions, disturbed>>

(* The daily snapshot counts the rating rows of the season just refreshed,   *)
(* or of the one last seen when the refresh fails.                           *)
Snapshot(r) ==
  /\ sweep = NoSweep
  /\ \E s \in {listed[r], observed[r]} \ {None} :
       /\ \E c \in Ratings : s \in live[r][c]
       /\ observed' = IF s = listed[r] THEN [observed EXCEPT ![r] = s] ELSE observed
       /\ live' = Holding(r, {"spec_representation"}, s)
  /\ UNCHANGED <<upstream, sweep, archive, purged, tick, interruptions, disturbed>>

-----------------------------------------------------------------------------
(* The archive.                                                              *)

(* What archivableSeasons lets through: the current season only once the     *)
(* refreshed record of it shows its end.                                     *)
Archivable(r, s) == s < listed[r] \/ (s = listed[r] /\ observed[r] = s /\ IsOver(r, s))

Settled(r, s) == archive[r][s] \in {"whole", "unserved"}

(* The archive is at the head of its backlog, with s pending in r.           *)
Pending(r, s) == sweep = NoSweep /\ Archivable(r, s) /\ ~Settled(r, s)

Mark(r, s, marker) ==
  /\ archive' = [archive EXCEPT ![r][s] = marker]
  /\ UNCHANGED <<upstream, observed, live, sweep, purged, tick, interruptions, disturbed>>

(* archiveSeason, with every bracket stored or some that failed.             *)
ArchiveWhole(r, s) == Pending(r, s) /\ <<r, s>> \notin Unserved /\ Mark(r, s, "whole")
ArchivePart(r, s) == Pending(r, s) /\ <<r, s>> \notin Unserved /\ Mark(r, s, "partly")

(* The season's brackets are answered 404.                                   *)
MarkUnarchivable(r, s) == Pending(r, s) /\ <<r, s>> \in Unserved /\ Mark(r, s, "unserved")

-----------------------------------------------------------------------------
(* The purge: plan, read by read, then the deletes.                          *)

(* The gate: every region observed, and the newest season started in one of  *)
(* the regions seen on it.                                                   *)
Newest == CHOOSE s \in Seasons :
  /\ \E r \in Regions : observed[r] = s
  /\ \A r \in Regions : observed[r] <= s

(* A faulty Gate that waits for every region to be on the newest season.     *)
GateWaitsForAll ==
  /\ \A r \in Regions : observed[r] # None
  /\ \A r \in Regions : observed[r] = Newest /\ playing[r] >= Newest

Gate ==
  /\ \A r \in Regions : observed[r] # None
  /\ \E r \in Regions : observed[r] = Newest /\ playing[r] >= Newest

(* Faulty forms of Superseded: one that goes by the newest season of all     *)
(* regions, and one that forgets the region's own start.                     *)
SupersededAnywhere(r) == {s \in Seasons : \E q \in Regions : s < observed[q] /\ playing[q] >= observed[q]}
SupersededWhenListed(r) == {s \in Seasons : s < observed[r]}

(* The seasons older than the region's own, once that one has started there. *)
Superseded(r) == {s \in Seasons : s < observed[r] /\ playing[r] >= observed[r]}

(* The tick reads the season states and the time; what it does not purge by  *)
(* them it leaves to a later tick.                                           *)
TickStarts ==
  /\ tick = NoTick /\ Gate
  /\ tick' = [tick EXCEPT !.at = "markers", !.stale = {p \in Pairs : p[2] \in Superseded(p[1])}]
  /\ UNCHANGED <<upstream, observed, live, sweep, archive, purged, interruptions, disturbed>>

(* A faulty CompletedArchives that takes a season begun for a season held.   *)
AnyMarker == {p \in Pairs : archive[p[1]][p[2]] # "none"}

(* completedArchives: no bracket outstanding.  Its other condition, that the *)
(* end date has passed, holds of every season the tick found superseded.     *)
CompletedArchives == {p \in Pairs : archive[p[1]][p[2]] \in {"whole", "unserved"}}

(* purgedPairs and completedArchives: what the markers let go.               *)
ReadMarkers ==
  /\ tick.at = "markers"
  /\ LET held == IF RequireArchive THEN CompletedArchives ELSE Pairs
     IN  tick' = [tick EXCEPT !.at = "boards", !.unread = Regions,
                              !.archived = {p \in held : p[2] \notin purged[p[1]]}]
  /\ UNCHANGED <<upstream, observed, live, sweep, archive, purged, interruptions, disturbed>>

(* A region's stale seasons are looked up in its characters.                 *)
ReadBoard(r) ==
  /\ tick.at = "boards" /\ r \in tick.unread
  /\ tick' = [tick EXCEPT !.unread = @ \ {r},
       !.candidates = @ \cup (({r} \X live[r]["characters"]) \cap tick.stale \cap tick.archived)]
  /\ UNCHANGED <<upstream, observed, live, sweep, archive, purged, interruptions, disturbed>>

(* A faulty PurgeNext that goes idle with its last target.                   *)
PurgeNextLeavesTarget(candidates) ==
  \/ candidates = {} /\ tick' = [tick EXCEPT !.at = "idle"]
  \/ \E p \in candidates :
       tick' = [NoTick EXCEPT !.at = "purging", !.target = p, !.candidates = candidates \ {p}]

(* The loop over the candidates, in whatever order.                          *)
PurgeNext(candidates) ==
  \/ candidates = {} /\ tick' = NoTick
  \/ \E p \in candidates :
       tick' = [NoTick EXCEPT !.at = "purging", !.target = p, !.candidates = candidates \ {p}]

Planned ==
  /\ tick.at = "boards" /\ tick.unread = {}
  /\ PurgeNext(tick.candidates)
  /\ UNCHANGED <<upstream, observed, live, sweep, archive, purged, interruptions, disturbed>>

(* purge: the target's collections one after the other, whether or not a     *)
(* sweep is writing to them.                                                 *)
DeleteNext ==
  /\ tick.at = "purging" /\ tick.step <= Len(Collections)
  /\ live' = IF DryRun THEN live ELSE Lacking(tick.target[1], {Collections[tick.step]}, tick.target[2])
  /\ tick' = [tick EXCEPT !.step = @ + 1]
  /\ disturbed' = disturbed \cup ({tick.target} \cap Swept)
  /\ UNCHANGED <<upstream, observed, sweep, archive, purged, interruptions>>

(* recordPurge; a dry run's record does not count as a purge.                *)
RecordPurge ==
  /\ tick.at = "purging" /\ tick.step > Len(Collections)
  /\ purged' = IF DryRun THEN purged
               ELSE [purged EXCEPT ![tick.target[1]] = @ \cup {tick.target[2]}]
  /\ PurgeNext(tick.candidates)
  /\ UNCHANGED <<upstream, observed, live, sweep, archive, interruptions, disturbed>>

(* A read or a delete fails, or the process stops, and the next tick plans   *)
(* anew.                                                                     *)
TickInterrupted ==
  /\ tick # NoTick /\ interruptions < MaxInterruptions
  /\ tick' = NoTick
  /\ interruptions' = interruptions + 1
  /\ UNCHANGED <<upstream, observed, live, sweep, archive, purged, disturbed>>

-----------------------------------------------------------------------------
TickStep ==
  \/ TickStarts \/ ReadMarkers \/ (\E r \in Regions : ReadBoard(r))
  \/ Planned \/ DeleteNext \/ RecordPurge

Next ==
  \/ \E r \in Regions :
       \/ SeasonEnds(r) \/ SeasonListed(r) \/ SeasonStarts(r)
       \/ Refresh(r) \/ Snapshot(r) \/ SweepStarts(r)
       \/ \E s \in Seasons : ArchiveWhole(r, s) \/ ArchivePart(r, s) \/ MarkUnarchivable(r, s)
  \/ SweepRanks \/ SweepRates \/ SweepEnds
  \/ TickStep \/ TickInterrupted

Spec == Init /\ [][Next]_vars

(* The hourly purge, the daily refresh and the backlog all come back, and a  *)
(* season that is retried is stored whole, or refused for good, in the end.  *)
FairSpec ==
  /\ Spec
  /\ WF_vars(SweepEnds)
  /\ SF_vars(TickStep)
  /\ WF_vars(\E r \in Regions : Refresh(r))
  /\ SF_vars(\E r \in Regions, s \in Seasons : ArchiveWhole(r, s) \/ MarkUnarchivable(r, s))

-----------------------------------------------------------------------------
(* What a step takes away of season s from collection c of region r.         *)
Removes(r, c, s) == s \in live[r][c] /\ s \notin live'[r][c]

(* A season leaves a live collection only once the region it is played in    *)
(* has started the next one, however far ahead of it the other regions are   *)
(* and however early the upstream lists a season: the boards "stay readable  *)
(* through the gap between seasons" (SKILLS.md).                             *)
LiveBoardKept ==
  [][\A r \in Regions, c \in Names, s \in Seasons : Removes(r, c, s) => s < playing[r]]_vars

(* With the interlock on, a season leaves the live collections only when the *)
(* archive has done with it: stored every bracket, or been told for good     *)
(* that it is not served.                                                    *)
NothingRetiredUnsettled ==
  [][RequireArchive => \A r \in Regions, c \in Names, s \in Seasons :
       Removes(r, c, s) => Settled(r, s)]_vars

(* With the interlock on, a season leaves the live collections only when the *)
(* archive holds it in full.                                                 *)
NothingRetiredUnarchived ==
  [][RequireArchive => \A r \in Regions, c \in Names, s \in Seasons :
       Removes(r, c, s) => archive[r][s] = "whole"]_vars

(* No rating rows of a season whose characters are gone, at every moment of  *)
(* a purge: the comment of purge says so.                                    *)
NoOrphanRows ==
  \A r \in Regions, c \in Ratings : live[r][c] \subseteq live[r]["characters"]

(* The order of a purge's deletes leaves no rating rows without characters   *)
(* wherever a tick breaks off and whatever else is going on, but for a sweep *)
(* of the very season that was in progress at one of the deletes: nothing    *)
(* keeps the two apart, and what the sweep writes late stays.  And every     *)
(* value is of its type.                                                     *)
OrphansAreDisturbed ==
  /\ TypeOK
  /\ \A r \in Regions, c \in Ratings, s \in Seasons :
       s \in live[r][c] => s \in live[r]["characters"] \/ <<r, s>> \in disturbed

(* The boards a newer season has superseded in a region are gone, in the end *)
(* and for good, although ticks break off half way and sweeps of a season    *)
(* last into the next.  Left out is a board that was purged while a sweep    *)
(* was still writing it (disturbed): the pair is recorded as purged with the *)
(* rows written late still there, and no plan names it again.                *)
BoardsRetired ==
  <>[](\A r \in Regions, s \in Seasons, c \in Ratings \cup {"characters"} :
         s < playing[r] /\ <<r, s>> \notin disturbed => s \notin live[r][c])

==============================================================================
