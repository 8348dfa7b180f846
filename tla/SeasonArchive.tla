----------------------------- MODULE SeasonArchive -----------------------------
(***************************************************************************)
(* The PvP archive (src/src/archive/): a tick takes the finished seasons   *)
(* one after the other, stores their ladders several at a time, notes each *)
(* ladder it has fetched, and writes a marker for the season; then it asks *)
(* for the rewards of the seasons it holds.  It gives way to live work at  *)
(* every ladder, and stops anywhere with the process or with its database. *)
(* The rows of a ladder are abstracted to how much of it is stored.        *)
(***************************************************************************)
EXTENDS Integers, Sequences, FiniteSets

CONSTANTS
  Regions,     \* BLIZZARD_REGIONS, in the order the backlog is walked
  Brackets,    \* the ladders that can be ingested
  LastSeason,  \* bound: the last season of each region, which stays in progress
  Playing,     \* Playing[r]: the season r is in when the program starts
  Published,   \* Published[p]: the ladders the upstream lists for a season of a region
  Empty,       \* the ladders nobody qualified for
  Served,      \* the pairs whose ladders the upstream serves
  Legacy,      \* the pairs stored before fetches were recorded
  ListsAhead,  \* the upstream may list a season before it starts
  MaxDrops     \* bound: how often the markers are lost

RegionSet == {Regions[i] : i \in DOMAIN Regions}
Seasons == Nat \ {0}
Pairs == UNION {{r} \X (1..LastSeason[r]) : r \in RegionSet}

ASSUME ArchiveAssumption ==
  /\ MaxDrops \in Nat /\ ListsAhead \in BOOLEAN
  /\ {LastSeason, Playing} \subseteq [RegionSet -> Seasons]
  /\ \A r \in RegionSet : Playing[r] <= LastSeason[r]
  /\ Published \in [Pairs -> SUBSET Brackets]
  /\ Empty \subseteq Brackets
  /\ Served \subseteq Pairs /\ Legacy \subseteq Pairs
  /\ \A p \in Legacy : p[2] < Playing[p[1]]

VARIABLES
  upstream,  \* upstream[r]: the season being played, how it stands, and the one listed
  seen,      \* seen[r]: the season record the process has cached, and whether it is dated
  rows,      \* rows[p][b]: how much of the ladder archive_entries holds
  fetched,   \* fetched[p]: the ladders archive_brackets records
  marker,    \* marker[p]: the archive_seasons document
  tick,      \* the tick in progress
  job,       \* job[b]: how far the ladder b of the season being archived is
  drops,
  unlisted,  \* the pairs adopted while their list of ladders was not answered
  calm       \* from here on a pair that is served is, and nothing interrupts

world == <<upstream, seen>>
stored == <<rows, fetched, marker, unlisted>>
rare == <<drops, calm>>
vars == <<upstream, seen, rows, fetched, marker, unlisted, tick, job, drops, calm>>

Phases == {"running", "dated", "ended"}
Amounts == {"none", "part", "whole"}
Rewards == {"none", "fetched", "refused"}
NoMarker == [set |-> FALSE, failed |-> {}, gone |-> FALSE, rewards |-> "none"]
Markers == [set : BOOLEAN, failed : SUBSET Brackets, gone : BOOLEAN, rewards : Rewards]

NoPair == <<>>
NoTick == [at |-> "idle", pair |-> NoPair, failed |-> {}, awaiting |-> {}]

(* A job waits for its turn, has the ladder in hand, has stored part of it   *)
(* or all, or is over, done or failed.                                       *)
Stages == {"none", "waiting", "answered", "written", "done", "failed"}

TypeOK ==
  /\ upstream \in [RegionSet -> [season : Seasons, phase : Phases, listed : Seasons]]
  /\ seen \in [RegionSet -> [season : Nat, dated : BOOLEAN]]
  /\ rows \in [Pairs -> [Brackets -> Amounts]]
  /\ fetched \in [Pairs -> SUBSET Brackets]
  /\ marker \in [Pairs -> Markers]
  /\ tick \in [at : {"idle", "backlog", "season", "ladders", "rewards"},
               pair : Pairs \cup {NoPair}, failed : SUBSET Pairs, awaiting : SUBSET Pairs]
  /\ tick.at \in {"season", "ladders"} <=> tick.pair # NoPair
  /\ job \in [Brackets -> Stages]
  /\ drops \in 0..MaxDrops
  /\ unlisted \subseteq Pairs /\ calm \in BOOLEAN

NoJobs == [b \in Brackets |-> "none"]

(* What the archive stores of a ladder: nothing, when it is empty.           *)
Full(b) == IF b \in Empty THEN "none" ELSE "whole"

Init ==
  /\ upstream = [r \in RegionSet |-> [season |-> Playing[r], phase |-> "running", listed |-> Playing[r]]]
  /\ seen = [r \in RegionSet |-> [season |-> 0, dated |-> FALSE]]
  /\ rows = [p \in Pairs |-> [b \in Brackets |->
               IF p \in Legacy /\ b \in Published[p] THEN Full(b) ELSE "none"]]
  /\ fetched = [p \in Pairs |-> {}]
  /\ marker = [p \in Pairs |-> NoMarker]
  /\ tick = NoTick /\ job = NoJobs /\ drops = 0 /\ unlisted = {} /\ calm = FALSE

-----------------------------------------------------------------------------
(* The upstream: a season is given an end date, ends, and is followed by the *)
(* next, which may be listed before it starts.                               *)
SeasonTurns(r) ==
  LET u == upstream[r] IN
  /\ \/ u.season < LastSeason[r] /\ u.phase = "running" /\ upstream' = [upstream EXCEPT ![r].phase = "dated"]
     \/ u.phase = "dated" /\ upstream' = [upstream EXCEPT ![r].phase = "ended"]
     \/ u.phase = "ended"
        /\ upstream' = [upstream EXCEPT ![r] = [season |-> u.season + 1, phase |-> "running",
                                                listed |-> u.season + 1]]
     \/ ListsAhead /\ u.listed = u.season /\ u.season < LastSeason[r]
        /\ upstream' = [upstream EXCEPT ![r].listed = @ + 1]
  /\ UNCHANGED <<seen, stored, tick, job, rare>>

IsOver(r, s) == s < upstream[r].season \/ (s = upstream[r].season /\ upstream[r].phase = "ended")

(* A refresh of the season record, by the sweep or daily.                    *)
Refresh(r) ==
  LET u == upstream[r] IN
  /\ seen' = [seen EXCEPT ![r] = [season |-> u.listed, dated |-> u.listed = u.season /\ u.phase # "running"]]
  /\ seen' # seen
  /\ UNCHANGED <<upstream, stored, tick, job, rare>>

(* The markers are gone: a dropped collection, or an older backup.           *)
MarkersDropped ==
  /\ tick = NoTick /\ drops < MaxDrops /\ ~calm
  /\ marker' = [p \in Pairs |-> NoMarker]
  /\ drops' = drops + 1
  /\ UNCHANGED <<world, rows, fetched, tick, job, unlisted, calm>>

-----------------------------------------------------------------------------
(* The backlog.                                                              *)

(* A faulty HasEnded that goes by whichever season is cached.                *)
HasEndedWhicheverCached(r, s) == seen[r].dated /\ IsOver(r, seen[r].season)

(* The cached record is that season's and its end date has passed.           *)
HasEnded(r, s) == seen[r].season = s /\ seen[r].dated /\ IsOver(r, s)

(* The finished seasons of a region: the index read fresh, the record cached.*)
ArchivableSeasons(r) ==
  {s \in 1..LastSeason[r] : s < upstream[r].listed \/ (s = upstream[r].listed /\ HasEnded(r, s))}

Complete(p) == marker[p].set /\ marker[p].failed = {}
Settled(p) == Complete(p) \/ marker[p].gone

(* nextPending walks the regions in order, their seasons newest first.       *)
Index(r) == CHOOSE i \in DOMAIN Regions : Regions[i] = r
Before(p, q) == Index(p[1]) < Index(q[1]) \/ (p[1] = q[1] /\ p[2] > q[2])
Waiting == {p \in Pairs : p[2] \in ArchivableSeasons(p[1]) /\ ~Settled(p) /\ p \notin tick.failed}
IsNext(p) == p \in Waiting /\ \A q \in Waiting \ {p} : Before(p, q)

(* A faulty CoveredBrackets that goes by the rows alone.                     *)
CoveredByRows(p) == {b \in Brackets : rows[p][b] # "none"}

(* coveredBrackets: what was fetched and what has rows, or, for a season     *)
(* with no record of a fetch, what has rows.                                 *)
CoveredBrackets(p) == fetched[p] \cup {b \in Brackets : rows[p][b] # "none"}

(* recordSeason: the marker keeps its rewards.                               *)
Record(p, failed) == marker' = [marker EXCEPT ![p].set = TRUE, ![p].failed = failed]

-----------------------------------------------------------------------------
(* The tick, up to the choice of a season.                                   *)

TickStarts ==
  /\ tick = NoTick
  /\ tick' = [NoTick EXCEPT !.at = "backlog"]
  /\ UNCHANGED <<world, stored, job, rare>>

(* The season to archive: the next one with a marker, or with nothing stored.*)
Choose(p) ==
  /\ tick.at = "backlog" /\ IsNext(p)
  /\ marker[p].set \/ CoveredBrackets(p) = {}
  /\ tick' = [tick EXCEPT !.at = "season", !.pair = p]
  /\ UNCHANGED <<world, stored, job, rare>>

(* A faulty Adopt that is content with there being rows.                     *)
AdoptOnPresence(p) ==
  /\ tick.at = "backlog" /\ IsNext(p) /\ ~marker[p].set /\ CoveredBrackets(p) # {}
  /\ Record(p, {}) /\ UNCHANGED <<tick, unlisted>>
  /\ UNCHANGED <<world, rows, fetched, job, rare>>

(* adoptStoredSeason: with no marker but something stored, what is missing   *)
(* of the ladders the upstream lists goes on the marker.  When they are not  *)
(* listed, for whatever reason, nothing is missing.  A season adopted whole  *)
(* is passed over, any other is archived next.                               *)
Adopt(p) ==
  /\ tick.at = "backlog" /\ IsNext(p) /\ ~marker[p].set /\ CoveredBrackets(p) # {}
  /\ \/ /\ p \in Served
        /\ LET missing == Published[p] \ CoveredBrackets(p)
           IN  /\ Record(p, missing)
               /\ tick' = IF missing = {} THEN tick ELSE [tick EXCEPT !.at = "season", !.pair = p]
        /\ UNCHANGED unlisted
     \/ (calm => p \notin Served) /\ Record(p, {}) /\ unlisted' = unlisted \cup {p} /\ UNCHANGED tick
  /\ UNCHANGED <<world, rows, fetched, job, rare>>

(* The loop pauses for live work or quota, a season index or a write fails   *)
(* the tick, or the process stops; what was stored stays.                    *)
TickStops ==
  /\ tick # NoTick /\ ~calm
  /\ tick' = NoTick /\ job' = NoJobs
  /\ UNCHANGED <<world, stored, rare>>

-----------------------------------------------------------------------------
(* A season.                                                                 *)

(* Faulty forms of NotAgain: one lets the season be chosen again at once,    *)
(* one leaves it in place.                                                   *)
Again(p) == [tick EXCEPT !.at = "backlog", !.pair = NoPair]
StillAt(p) == [tick EXCEPT !.at = "backlog", !.failed = @ \cup {p}]

(* Back to the backlog, the season put off to another tick.                  *)
NotAgain(p) == [tick EXCEPT !.at = "backlog", !.pair = NoPair, !.failed = @ \cup {p}]

(* The list of ladders is answered, and those outstanding are taken up.      *)
TakeUp ==
  /\ tick.at = "season" /\ tick.pair \in Served
  /\ job' = [b \in Brackets |->
               IF b \in Published[tick.pair] \ CoveredBrackets(tick.pair) THEN "waiting" ELSE "none"]
  /\ tick' = [tick EXCEPT !.at = "ladders"]
  /\ UNCHANGED <<world, stored, rare>>

(* A failed request, or a failed write of the marker.                        *)
SeasonFails ==
  /\ calm => tick.pair \notin Served
  /\ \/ tick.at = "season"
     \/ tick.at = "ladders" /\ \A b \in Brackets : job[b] \in {"none", "done", "failed"}
  /\ tick' = NotAgain(tick.pair)
  /\ job' = NoJobs
  /\ UNCHANGED <<world, stored, rare>>

(* A 404 is for good.                                                        *)
MarkUnarchivable ==
  /\ tick.at = "season" /\ tick.pair \notin Served
  /\ marker' = [marker EXCEPT ![tick.pair].set = TRUE, ![tick.pair].gone = TRUE]
  /\ tick' = NotAgain(tick.pair)
  /\ UNCHANGED <<world, rows, fetched, job, rare, unlisted>>

-----------------------------------------------------------------------------
(* archiveBracket, for each outstanding ladder, several at a time.           *)

Goes(b, from, to) == tick.at = "ladders" /\ job[b] = from /\ job' = [job EXCEPT ![b] = to]

(* Live work or the quota takes precedence, or the request or a write fails. *)
BracketFails(b) ==
  /\ ~calm
  /\ \E from \in {"waiting", "answered", "written"} : Goes(b, from, "failed")
  /\ UNCHANGED <<world, stored, tick, rare>>

GetLeaderboard(b) ==
  /\ Goes(b, "waiting", "answered")
  /\ UNCHANGED <<world, stored, tick, rare>>

(* The ladder is written chunk by chunk, each of them unordered; a row is    *)
(* replaced by its newer form.                                               *)
InsertSome(b) ==
  /\ tick.at = "ladders" /\ job[b] = "answered" /\ b \notin Empty
  /\ rows[tick.pair][b] = "none"
  /\ rows' = [rows EXCEPT ![tick.pair][b] = "part"]
  /\ UNCHANGED <<world, fetched, marker, unlisted, tick, job, rare>>

(* A faulty InsertEntries whose writes are not awaited.                      *)
InsertUnawaited(b) ==
  /\ Goes(b, "answered", "written")
  /\ UNCHANGED <<world, rows, fetched, marker, unlisted, tick, rare>>

InsertEntries(b) ==
  /\ Goes(b, "answered", "written")
  /\ rows' = [rows EXCEPT ![tick.pair][b] = Full(b)]
  /\ UNCHANGED <<world, fetched, marker, unlisted, tick, rare>>

RecordBracketFetch(b) ==
  /\ Goes(b, "written", "done")
  /\ fetched' = [fetched EXCEPT ![tick.pair] = @ \cup {b}]
  /\ UNCHANGED <<world, rows, marker, unlisted, tick, rare>>

(* Every ladder done with: the marker names those that failed, and only a    *)
(* season with none of them is done.                                         *)
RecordSeason ==
  /\ tick.at = "ladders" /\ \A b \in Brackets : job[b] \in {"none", "done", "failed"}
  /\ LET failed == {b \in Brackets : job[b] = "failed"}
     IN  /\ Record(tick.pair, failed)
         /\ tick' = IF failed = {} THEN [tick EXCEPT !.at = "backlog", !.pair = NoPair]
                    ELSE NotAgain(tick.pair)
  /\ job' = NoJobs
  /\ UNCHANGED <<world, rows, fetched, rare, unlisted>>

-----------------------------------------------------------------------------
(* The rewards, once nothing is waiting.                                     *)

SeasonsAwaitingRewards == {p \in Pairs : Complete(p) /\ ~marker[p].gone /\ marker[p].rewards = "none"}

RewardsStart ==
  /\ tick.at = "backlog" /\ Waiting = {}
  /\ tick' = [tick EXCEPT !.at = "rewards", !.awaiting = SeasonsAwaitingRewards]
  /\ UNCHANGED <<world, stored, job, rare>>

(* Each season is asked about once: it is answered, refused for good, or     *)
(* left to the next tick.                                                    *)
AskRewards(p) ==
  /\ tick.at = "rewards" /\ p \in tick.awaiting
  /\ \E answer \in Rewards \ (IF calm THEN {"none"} ELSE {}) : marker' = [marker EXCEPT ![p].rewards = answer]
  /\ tick' = [tick EXCEPT !.awaiting = @ \ {p}]
  /\ UNCHANGED <<world, rows, fetched, job, rare, unlisted>>

TickEnds ==
  /\ tick.at = "rewards" /\ tick.awaiting = {}
  /\ tick' = NoTick
  /\ UNCHANGED <<world, stored, job, rare>>

-----------------------------------------------------------------------------
Calms ==
  /\ ~calm /\ calm' = TRUE
  /\ UNCHANGED <<world, stored, tick, job, drops>>

(* What a tick does when nothing interrupts it.                              *)
TickStep ==
  \/ TickStarts \/ TakeUp \/ SeasonFails \/ MarkUnarchivable
  \/ \E p \in Pairs : Choose(p) \/ Adopt(p) \/ AskRewards(p)
  \/ \E b \in Brackets : GetLeaderboard(b) \/ InsertSome(b) \/ InsertEntries(b) \/ RecordBracketFetch(b)
  \/ RecordSeason \/ RewardsStart \/ TickEnds

Next ==
  \/ \E r \in RegionSet : SeasonTurns(r) \/ Refresh(r)
  \/ TickStep \/ TickStops \/ (\E b \in Brackets : BracketFails(b))
  \/ MarkersDropped \/ Calms

Spec == Init /\ [][Next]_vars

(* The hourly tick and the daily refresh come back, and the time comes when  *)
(* nothing fails any more but the seasons that are not served.               *)
FairSpec ==
  /\ Spec
  /\ WF_vars(Calms) /\ WF_vars(TickStep)
  /\ \A r \in RegionSet : WF_vars(Refresh(r))

-----------------------------------------------------------------------------
(* A ladder is recorded as fetched only when all of it is stored, at every   *)
(* moment and wherever a tick breaks off: the record is what a later tick    *)
(* trusts (recordBracketFetch: "a crash mid-archive leaves an accurate       *)
(* partial record"); and every value is of its type.                         *)
FetchRecordIsTrue ==
  /\ TypeOK
  /\ \A p \in Pairs : \A b \in fetched[p] : rows[p][b] = Full(b)

(* A season that counts as complete has a fetch record, or at least rows, of *)
(* every ladder the upstream lists for it, through failures, pre-emption,    *)
(* crashes and lost markers; but for a season adopted while its ladders were *)
(* not listed.                                                               *)
CompleteMeansCovered ==
  \A p \in Pairs \ unlisted :
    Complete(p) /\ ~marker[p].gone =>
      \A b \in Published[p] : b \in fetched[p] \/ rows[p][b] # "none"

(* A ladder that was fetched and stored is never requested again: not by the *)
(* retry of a season that came back incomplete, nor after its marker is      *)
(* lost, nor when nobody is on it.                                           *)
NoLadderTwice ==
  [][\A b \in Brackets : job[b] = "waiting" /\ job'[b] = "answered" => b \notin fetched[tick.pair]]_vars

(* "A running season is never archived" (SKILLS.md): standings are stored    *)
(* only of a season that has ended, whatever the cached record says.  It     *)
(* holds when the upstream lists a season no earlier than it starts.         *)
OnlyFinishedSeasons ==
  [][\A p \in Pairs : rows'[p] # rows[p] => IsOver(p[1], p[2])]_vars

(* A finished season that is served is archived in the end and asked for its *)
(* rewards, although its ladders fail now and then, live work interrupts it, *)
(* and a season before it in the backlog fails every time.                   *)
BacklogIsWorkedOff ==
  <>[](\A p \in Served : IsOver(p[1], p[2]) => Settled(p) /\ marker[p].rewards # "none")

==============================================================================
