----------------------------- MODULE MplusSeasons -----------------------------
(***************************************************************************)
(* How a Mythic+ season runs its course (src/src/mplus-season/,            *)
(* src/src/mplus-archive/): the catalogue learns of it, passes write it    *)
(* while it is current, the archive reads its boards once it is over in    *)
(* every region, and a purge retires its live rows region by region once a *)
(* successor has opened and the archive holds the board.  The rows of a    *)
(* pair of season and region are abstracted to how much of them is there.  *)
(* Dates, once published, do not move.  A pass of several regions is taken *)
(* region by region: they share nothing.                                   *)
(***************************************************************************)
EXTENDS Integers, Sequences, FiniteSets, FiniteSetsExt

CONSTANTS
  Order,          \* RAIDERIO_REGIONS
  MaxSeason,      \* bound: the last season
  LastPhase,      \* bound: how far time goes in a region
  LastPassed,     \* bound: the last season that passes are followed of
  Boards,         \* the boards upstream may have: how long, or not served, by region
  RequireArchive  \* MPLUS_PURGE_REQUIRE_ARCHIVE

Regions == {Order[i] : i \in 1..Len(Order)}
Seasons == 1..MaxSeason
Pairs == Seasons \X Regions
None == 0
NoPair == <<>>

ASSUME SeasonsAssumption ==
  /\ Len(Order) > 0 /\ MaxSeason \in Nat \ {0} /\ {LastPhase, LastPassed} \subseteq Nat
  /\ Boards \subseteq [Regions -> {"full", "short", "unserved"}]
  /\ RequireArchive \in BOOLEAN

VARIABLES
  board,      \* fixed: whether a region's board fills every page the archive reads
  phase,      \* phase[r]: how many seasons have opened or ended in r since the first opened
  catalogue,  \* the seasons listed, and those whose ends are known in place of a placeholder
  live,       \* the pairs with live runs, and those with live characters
  pass,       \* the pass in progress
  marker,     \* marker[s]: the archive field of the season's document
  stored,     \* stored[p]: the archived rows of a pair
  tick,       \* the archive tick in progress
  purge,      \* the purge in progress
  retired,    \* the pairs recorded in mplus_season_transitions
  calm        \* nothing fails any more, and nothing comes before the archive

world == <<board, phase>>
archive == <<marker, stored, tick>>
retiring == <<purge, retired>>
vars == <<world, catalogue, live, pass, archive, retiring, calm>>

Entries == {"absent", "incomplete", "fetched", "adopted", "unserved"}
Amounts == {"none", "some", "all"}
NoEntries == [r \in Regions |-> "absent"]
NoMarker == [status |-> "none", regions |-> NoEntries]
NoRows == [runs |-> "none", characters |-> "none"]
NoPass == [at |-> "idle", pair |-> NoPair]
NoTick == [at |-> "idle", season |-> None, owed |-> {}, whole |-> FALSE, held |-> NoEntries, skip |-> {}]
NoPurge == [at |-> "idle", todo |-> {}, pair |-> NoPair]

TypeOK ==
  /\ board \in Boards /\ phase \in [Regions -> 0..LastPhase]
  /\ catalogue \in [listed : 0..MaxSeason, dated : SUBSET Seasons]
  /\ live \in [runs : SUBSET Pairs, characters : SUBSET Pairs]
  /\ pass \in [at : {"runs", "characters"}, pair : Pairs] \cup {NoPass}
  /\ marker \in [Seasons -> [status : {"none", "partial", "incomplete", "complete", "unarchivable"},
                             regions : [Regions -> Entries]]]
  /\ stored \in [Pairs -> [runs : Amounts, characters : Amounts]]
  /\ tick \in [at : {"head", "region", "characters"}, season : Seasons \cup {None}, owed : SUBSET Regions,
               whole : BOOLEAN, held : [Regions -> Entries], skip : SUBSET Seasons] \cup {NoTick}
  /\ purge \in [at : {"pairs"}, todo : SUBSET Pairs, pair : Pairs \cup {NoPair}] \cup {NoPurge}
  /\ retired \subseteq Pairs /\ calm \in BOOLEAN

Init ==
  /\ board \in Boards /\ phase = [r \in Regions |-> 0]
  /\ catalogue = [listed |-> 0, dated |-> {}]
  /\ live = [runs |-> {}, characters |-> {}] /\ pass = NoPass
  /\ marker = [s \in Seasons |-> NoMarker] /\ stored = [p \in Pairs |-> NoRows] /\ tick = NoTick
  /\ purge = NoPurge /\ retired = {} /\ calm = FALSE

-----------------------------------------------------------------------------
(* Seasons and their catalogue.                                              *)

Opened(s, r) == phase[r] >= 2 * s - 2
Ended(s, r) == phase[r] >= 2 * s - 1

(* A region has its seasons one after the other, in its own time.            *)
TimePasses(r) ==
  /\ phase[r] < LastPhase /\ phase' = [phase EXCEPT ![r] = @ + 1]
  /\ UNCHANGED <<board, catalogue, live, pass, archive, retiring, calm>>

Listed == 1..catalogue.listed

(* A faulty Catalogued that replaces the document.                           *)
CataloguedAnew(s) ==
  /\ catalogue' \in {[listed |-> Max({s, catalogue.listed}), dated |-> dated] :
                       dated \in {catalogue.dated, catalogue.dated \cup {s}}}
  /\ marker' = [marker EXCEPT ![s] = NoMarker]

(* upsertSeasons: the fields of the catalogue only.                          *)
Catalogued(s) ==
  /\ catalogue' \in {[listed |-> Max({s, catalogue.listed}), dated |-> dated] :
                       dated \in {catalogue.dated, catalogue.dated \cup {s}}}
  /\ UNCHANGED marker

(* A walk reads the next expansion that is due: a season is listed with its  *)
(* starts, its ends published at once or later.  It may fail at any of them. *)
Walk(s) ==
  /\ s <= catalogue.listed + 1
  /\ Catalogued(s)
  /\ UNCHANGED <<world, live, pass, stored, tick, retiring, calm>>

(* currentSeasonIn: the latest catalogued season to have opened there.       *)
CurrentSeasonIn(r) == Max({s \in Listed : Opened(s, r)} \cup {None})

(* resolveRegions: a region where none has opened is left out.               *)
Resolution == [r \in {q \in Regions : CurrentSeasonIn(q) # None} |-> CurrentSeasonIn(r)]

(* A faulty IsFinished that looks at the first region to end.                *)
IsFinishedSomewhere(s) == s \in catalogue.dated /\ \E r \in Regions : Ended(s, r)

(* Every end the season lists has passed; a placeholder has not.             *)
IsFinished(s) == s \in catalogue.dated /\ \A r \in Regions : Ended(s, r)

-----------------------------------------------------------------------------
(* A pass, of one region.                                                    *)

(* The season is resolved once, when the pass begins.                        *)
PassStarts(r) ==
  /\ pass = NoPass /\ ~calm
  /\ r \in DOMAIN Resolution /\ Resolution[r] <= LastPassed
  /\ pass' = [at |-> "runs", pair |-> <<Resolution[r], r>>]
  /\ UNCHANGED <<world, catalogue, live, archive, retiring, calm>>

PassRuns ==
  /\ pass.at = "runs" /\ pass' = [pass EXCEPT !.at = "characters"]
  /\ live' = [live EXCEPT !.runs = @ \cup {pass.pair}]
  /\ UNCHANGED <<world, catalogue, archive, retiring, calm>>

PassCharacters ==
  /\ pass.at = "characters" /\ pass' = NoPass
  /\ live' = [live EXCEPT !.characters = @ \cup {pass.pair}]
  /\ UNCHANGED <<world, catalogue, archive, retiring, calm>>

PassFails ==
  /\ pass # NoPass /\ ~calm /\ pass' = NoPass
  /\ UNCHANGED <<world, catalogue, live, archive, retiring, calm>>

-----------------------------------------------------------------------------
(* The archive.                                                              *)

(* A faulty Held for which only rows count.                                  *)
HeldWithRows(entry) == entry \in {"fetched", "adopted"}

Held(entry) == entry \in {"fetched", "adopted", "unserved"}
RegionsOwed(s) == {r \in Regions : ~Held(marker[s].regions[r])}
PendingSeasons ==
  {s \in Listed : IsFinished(s) /\ marker[s].status # "unarchivable" /\ RegionsOwed(s) # {}}

MarkerOf(held, interrupted) ==
  [status |-> IF interrupted THEN "partial"
              ELSE IF \E r \in Regions : held[r] = "incomplete" THEN "incomplete"
              ELSE IF \A r \in Regions : Held(held[r]) THEN "complete" ELSE "partial",
   regions |-> held]

(* A tick that finds nothing pending does nothing.                           *)
TickStarts ==
  /\ tick = NoTick /\ PendingSeasons # {}
  /\ tick' = [NoTick EXCEPT !.at = "head"]
  /\ UNCHANGED <<world, catalogue, live, pass, marker, stored, retiring, calm>>

(* The newest season owed that has not failed in this tick.                  *)
ArchiveSeason ==
  /\ tick.at = "head" /\ pass = NoPass
  /\ PendingSeasons \ tick.skip # {}
  /\ LET s == Max(PendingSeasons \ tick.skip)
     IN  tick' = [tick EXCEPT !.at = "region", !.season = s, !.owed = RegionsOwed(s),
                              !.held = marker[s].regions]
  /\ UNCHANGED <<world, catalogue, live, pass, marker, stored, retiring, calm>>

(* A faulty TickEnds that goes on setting aside what failed in it.           *)
TickEndsSkipping ==
  /\ tick.at = "head" /\ PendingSeasons \ tick.skip = {}
  /\ tick' = [NoTick EXCEPT !.skip = tick.skip]
  /\ UNCHANGED <<world, catalogue, live, pass, marker, stored, retiring, calm>>

TickEnds ==
  /\ tick.at = "head" /\ PendingSeasons \ tick.skip = {}
  /\ tick' = NoTick
  /\ UNCHANGED <<world, catalogue, live, pass, marker, stored, retiring, calm>>

(* The region whose turn it is.                                              *)
Region == Order[Min({i \in 1..Len(Order) : Order[i] \in tick.owed})]
Pair == <<tick.season, Region>>
HoldsAnything == \E r \in Regions : tick.held[r] # "absent"
Settle(entry) == [tick EXCEPT !.at = "region", !.owed = @ \ {Region}, !.held[Region] = entry]

(* A faulty Adopted that goes by the rows there are.                         *)
AdoptedByPresence == marker[tick.season].status = "none" /\ stored[Pair].runs # "none"

(* adoptStoredRegion: without a marker, rows that fill every page read, and  *)
(* some character of them, are taken for a full read.                        *)
Adopted ==
  /\ marker[tick.season].status = "none"
  /\ board[Region] = "full" /\ stored[Pair].runs = "all" /\ stored[Pair].characters # "none"

AdoptStoredRegion ==
  /\ tick.at = "region" /\ tick.owed # {} /\ Adopted
  /\ tick' = Settle("adopted")
  /\ UNCHANGED <<world, catalogue, live, pass, marker, stored, retiring, calm>>

(* fetchRegion: nothing above the archive runs.                              *)
MayFetch == tick.at = "region" /\ tick.owed # {} /\ ~Adopted /\ pass = NoPass

(* The first page is answered 404: of the season while nothing of it is      *)
(* held, of the region's board otherwise.                                    *)
NotFound ==
  /\ MayFetch /\ board[Region] = "unserved"
  /\ IF HoldsAnything
       THEN tick' = Settle("unserved") /\ UNCHANGED marker
       ELSE /\ marker' = [marker EXCEPT ![tick.season] = [NoMarker EXCEPT !.status = "unarchivable"]]
            /\ tick' = [NoTick EXCEPT !.at = "head", !.skip = tick.skip]
  /\ UNCHANGED <<world, catalogue, live, pass, stored, retiring, calm>>

(* Some pages are written over what is there.                                *)
More(amount) == IF amount = "none" THEN {"none", "some"} ELSE {amount, "all"}

(* The runs, batch by batch to the end of the board, each page or all but    *)
(* some that failed.                                                         *)
UpsertRuns(whole) ==
  /\ MayFetch /\ board[Region] # "unserved" /\ (calm => whole)
  /\ \E amount \in IF whole THEN {"all"} ELSE More(stored[Pair].runs) :
       stored' = [stored EXCEPT ![Pair].runs = amount]
  /\ tick' = [tick EXCEPT !.at = "characters", !.whole = whole]
  /\ UNCHANGED <<world, catalogue, live, pass, marker, retiring, calm>>

(* The characters, folded from the pages read, over what is there.           *)
UpsertCharacters ==
  /\ tick.at = "characters"
  /\ \E amount \in IF tick.whole THEN {"all"} ELSE {"some", stored[Pair].characters} :
       stored' = [stored EXCEPT ![Pair].characters = amount]
  /\ tick' = Settle(IF tick.whole THEN "fetched" ELSE "incomplete")
  /\ UNCHANGED <<world, catalogue, live, pass, marker, retiring, calm>>

(* Every region owed has been read; the marker after the rows.               *)
RecordArchive ==
  /\ tick.at = "region" /\ tick.owed = {}
  /\ LET record == MarkerOf(tick.held, FALSE)
     IN  /\ marker' = [marker EXCEPT ![tick.season] = record]
         /\ tick' = [NoTick EXCEPT !.at = "head", !.skip = IF record.status = "incomplete"
                                                  THEN tick.skip \cup {tick.season} ELSE tick.skip]
  /\ UNCHANGED <<world, catalogue, live, pass, stored, retiring, calm>>

(* Part of a region's rows has been written when the tick comes to an end.   *)
Begun ==
  \/ UNCHANGED stored
  \/ /\ MayFetch /\ board[Region] # "unserved"
     /\ \E amount \in More(stored[Pair].runs) : stored' = [stored EXCEPT ![Pair].runs = amount]

(* A job above it has started, or its share of the minute is spent: what has *)
(* been read of the other regions is recorded.                               *)
TickYields ==
  /\ ~calm /\ \/ tick.at = "head" /\ UNCHANGED <<marker, stored>>
              \/ /\ tick.at = "region" /\ tick.owed # {} /\ ~Adopted /\ Begun
                 /\ IF tick.held = marker[tick.season].regions THEN UNCHANGED marker
                    ELSE marker' = [marker EXCEPT ![tick.season] = MarkerOf(tick.held, TRUE)]
  /\ tick' = NoTick
  /\ UNCHANGED <<world, catalogue, live, pass, retiring, calm>>

(* A write fails, or the process stops.                                      *)
TickFails ==
  /\ tick # NoTick /\ ~calm /\ tick' = NoTick
  /\ \/ Begun
     \/ tick.at = "characters" /\ stored' = [stored EXCEPT ![Pair].characters = "some"]
  /\ UNCHANGED <<world, catalogue, live, pass, marker, retiring, calm>>

-----------------------------------------------------------------------------
(* The purge.                                                                *)

(* isArchiveSettled: of one region.                                          *)
IsArchiveSettled(s, r) == marker[s].status = "unarchivable" \/ Held(marker[s].regions[r])

(* A faulty Superseded: over where another season is current.                *)
SupersededOnceEnded(s, r) == s \in Listed /\ Ended(s, r)

(* supersededSeasons: one that opened before the current season of the       *)
(* region, or that is not in the catalogue.                                  *)
Superseded(s, r) ==
  /\ r \in DOMAIN Resolution
  /\ s < Resolution[r] \/ s \notin Listed

(* A faulty Permitted that leaves the pass to the scheduler.                 *)
PermittedBesidePass == catalogue.listed > 0

Permitted == catalogue.listed > 0 /\ pass = NoPass

Candidates ==
  {p \in Pairs : /\ Superseded(p[1], p[2])
                 /\ (p[1] \in Listed /\ RequireArchive) => IsArchiveSettled(p[1], p[2])}

HasRows(p) == p \in live.runs \cup live.characters

PlanPurge ==
  /\ purge = NoPurge /\ Permitted
  /\ \E p \in Candidates : HasRows(p)
  /\ purge' = [NoPurge EXCEPT !.at = "pairs", !.todo = {p \in Candidates : HasRows(p)}]
  /\ UNCHANGED <<world, catalogue, live, pass, archive, retired, calm>>

(* A faulty order of purge.                                                  *)
RunsFirst == <<"runs", "characters">>

(* The order in which purge empties the collections of a pair.               *)
Collections == <<"characters", "runs">>

PurgeBegins(p) ==
  /\ p \in purge.todo /\ purge.pair = NoPair
  /\ live' = [live EXCEPT ![Collections[1]] = @ \ {p}]
  /\ purge' = [purge EXCEPT !.pair = p, !.todo = @ \ {p}]
  /\ UNCHANGED <<world, catalogue, pass, archive, retired, calm>>

(* The second collection, and the record.                                    *)
PurgeCompletes ==
  /\ purge.pair # NoPair
  /\ live' = [live EXCEPT ![Collections[2]] = @ \ {purge.pair}]
  /\ retired' = retired \cup {purge.pair}
  /\ purge' = IF purge.todo = {} THEN NoPurge ELSE [purge EXCEPT !.pair = NoPair]
  /\ UNCHANGED <<world, catalogue, pass, archive, calm>>

PurgeFails ==
  /\ purge # NoPurge /\ ~calm /\ purge' = NoPurge
  /\ UNCHANGED <<world, catalogue, live, pass, archive, retired, calm>>

-----------------------------------------------------------------------------
Calms ==
  /\ ~calm /\ calm' = TRUE
  /\ UNCHANGED <<world, catalogue, live, pass, archive, retiring>>

Next ==
  \/ \E r \in Regions : TimePasses(r) \/ PassStarts(r)
  \/ \E s \in Seasons : Walk(s)
  \/ PassRuns \/ PassCharacters \/ PassFails
  \/ TickStarts \/ ArchiveSeason \/ TickEnds \/ AdoptStoredRegion \/ NotFound
  \/ (\E whole \in BOOLEAN : UpsertRuns(whole)) \/ UpsertCharacters \/ RecordArchive
  \/ TickYields \/ TickFails
  \/ PlanPurge \/ (\E p \in Pairs : PurgeBegins(p)) \/ PurgeCompletes \/ PurgeFails
  \/ Calms

Spec == Init /\ [][Next]_vars

(* What goes on of itself: a pass begun, a tick with something to read, and  *)
(* a purge with something to retire.                                         *)
Progress ==
  \/ PassRuns \/ PassCharacters
  \/ TickStarts \/ ArchiveSeason \/ TickEnds \/ AdoptStoredRegion \/ NotFound
  \/ UpsertRuns(TRUE) \/ UpsertCharacters \/ RecordArchive
  \/ PlanPurge \/ (\E p \in Pairs : PurgeBegins(p)) \/ PurgeCompletes

FairSpec == Spec /\ WF_vars(Progress) /\ WF_vars(Calms)

-----------------------------------------------------------------------------
(* What the archive's marker says of a region is true: one held as read has  *)
(* every run of its board and every character of them; one adopted has at    *)
(* least every run.  The process may have stopped between any two writes.    *)
(* And every value is of its type.                                           *)
MarkerIsTrue ==
  /\ TypeOK
  /\ \A s \in Seasons, r \in Regions :
       /\ marker[s].regions[r] = "fetched" => stored[<<s, r>>] = [runs |-> "all", characters |-> "all"]
       /\ marker[s].regions[r] = "adopted" => stored[<<s, r>>].runs = "all"

(* No season is archived while a region still plays it; and what is held of  *)
(* a region is not read again nor forgotten, whatever walks of the catalogue *)
(* write of the season meanwhile.                                            *)
ReadOnceWhenOver ==
  [][\A p \in Pairs : LET entry == marker[p[1]].regions[p[2]] IN
       /\ stored'[p] # stored[p] => \A r \in Regions : Ended(p[1], r)
       /\ Held(entry) => stored'[p] = stored[p] /\ marker'[p[1]].regions[p[2]] = entry]_vars

(* A purge takes a board only where its successor has opened, and only with  *)
(* its runs in the archive, unless they are not to be had.                   *)
RetiredIsArchived ==
  [][\A p \in Pairs : p \in live.runs /\ p \notin live'.runs =>
       /\ Opened(p[1] + 1, p[2])
       /\ \/ stored[p].runs = "all" \/ ~RequireArchive
          \/ marker[p[1]].regions[p[2]] = "unserved" \/ marker[p[1]].status = "unarchivable"]_vars

(* Every live character is of a pair with live runs (I18), at every moment   *)
(* of a pass and of a purge, and after either has been cut short.            *)
OnlyNamedCharacters == live.characters \subseteq live.runs

(* A board that has been retired does not come back.                         *)
RetiredForGood == \A p \in retired : ~HasRows(p)

(* Left alone, the archive and the purge between them leave no row of a      *)
(* finished season that another has succeeded.                               *)
SupersededGo ==
  <>[](\A p \in Pairs : HasRows(p) /\ Superseded(p[1], p[2]) => ~IsFinished(p[1]))

==============================================================================
