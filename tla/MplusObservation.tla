--------------------------- MODULE MplusObservation ---------------------------
(***************************************************************************)
(* How a region's current Mythic+ season is observed                       *)
(* (mplus-season/mplus-season.service.ts): the hourly check and every live *)
(* pass resolve it from the catalogue, compare it with what was observed   *)
(* last, save it and announce what changed.  The dates in the catalogue    *)
(* decide: a season opens, ends, or is put off again by a correction.      *)
(* Seasons are numbered by their starts; regions share nothing.            *)
(***************************************************************************)
EXTENDS Integers

CONSTANTS
  Watchers,   \* callers of observe
  LastSeason  \* bound: the last season to open

ASSUME ObservationAssumption == LastSeason \in Nat \ {0}

NoSeason == [season |-> 0, ended |-> FALSE]
Observed == [season : 1..LastSeason, ended : BOOLEAN]

VARIABLES
  current,    \* what the catalogue and the time of day resolve to
  running,    \* the process is up
  observed,   \* MplusSeasonService.observed
  kept,       \* the mplus_season_state document
  watcher,    \* watcher[w]: an observe in progress
  announced,  \* history: the first season ever observed, and the rollovers published
  cut         \* history: seasons whose observe was cut off once in memory

upstream == <<current, running>>
watchVars == <<upstream, observed, kept, watcher, announced, cut>>

Resting == [at |-> "idle", seen |-> NoSeason, previous |-> NoSeason]
WatcherAt(w, place) == watcher[w].at = place

WatchTypeOK ==
  /\ current \in Observed /\ running \in BOOLEAN
  /\ {observed, kept} \subseteq Observed \cup {NoSeason}
  /\ watcher \in [Watchers -> [at : {"idle", "resolved", "saving", "saved"}, seen : Observed \cup {NoSeason},
                               previous : Observed \cup {NoSeason}]]
  /\ announced \cup cut \subseteq 1..LastSeason

WatchInit ==
  /\ current = [season |-> 1, ended |-> FALSE] /\ running = TRUE
  /\ observed = NoSeason /\ kept = NoSeason
  /\ watcher = [w \in Watchers |-> Resting]
  /\ announced = {} /\ cut = {}

(* A season ends, the next one opens, or one that has opened is put off: its *)
(* start moves into the future, and the season before it is current again.   *)
DatesMove ==
  /\ \/ ~current.ended /\ current' = [current EXCEPT !.ended = TRUE]
     \/ current.season < LastSeason /\ current' = [season |-> current.season + 1, ended |-> FALSE]
     \/ current.season > 1 /\ current' = [season |-> current.season - 1, ended |-> TRUE]
  /\ UNCHANGED <<running, observed, kept, watcher, announced, cut>>

(* resolve: the catalogue is read, if a season can be resolved at all.       *)
Resolve(w) ==
  /\ running /\ WatcherAt(w, "idle")
  /\ watcher' = [watcher EXCEPT ![w] = [Resting EXCEPT !.at = "resolved", !.seen = current]]
  /\ UNCHANGED <<upstream, observed, kept, announced, cut>>

(* isSameObservation.                                                        *)
IsSameObservation(left, right) == left = right

(* Memory is set before the state is saved, and that before it is announced. *)
Compare(w) ==
  /\ WatcherAt(w, "resolved")
  /\ IF IsSameObservation(observed, watcher[w].seen)
       THEN watcher' = [watcher EXCEPT ![w] = Resting] /\ UNCHANGED <<observed, announced>>
       ELSE /\ watcher' = [watcher EXCEPT ![w] = [@ EXCEPT !.at = "saving", !.previous = observed]]
            /\ observed' = watcher[w].seen
            /\ announced' = IF {observed, kept} = {NoSeason} THEN announced \cup {watcher[w].seen.season} ELSE announced
  /\ UNCHANGED <<upstream, kept, cut>>

Save(w) ==
  /\ WatcherAt(w, "saving")
  /\ kept' = watcher[w].seen /\ watcher' = [watcher EXCEPT ![w].at = "saved"]
  /\ UNCHANGED <<upstream, observed, announced, cut>>

(* The save throws: the check logs it, the pass fails.                       *)
SaveFails(w) ==
  /\ WatcherAt(w, "saving") /\ watcher' = [watcher EXCEPT ![w] = Resting]
  /\ cut' = cut \cup {watcher[w].seen.season}
  /\ UNCHANGED <<upstream, observed, kept, announced>>

(* A season back to one that started earlier is a correction, and announced  *)
(* to nobody; the first season ever is only logged.                          *)
IsRollover(previous, next) == previous # NoSeason /\ previous.season < next.season

AnnounceSeason(w) ==
  /\ WatcherAt(w, "saved") /\ watcher' = [watcher EXCEPT ![w] = Resting]
  /\ LET seen == watcher[w].seen
     IN  announced' = IF IsRollover(watcher[w].previous, seen)
                        THEN announced \cup {seen.season} ELSE announced
  /\ UNCHANGED <<upstream, observed, kept, cut>>

WatchStops ==
  /\ running /\ running' = FALSE /\ observed' = NoSeason
  /\ cut' = cut \cup {watcher[w].seen.season : w \in {v \in Watchers : watcher[v].at \in {"saving", "saved"}}}
  /\ watcher' = [w \in Watchers |-> Resting]
  /\ UNCHANGED <<current, kept, announced>>

(* A faulty boot that starts from an empty memory.                           *)
WatchBootsEmpty ==
  /\ ~running /\ running' = TRUE
  /\ UNCHANGED <<current, observed, kept, watcher, announced, cut>>

(* onModuleInit: what was observed before the process stopped.               *)
WatchBoots ==
  /\ ~running /\ running' = TRUE /\ observed' = kept
  /\ UNCHANGED <<current, kept, watcher, announced, cut>>

WatchNext ==
  \/ DatesMove \/ WatchStops \/ WatchBoots
  \/ \E w \in Watchers : Resolve(w) \/ Compare(w) \/ Save(w) \/ SaveFails(w) \/ AnnounceSeason(w)

WatchSpec == WatchInit /\ [][WatchNext]_watchVars

(* No season opens unheard: whenever no observe is in progress, the season   *)
(* in memory, or a later one that a correction has put off, was published as *)
(* a rollover or was the first ever observed, by this run of the process or  *)
(* an earlier one, unless the observe that met it was cut off; whichever of  *)
(* two observes that overlap read the catalogue first (mplus-season.service  *)
(* .ts:78-81, 143-175).  Every value is of its type.                         *)
OpeningIsHeard ==
  /\ WatchTypeOK
  /\ (\A w \in Watchers : WatcherAt(w, "idle")) /\ observed # NoSeason =>
       \E s \in announced \cup cut : observed.season <= s
===============================================================================
