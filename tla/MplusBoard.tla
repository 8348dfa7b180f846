------------------------------ MODULE MplusBoard ------------------------------
(***************************************************************************)
(* The live Mythic+ board of one season in one region (src/src/mplus/,     *)
(* src/src/sync/mplus-character-sync.service.ts): the hourly pass reads    *)
(* the leaderboard page by page into run documents, folds each character's *)
(* best runs, merges them into what is stored and prunes what fell off;    *)
(* the sync endpoint merges pushed runs into a character.  Regions share   *)
(* nothing but their order within the pass.  A character's document is its *)
(* best score in each dungeon: mythicScore and dungeonsCovered are derived *)
(* from those at every write.                                              *)
(***************************************************************************)
EXTENDS Integers, FiniteSets, FiniteSetsExt

CONSTANTS
  Runs,        \* the runs that are ever on the board
  Dungeons,
  RosterOf,    \* rosterKeys: the characters of a run that are not anonymised
  DungeonOf,
  ScoreOf,
  Pushed,      \* what a push may carry: scores by dungeon
  MaxScore     \* bound: the best score

(* rosterKeys: a run names its characters that are not anonymised.           *)
NamedIn(some) == UNION {RosterOf[r] : r \in some}

Characters == NamedIn(Runs)
Scores == [Dungeons -> 0..MaxScore]
NoRuns == [d \in Dungeons |-> 0]

ASSUME BoardAssumption ==
  /\ MaxScore \in Nat /\ ScoreOf \in [Runs -> 1..MaxScore] /\ DungeonOf \in [Runs -> Dungeons]
  /\ Pushed \subseteq Scores /\ Characters # {}

VARIABLES
  runs,        \* the runs stored
  missed,      \* those with a missedSince
  characters,  \* the characters stored
  best,        \* dungeonRuns: the best score held in each dungeon, 0 for none
  pass,        \* the pass in progress; what the last one read, once it is done
  push,        \* the sync request in progress
  misses       \* history: the clean passes in a row that did not read a run, up to two

board == <<runs, missed>>
ladder == <<characters, best>>
vars == <<board, ladder, pass, push, misses>>

NoPass == [at |-> "idle", seen |-> {}, fetched |-> FALSE, clean |-> FALSE, todo |-> {},
           chunk |-> {}, held |-> [c \in Characters |-> NoRuns], keys |-> {}, met |-> FALSE]
NoPush == [at |-> "idle", key |-> CHOOSE c \in Characters : TRUE, incoming |-> NoRuns,
           held |-> NoRuns, met |-> FALSE]

Stages == {"pages", "characters", "merge", "prune", "mark", "keys", "orphans"}
PassActive == pass.at \in Stages

TypeOK ==
  /\ runs \subseteq Runs /\ missed \subseteq runs
  /\ characters \subseteq Characters /\ best \in [Characters -> Scores]
  /\ \A c \in Characters \ characters : best[c] = NoRuns
  /\ pass \in [at : Stages \cup {"idle", "done"}, seen : SUBSET Runs, fetched : BOOLEAN,
               clean : BOOLEAN, todo : SUBSET Characters, chunk : SUBSET Characters,
               held : [Characters -> Scores], keys : SUBSET Characters, met : BOOLEAN]
  /\ push \in [at : {"idle", "admitted", "read"}, key : Characters, incoming : Pushed \cup {NoRuns},
               held : Scores, met : BOOLEAN]
  /\ misses \in [Runs -> 0..2]

Init ==
  /\ runs = {} /\ missed = {} /\ characters = {} /\ best = [c \in Characters |-> NoRuns]
  /\ pass = NoPass /\ push = NoPush /\ misses = [r \in Runs |-> 0]

-----------------------------------------------------------------------------
(* What is computed of the runs.                                             *)

(* A faulty accumulator that keeps the run it comes to last: the lowest.     *)
CountedLast(c) ==
  [d \in Dungeons |->
     LET mine == {ScoreOf[r] : r \in {q \in pass.seen : c \in RosterOf[q] /\ DungeonOf[q] = d}}
     IN  IF mine = {} THEN 0 ELSE Min(mine)]

(* MplusCharacterAccumulator: the best of the runs that the pass has read.   *)
Counted(c) ==
  [d \in Dungeons |->
     Max({0} \cup {ScoreOf[r] : r \in {q \in pass.seen : c \in RosterOf[q] /\ DungeonOf[q] = d}})]

(* A faulty merge that clamps nothing: the scores that arrive are the scores.*)
Overwritten(stored, incoming) == incoming

(* mergeDungeonRuns: the better run of each dungeon, a tie keeping the stored.*)
MergeDungeonRuns(stored, incoming) ==
  [d \in Dungeons |-> IF stored[d] >= incoming[d] THEN stored[d] ELSE incoming[d]]

-----------------------------------------------------------------------------
(* What is written.                                                          *)

(* A faulty upsertRuns that leaves the mark on a run it reads again.         *)
UpsertKeepingMark(found) == runs' = runs \cup found /\ missed' = missed

(* upsertRuns: seen again, a run is no longer on its way out.                *)
UpsertRuns(found) == runs' = runs \cup found /\ missed' = missed \ found

(* upsertCharacters, of those whose write lands: read, merged, written.      *)
UpsertCharacters(chunk) ==
  /\ characters' = characters \cup chunk
  /\ best' = [c \in Characters |->
                IF c \in chunk THEN MergeDungeonRuns(pass.held[c], Counted(c)) ELSE best[c]]

(* pruneStaleRuns: not refreshed by this pass, and marked by an earlier one. *)
Fallen == (runs \ pass.seen) \cap missed
RemoveRuns(gone) == runs' = runs \ gone /\ missed' = missed \ gone
MarkMissed(stale) == missed' = missed \cup stale /\ UNCHANGED runs

RemoveCharacters(gone) ==
  /\ characters' = characters \ gone
  /\ best' = [c \in Characters |-> IF c \in gone THEN NoRuns ELSE best[c]]

-----------------------------------------------------------------------------
(* The pass over the region.                                                 *)

(* One at a time.  A request admitted before it goes on beside it.           *)
PassStarts ==
  /\ ~PassActive
  /\ pass' = [NoPass EXCEPT !.at = "pages", !.clean = TRUE, !.met = (push.at # "idle")]
  /\ push' = [push EXCEPT !.met = (push.at # "idle")]
  /\ UNCHANGED <<board, ladder, misses>>

(* A batch of pages: what the board shows at the moment each is read, which  *)
(* is any part of it, for it shifts under the pass.  A page may be empty,    *)
(* may be past the end (no answer and no failure), or may fail.              *)
ReadBatch ==
  /\ pass.at = "pages"
  /\ \E found \in SUBSET (Runs \ pass.seen), answered \in BOOLEAN, failed \in BOOLEAN :
       /\ found # {} => answered
       /\ UpsertRuns(found)
       /\ pass' = [pass EXCEPT !.seen = @ \cup found, !.fetched = @ \/ answered, !.clean = @ /\ ~failed]
       /\ misses' = [r \in Runs |-> IF r \in found THEN 0 ELSE misses[r]]
  /\ UNCHANGED <<ladder, push>>

(* The pages end, or the pass stops early: no budget, or live ingestion.     *)
PagesEnd ==
  /\ pass.at = "pages"
  /\ \E stopped \in BOOLEAN :
       LET clean == pass.clean /\ ~stopped
       IN  /\ pass' = [pass EXCEPT !.at = "characters", !.clean = clean,
                                   !.todo = NamedIn(pass.seen)]
           /\ misses' = IF ~clean \/ pass.seen = {} THEN misses
                        ELSE [r \in Runs |-> IF r \in pass.seen \/ misses[r] = 2 THEN misses[r]
                                                                           ELSE misses[r] + 1]
  /\ UNCHANGED <<board, ladder, push>>

(* storedFor: what a chunk of the characters holds now.                      *)
ReadChunk ==
  /\ pass.at = "characters"
  /\ \E chunk \in SUBSET pass.todo \ {{}} :
       pass' = [pass EXCEPT !.at = "merge", !.chunk = chunk,
                            !.held = [c \in Characters |-> IF c \in chunk THEN best[c] ELSE NoRuns]]
  /\ UNCHANGED <<board, ladder, push, misses>>

WriteChunk ==
  /\ pass.at = "merge" /\ UpsertCharacters(pass.chunk)
  /\ pass' = [pass EXCEPT !.at = "characters", !.todo = @ \ pass.chunk, !.chunk = {}, !.held = NoPass.held]
  /\ UNCHANGED <<board, push, misses>>

(* A faulty condition that prunes after any pass that read something.        *)
PrunesAnyway == pass.fetched /\ pass.seen # {}

(* Only after a clean pass, and an empty board beside stored runs is none.   *)
Prunes == pass.clean /\ pass.fetched /\ ~(pass.seen = {} /\ runs # {})

CharactersEnd ==
  /\ pass.at = "characters" /\ pass.todo = {}
  /\ pass' = [pass EXCEPT !.at = IF Prunes THEN "prune" ELSE "done"]
  /\ UNCHANGED <<board, ladder, push, misses>>

(* The first stage refuses when the pass refreshed nothing.                  *)
PruneRuns ==
  /\ pass.at = "prune"
  /\ IF pass.seen = {} THEN /\ pass' = [pass EXCEPT !.at = "keys"] /\ UNCHANGED board
                       ELSE /\ pass' = [pass EXCEPT !.at = "mark"] /\ RemoveRuns(Fallen)
  /\ UNCHANGED <<ladder, push, misses>>

MarkRuns ==
  /\ pass.at = "mark" /\ MarkMissed(runs \ pass.seen)
  /\ pass' = [pass EXCEPT !.at = "keys"]
  /\ UNCHANGED <<ladder, push, misses>>

(* liveRosterKeys: the second stage refuses when no run names anybody.       *)
ReadLiveKeys ==
  /\ pass.at = "keys"
  /\ LET keys == NamedIn(runs)
     IN  pass' = [pass EXCEPT !.at = IF keys = {} THEN "done" ELSE "orphans", !.keys = keys]
  /\ UNCHANGED <<board, ladder, push, misses>>

RemoveOrphans ==
  /\ pass.at = "orphans" /\ RemoveCharacters(characters \ pass.keys)
  /\ pass' = [pass EXCEPT !.at = "done", !.keys = {}]
  /\ UNCHANGED <<board, push, misses>>

(* A request or a write throws, or the process stops, with any part of the   *)
(* write under way done.  Nothing is resumed: the next pass begins anew.     *)
PassFails ==
  /\ PassActive
  /\ \/ pass.at = "pages" /\ \E part \in SUBSET Runs :
          /\ UpsertRuns(part) /\ misses' = [r \in Runs |-> IF r \in part THEN 0 ELSE misses[r]]
          /\ UNCHANGED ladder
     \/ /\ pass.at = "merge" /\ \E part \in SUBSET pass.chunk : UpsertCharacters(part)
        /\ UNCHANGED <<board, misses>>
     \/ pass.at = "prune" /\ (\E part \in SUBSET Fallen : RemoveRuns(part)) /\ UNCHANGED <<ladder, misses>>
     \/ pass.at = "mark" /\ (\E part \in SUBSET (runs \ pass.seen) : MarkMissed(part)) /\ UNCHANGED <<ladder, misses>>
     \/ /\ pass.at = "orphans" /\ \E part \in SUBSET (characters \ pass.keys) : RemoveCharacters(part)
        /\ UNCHANGED <<board, misses>>
     \/ pass.at \in {"characters", "keys"} /\ UNCHANGED <<board, ladder, misses>>
  /\ pass' = NoPass /\ UNCHANGED push

-----------------------------------------------------------------------------
(* The sync endpoint.                                                        *)

(* Refused with 409 while a pass is active, which is asked once; dungeons    *)
(* that the season does not list are refused.                                *)
PushStarts ==
  /\ push.at = "idle" /\ ~PassActive
  /\ \E c \in Characters, incoming \in Pushed :
       push' = [NoPush EXCEPT !.at = "admitted", !.key = c, !.incoming = incoming]
  /\ UNCHANGED <<board, ladder, pass, misses>>

(* A character that is not stored is never inserted: 404.                    *)
PushReads ==
  /\ push.at = "admitted"
  /\ push' = IF push.key \in characters THEN [push EXCEPT !.at = "read", !.held = best[push.key]] ELSE NoPush
  /\ UNCHANGED <<board, ladder, pass, misses>>

PushWrites ==
  /\ push.at = "read"
  /\ best' = [c \in Characters |-> IF c = push.key /\ c \in characters
                                   THEN MergeDungeonRuns(push.held, push.incoming) ELSE best[c]]
  /\ push' = NoPush /\ UNCHANGED <<board, characters, pass, misses>>

PushFails == push.at # "idle" /\ push' = NoPush /\ UNCHANGED <<board, ladder, pass, misses>>

-----------------------------------------------------------------------------
Next ==
  \/ PassStarts \/ ReadBatch \/ PagesEnd \/ ReadChunk \/ WriteChunk \/ CharactersEnd
  \/ PruneRuns \/ MarkRuns \/ ReadLiveKeys \/ RemoveOrphans \/ PassFails
  \/ PushStarts \/ PushReads \/ PushWrites \/ PushFails

Spec == Init /\ [][Next]_vars

(* A run leaves the store only when two clean passes in a row have not read  *)
(* it, whatever failed in between: one board that shifted under a pass, a    *)
(* page that failed or a region that answered nothing costs no run           *)
(* (mplus.repository.ts:232-292).                                            *)
RunsKept == [][\A r \in runs \ runs' : misses[r] = 2]_vars

(* The score of a character that stays never falls in any dungeon, though    *)
(* its runs leave the board, passes break off and pushes carry less: unless  *)
(* the write is of a push and a pass that overlap, each read before the      *)
(* other wrote (mplus.mapper.ts:138-158).                                    *)
ScoreNeverFalls ==
  [][\A c \in characters \cap characters' :
       (\E d \in Dungeons : best'[c][d] < best[c][d]) => pass.met \/ push.met]_vars

(* Once a pass is done, what it read is stored and counted: a run it read is *)
(* in the score of every one of its characters.  After a clean pass, too, a  *)
(* run it did not read is on its way out, and every character stored is one  *)
(* of a run stored (mplus.repository.ts:297-328, mplus.service.ts:365-402).  *)
(* Every value is of its type at all times.                                  *)
BoardAgrees ==
  /\ TypeOK
  /\ pass.at = "done" =>
       /\ pass.seen \subseteq runs
       /\ ~pass.met => \A r \in pass.seen : \A c \in RosterOf[r] :
            c \in characters /\ best[c][DungeonOf[r]] >= ScoreOf[r]
  /\ pass.at = "done" /\ pass.clean /\ pass.seen # {} =>
       /\ missed = runs \ pass.seen
       /\ (\E r \in runs : RosterOf[r] # {}) =>
            \A c \in characters : \E r \in runs : c \in RosterOf[r]
===============================================================================
