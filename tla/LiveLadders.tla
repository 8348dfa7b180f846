------------------------------ MODULE LiveLadders ------------------------------
(***************************************************************************)
(* The live PvP ladders of a region (src/src/leaderboard/, src/src/sync/   *)
(* character-sync.service.ts, src/src/profile/profile-enrichment.service   *)
(* .ts): a sweep reads the ladders several at a time into the character    *)
(* documents and the rating rows, then cleans up; a push replaces one      *)
(* character's ladders; the enrichment writes its profile and labels its   *)
(* rows.  One character stands for all: no write of one reads another.  A  *)
(* rating is abstracted to its age, that is, whether it was read since the *)
(* sweep's latest visit to its ladder began.                               *)
(***************************************************************************)
EXTENDS Integers, FiniteSets

CONSTANTS
  Brackets,   \* the ladders that can be ingested
  Catalogues, \* what may map each ladder to the rating family it is mirrored into
  Core,       \* the families of a single ladder, whose rows a profile labels
  Specs       \* the specialisations a profile can show

ASSUME LaddersAssumption ==
  /\ IsFiniteSet(Brackets) /\ Brackets # {}
  /\ \A family \in Catalogues : DOMAIN family = Brackets
  /\ \A family \in Catalogues, b, c \in Brackets :
       family[b] = family[c] /\ family[b] \in Core => b = c

VARIABLES
  family,      \* family[b]: the family of b, fixed: a variable to run several catalogues at once
  there,       \* whether the character has a document
  on,          \* on[b]: the age of b in the document's brackets
  profile,     \* the specialisation its profile shows
  row,         \* row[b]: the rating row of the character in b's family
  sweep,       \* the sweep in progress
  job,         \* job[b]: how far the sweep is with the ladder b
  reconciled,  \* reconciledAt is set, and less than a day old
  push,        \* the push in progress
  enrich,      \* the character's enrichment in progress
  apart,       \* history: no failure, push or enrichment beside the latest sweep
  late         \* history: a push gave rows to a character that is gone, not reconciled since

document == <<there, on, profile>>
others == <<push, enrich>>
history == <<apart, late>>
vars == <<family, document, row, sweep, job, reconciled, others, history>>

Families == {family[b] : b \in Brackets}
CoreBrackets == {b \in Brackets : family[b] \in Core}

Ages == {"none", "old", "new"}
NoProfile == "none"
Labels == Specs \cup {NoProfile}
NoRow == [age |-> "none", label |-> NoProfile]
NoJob == [at |-> "none", lists |-> FALSE]
NoSweep == [at |-> "idle", live |-> {}, unranked |-> FALSE, vouched |-> FALSE]
Over == [NoSweep EXCEPT !.live = sweep.live]
NoPush == [at |-> "idle", takes |-> {}, old |-> {}, todo |-> {}]

TypeOK ==
  /\ family \in Catalogues
  /\ there \in BOOLEAN /\ on \in [Brackets -> Ages] /\ profile \in Labels
  /\ ~there => profile = NoProfile /\ \A b \in Brackets : on[b] = "none"
  /\ row \in [Brackets -> [age : Ages, label : Labels]]
  /\ sweep \in [at : {"idle", "ladders", "retired", "unranked", "delete", "rows", "boards"},
                live : SUBSET Brackets, unranked : BOOLEAN, vouched : BOOLEAN]
  /\ sweep.at = "idle" => sweep = Over
  /\ job \in [Brackets -> [at : {"none", "waiting", "read", "inserting", "stored", "pruned",
                                 "rated", "done"}, lists : BOOLEAN]]
  /\ {reconciled, apart, late} \subseteq BOOLEAN
  /\ push \in [at : {"idle", "admitted", "rows"}, takes : SUBSET Brackets, old : SUBSET Brackets,
               todo : SUBSET Families]
  /\ enrich \in {"idle", "selected", "saved"}

NoJobs == [b \in Brackets |-> NoJob]
Nowhere == [b \in Brackets |-> "none"]

Init ==
  /\ family \in Catalogues
  /\ there = FALSE /\ on = Nowhere /\ profile = NoProfile
  /\ row = [b \in Brackets |-> NoRow]
  /\ sweep = NoSweep /\ job = NoJobs /\ reconciled = FALSE
  /\ push = NoPush /\ enrich = "idle" /\ apart = FALSE /\ late = FALSE

-----------------------------------------------------------------------------
(* The sweep.                                                                *)

(* buildJobs: the ladders the upstream publishes now.  A region whose list   *)
(* fails has no jobs and no cleanup.                                         *)
SweepStarts(published) ==
  /\ sweep.at = "idle" /\ published # {}
  /\ sweep' = [NoSweep EXCEPT !.at = "ladders", !.live = published]
  /\ job' = [b \in Brackets |-> IF b \in published THEN [NoJob EXCEPT !.at = "waiting"] ELSE NoJob]
  /\ apart' = (push = NoPush /\ enrich = "idle")
  /\ UNCHANGED <<family, document, row, reconciled, others, late>>

JobAt(b, stage) == job[b].at = stage
JobTo(b, stage) == job' = [job EXCEPT ![b].at = stage]

Older(age) == IF age = "new" THEN "old" ELSE age

(* fetchedAt is taken, and the ladder read, which lists the character or not:*)
(* what was written of it before is older from here on.  Of a character it   *)
(* does not list it has nothing to write.                                    *)
GetLeaderboard(b, lists) ==
  /\ JobAt(b, "waiting")
  /\ job' = [job EXCEPT ![b] = [at |-> IF lists THEN "read" ELSE "stored", lists |-> lists]]
  /\ on' = [on EXCEPT ![b] = Older(@)]
  /\ row' = [row EXCEPT ![b].age = Older(@)]
  /\ push' = [push EXCEPT !.old = @ \cup ({b} \cap push.takes)]
  /\ UNCHANGED <<family, there, profile, sweep, reconciled, enrich, history>>

(* upsertBracketEntries: merged into the document, or the document is        *)
(* created; a creation takes a moment.                                       *)
Upsert(b) ==
  /\ JobAt(b, "read")
  /\ \/ there /\ on' = [on EXCEPT ![b] = "new"] /\ JobTo(b, "stored")
     \/ ~there /\ JobTo(b, "inserting") /\ UNCHANGED on
  /\ UNCHANGED <<family, there, profile, row, sweep, reconciled, others, history>>

(* A faulty InsertLands that takes a lost race for a write.                  *)
InsertNotReplayed(b) ==
  /\ JobAt(b, "inserting")
  /\ there' = TRUE
  /\ on' = IF there THEN on ELSE [on EXCEPT ![b] = "new"]
  /\ JobTo(b, "stored")
  /\ UNCHANGED <<family, profile, row, sweep, reconciled, others, history>>

(* writeChunk: an insert that finds the document created meanwhile, by the   *)
(* job of another ladder, is replayed as an update.                          *)
InsertLands(b) ==
  /\ JobAt(b, "inserting")
  /\ \/ there /\ UNCHANGED <<there, on>> /\ JobTo(b, "read")
     \/ ~there /\ there' = TRUE /\ on' = [on EXCEPT ![b] = "new"] /\ JobTo(b, "stored")
  /\ UNCHANGED <<family, profile, row, sweep, reconciled, others, history>>

(* pruneBracket of the characters: an older entry of the ladder is cleared.  *)
PruneDocument(b) ==
  /\ JobAt(b, "stored") /\ JobTo(b, IF job[b].lists THEN "pruned" ELSE "rated")
  /\ on' = [on EXCEPT ![b] = IF @ = "old" THEN "none" ELSE @]
  /\ UNCHANGED <<family, there, profile, row, sweep, reconciled, others, history>>

(* A faulty Rated that labels a row only when it is new.                     *)
RatedOnInsert(b, age) ==
  [age |-> age, label |-> IF b \in CoreBrackets /\ row[b].age = "none" THEN profile ELSE row[b].label]

(* The row written: that of a core ladder takes its label from the profile,  *)
(* or keeps its own where there is none.                                     *)
Rated(b, age) ==
  [age |-> age, label |-> IF b \in CoreBrackets /\ profile # NoProfile THEN profile ELSE row[b].label]

(* upsertBracket of the ratings.                                             *)
UpsertRating(b) ==
  /\ JobAt(b, "pruned") /\ JobTo(b, "rated")
  /\ row' = [row EXCEPT ![b] = Rated(b, "new")]
  /\ UNCHANGED <<family, document, sweep, reconciled, others, history>>

(* pruneBracket of the ratings.                                              *)
PruneRating(b) ==
  /\ JobAt(b, "rated")
  /\ row' = IF row[b].age = "old" THEN [row EXCEPT ![b] = NoRow] ELSE row
  /\ job' = [job EXCEPT ![b] = [NoJob EXCEPT !.at = "done"]]
  /\ UNCHANGED <<family, document, sweep, reconciled, others, history>>

(* A request or a write fails, or the payload names another season.          *)
JobFails(b) ==
  /\ job[b].at \notin {"none", "done"}
  /\ job' = [job EXCEPT ![b] = [NoJob EXCEPT !.at = "done"]]
  /\ apart' = FALSE
  /\ UNCHANGED <<family, document, row, sweep, reconciled, others, late>>

-----------------------------------------------------------------------------
(* The cleanup, after every ladder has had its turn.                         *)

(* A faulty CleanupStarts that goes on vouching for the last cleanup.        *)
CleanupStartsVouching ==
  /\ sweep.at = "ladders" /\ \A b \in Brackets : job[b].at \in {"none", "done"}
  /\ sweep' = [sweep EXCEPT !.at = "retired", !.vouched = reconciled]
  /\ job' = NoJobs
  /\ UNCHANGED <<family, document, row, reconciled, others, history>>

(* Whether the last cleanup can be vouched for is withdrawn until this one   *)
(* is through.                                                               *)
CleanupStarts ==
  /\ sweep.at = "ladders" /\ \A b \in Brackets : job[b].at \in {"none", "done"}
  /\ sweep' = [sweep EXCEPT !.at = "retired", !.vouched = reconciled]
  /\ reconciled' = FALSE
  /\ job' = NoJobs
  /\ UNCHANGED <<family, document, row, others, history>>

(* removeRetiredBrackets of the characters.                                  *)
ClearRetired ==
  /\ sweep.at = "retired"
  /\ on' = [b \in Brackets |-> IF b \in sweep.live THEN on[b] ELSE "none"]
  /\ sweep' = [sweep EXCEPT !.at = "unranked"]
  /\ UNCHANGED <<family, there, profile, row, job, reconciled, others, history>>

(* removeUnranked: the characters on no ladder are read, and those of them   *)
(* still on none are deleted; only the ones really gone are reported.        *)
FindUnranked ==
  /\ sweep.at = "unranked"
  /\ sweep' = [sweep EXCEPT !.at = "delete", !.unranked = there /\ on = Nowhere]
  /\ UNCHANGED <<family, document, row, job, reconciled, others, history>>

(* A faulty DeleteUnranked that goes by what was read.                       *)
DeleteFound ==
  /\ sweep.at = "delete"
  /\ there' = (there /\ ~sweep.unranked)
  /\ on' = (IF sweep.unranked THEN Nowhere ELSE on)
  /\ profile' = (IF sweep.unranked THEN NoProfile ELSE profile)
  /\ sweep' = [sweep EXCEPT !.at = "rows"]
  /\ UNCHANGED <<family, row, job, reconciled, others, history>>

DeleteUnranked ==
  /\ sweep.at = "delete"
  /\ LET goes == sweep.unranked /\ on = Nowhere
     IN  /\ there' = (there /\ ~goes) /\ profile' = (IF goes THEN NoProfile ELSE profile)
         /\ sweep' = [sweep EXCEPT !.at = "rows", !.unranked = goes]
  /\ UNCHANGED <<family, on, row, job, reconciled, others, history>>

(* removeForCharacters, or removeOrphans when the last cleanup cannot be     *)
(* vouched for.                                                              *)
RemoveRows ==
  /\ sweep.at = "rows"
  /\ row' = IF (IF sweep.vouched THEN sweep.unranked ELSE ~there)
              THEN [b \in Brackets |-> NoRow] ELSE row
  /\ late' = (late /\ sweep.vouched)
  /\ sweep' = [sweep EXCEPT !.at = "boards"]
  /\ UNCHANGED <<family, document, job, reconciled, others, apart>>

(* removeRetiredBrackets of the ratings, family by family; a family with no  *)
(* ladder left is passed over.  The cleanup is through.                      *)
Kept(b) == b \in sweep.live \/ ~\E c \in sweep.live : family[c] = family[b]

ClearBoards ==
  /\ sweep.at = "boards"
  /\ row' = [b \in Brackets |-> IF Kept(b) THEN row[b] ELSE NoRow]
  /\ reconciled' = TRUE
  /\ sweep' = Over
  /\ UNCHANGED <<family, document, job, others, history>>

(* A cleanup step fails.                                                     *)
CleanupFails ==
  /\ sweep.at \notin {"idle", "ladders"}
  /\ sweep' = Over /\ apart' = FALSE
  /\ UNCHANGED <<family, document, row, job, reconciled, others, late>>

(* A day has gone by.                                                        *)
ReconcileDue ==
  /\ reconciled /\ reconciled' = FALSE
  /\ UNCHANGED <<family, document, row, sweep, job, others, history>>

-----------------------------------------------------------------------------
(* A push of one character.                                                  *)

(* It is refused while a sweep is in progress, asked once.                   *)
PushStarts(takes) ==
  /\ push = NoPush /\ sweep.at = "idle" /\ takes # {}
  /\ push' = [NoPush EXCEPT !.at = "admitted", !.takes = takes]
  /\ apart' = FALSE
  /\ UNCHANGED <<family, document, row, sweep, job, reconciled, enrich, late>>

PushAge(b) == IF b \in push.old THEN "old" ELSE "new"

(* updateCharacter: the ladders wholesale, the profile if it came with one;  *)
(* a character that is not there is not created.                             *)
PushDocument ==
  /\ push.at = "admitted"
  /\ \/ ~there /\ push' = NoPush /\ UNCHANGED document
     \/ /\ there /\ UNCHANGED there
        /\ on' = [b \in Brackets |-> IF b \in push.takes THEN PushAge(b) ELSE "none"]
        /\ profile' \in {profile} \cup Specs
        /\ push' = [push EXCEPT !.at = "rows", !.todo = Families]
  /\ UNCHANGED <<family, row, sweep, job, reconciled, enrich, history>>

(* replaceForCharacter: the rows of a family are written, then those of its  *)
(* other ladders deleted; the families side by side.                         *)
PushRows(f) ==
  /\ push.at = "rows" /\ f \in push.todo
  /\ row' = [b \in Brackets |-> IF family[b] # f THEN row[b]
                                 ELSE IF b \in push.takes THEN Rated(b, PushAge(b)) ELSE NoRow]
  /\ LET rest == {b \in Brackets : family[b] # f}
     IN  push' = [push EXCEPT !.todo = @ \ {f}, !.takes = @ \cap rest, !.old = @ \cap rest]
  /\ late' = (late \/ ~there)
  /\ UNCHANGED <<family, document, sweep, job, reconciled, enrich, apart>>

(* It is through, or a write failed.                                         *)
PushEnds ==
  /\ push.at = "rows" /\ push' = NoPush
  /\ UNCHANGED <<family, document, row, sweep, job, reconciled, enrich, history>>

-----------------------------------------------------------------------------
(* The enrichment of the character.                                          *)

(* It is selected, and no sweep is in progress when its turn comes.          *)
EnrichStarts ==
  /\ enrich = "idle" /\ sweep.at = "idle" /\ there
  /\ enrich' = "selected"
  /\ apart' = FALSE
  /\ UNCHANGED <<family, document, row, sweep, job, reconciled, push, late>>

(* A faulty SaveProfile that creates the document it does not find.          *)
SaveProfileUpserting ==
  /\ enrich = "selected"
  /\ \E s \in Labels :
       /\ profile' = s
       /\ enrich' = IF s = NoProfile THEN "idle" ELSE "saved"
  /\ UNCHANGED <<family, there, on, row, sweep, job, reconciled, push, history>>

(* The two halves of the profile, or none that the upstream knows of.        *)
SaveProfile ==
  /\ enrich = "selected"
  /\ \E s \in Labels :
       /\ profile' = IF there THEN s ELSE profile
       /\ enrich' = IF s = NoProfile THEN "idle" ELSE "saved"
  /\ UNCHANGED <<family, there, on, row, sweep, job, reconciled, push, history>>

(* labelFromProfile: the core rows take the profile as it is now.            *)
LabelRows ==
  /\ enrich = "saved" /\ enrich' = "idle"
  /\ row' = [b \in Brackets |-> IF b \in CoreBrackets /\ row[b].age # "none" /\ profile # NoProfile
                                  THEN [row[b] EXCEPT !.label = profile] ELSE row[b]]
  /\ UNCHANGED <<family, document, sweep, job, reconciled, push, history>>

EnrichFails ==
  /\ enrich # "idle" /\ enrich' = "idle"
  /\ UNCHANGED <<family, document, row, sweep, job, reconciled, push, history>>

(* The process stops: the collections stay, what it knew of them is gone.    *)
Crash ==
  /\ sweep' = Over /\ job' = NoJobs /\ reconciled' = FALSE
  /\ push' = NoPush /\ enrich' = "idle" /\ apart' = FALSE
  /\ UNCHANGED <<family, document, row, late>>

-----------------------------------------------------------------------------
Next ==
  \/ CleanupStarts \/ ClearRetired \/ FindUnranked \/ DeleteUnranked
  \/ RemoveRows \/ ClearBoards \/ CleanupFails \/ ReconcileDue
  \/ \E b \in Brackets :
       \/ (\E lists \in BOOLEAN : GetLeaderboard(b, lists)) \/ Upsert(b) \/ InsertLands(b) \/ PruneDocument(b)
       \/ UpsertRating(b) \/ PruneRating(b) \/ JobFails(b)
  \/ \E bs \in SUBSET Brackets : SweepStarts(bs) \/ PushStarts(bs)
  \/ PushDocument \/ (\E f \in Families : PushRows(f)) \/ PushEnds
  \/ EnrichStarts \/ SaveProfile \/ LabelRows \/ EnrichFails
  \/ Crash

Spec == Init /\ [][Next]_vars

-----------------------------------------------------------------------------
(* After a sweep that met no failure and had no push or enrichment beside it *)
(* the documents and the boards tell the same, all of it read by that sweep, *)
(* whatever state it found them in; nothing is left of what ranks nowhere,   *)
(* but for the rows of a family all of whose ladders have gone; and every    *)
(* core row shows the specialisation of the profile, where there is one.     *)
CleanSweepAgrees ==
  sweep.at = "idle" /\ apart =>
    /\ \A b \in sweep.live : on[b] = row[b].age /\ on[b] # "old"
    /\ \A b \in Brackets \ sweep.live : on[b] = "none" /\ (~Kept(b) => row[b] = NoRow)
    /\ there <=> on # Nowhere
    /\ \A b \in CoreBrackets \cap sweep.live :
         row[b].age # "none" /\ profile # NoProfile => row[b].label = profile

(* Whenever the last cleanup is vouched for no row is left of a character    *)
(* that is gone, however many cleanups failed halfway before it; a push that *)
(* was overtaken by a sweep may leave some, until the next full comparison.  *)
(* And every value is of its type.                                           *)
VouchedIsTrue ==
  /\ TypeOK
  /\ reconciled /\ ~late /\ ~there => \A b \in Brackets : row[b] = NoRow

(* A character is deleted by nothing while some ladder lists it, a push that *)
(* ranks it again while the cleanup is at it included.                       *)
OnlyUnrankedDeleted ==
  [][there /\ ~there' => on = Nowhere]_vars

==============================================================================
