---------------------------- MODULE RaiderIoProofs ----------------------------
(* What is read from Raider.io, of any size: the Mythic+ board, the season   *)
(* it is of, the catalogue of raids and their rankings.                      *)
EXTENDS MplusBoard, MplusObservation, RaidCatalogue, RaidBoards, WellFoundedInduction, TLAPS

-----------------------------------------------------------------------------
(* The live Mythic+ board keeps its runs and its scores, for every set of    *)
(* runs, rosters, dungeons, scores and pushes.                               *)

-----------------------------------------------------------------------------
(* Scores.                                                                   *)

(* A set of scores has a best one.                                           *)
LEMMA BestExists ==
  ASSUME NEW S, S # {}, S \subseteq 0..MaxScore
  PROVE  Max(S) \in S /\ \A y \in S : Max(S) >= y
<1>1. MaxScore \in Nat
  BY BoardAssumption
<1> DEFINE T == {n \in Nat : MaxScore - n \in S}
<1>2. \A x \in S : x \in Int /\ MaxScore - x \in Nat /\ MaxScore - (MaxScore - x) = x
  BY <1>1
<1>3. T \subseteq Nat /\ T # {}
  BY <1>2
<1>4. PICK t \in T : \A u \in T : ~(<<u, t>> \in OpToRel(<, Nat))
  BY <1>3, NatLessThanWellFounded, WFMin
<1>5. \A u \in T : ~(u < t)
  BY <1>3, <1>4 DEF OpToRel
<1>6. ASSUME NEW y \in S PROVE MaxScore - t >= y
  <2>1. MaxScore - y \in T
    BY <1>2
  <2>2. ~(MaxScore - y < t) /\ t \in Nat
    BY <2>1, <1>4, <1>5
  <2> QED BY <2>2, <1>1, <1>2
<1> QED BY <1>4, <1>6 DEF Max

(* What the accumulator counts, of runs of this board, are scores.           *)
LEMMA CountedType ==
  ASSUME pass.seen \subseteq Runs
  PROVE  \A c : Counted(c) \in Scores
<1> SUFFICES ASSUME NEW c, NEW d \in Dungeons
             PROVE  Max({0} \cup {ScoreOf[r] : r \in {q \in pass.seen : c \in RosterOf[q] /\ DungeonOf[q] = d}})
                      \in 0..MaxScore
  BY DEF Counted, Scores
<1> DEFINE S == {0} \cup {ScoreOf[r] : r \in {q \in pass.seen : c \in RosterOf[q] /\ DungeonOf[q] = d}}
<1>1. \A r \in Runs : ScoreOf[r] \in 0..MaxScore
  BY BoardAssumption
<1>2. S # {} /\ S \subseteq 0..MaxScore
  BY <1>1, BoardAssumption
<1> HIDE DEF S
<1>3. Max(S) \in 0..MaxScore
  BY <1>2, BestExists
<1> QED BY <1>3 DEF S

(* A merge of scores is a score, and no worse than what is stored.           *)
LEMMA MergeKeepsBest ==
  ASSUME NEW stored \in Scores, NEW incoming \in Scores
  PROVE  /\ MergeDungeonRuns(stored, incoming) \in Scores
         /\ \A d \in Dungeons : MergeDungeonRuns(stored, incoming)[d] >= stored[d]
<1>1. \A d \in Dungeons : stored[d] \in 0..MaxScore /\ incoming[d] \in 0..MaxScore
  BY DEF Scores
<1>2. MaxScore \in Nat
  BY BoardAssumption
<1>3. \A d \in Dungeons : MergeDungeonRuns(stored, incoming)[d] \in 0..MaxScore
  BY <1>1, <1>2 DEF MergeDungeonRuns
<1> QED BY <1>1, <1>2, <1>3 DEF MergeDungeonRuns, Scores

LEMMA NoRunsType == NoRuns \in Scores
  BY BoardAssumption DEF NoRuns, Scores

-----------------------------------------------------------------------------
(* Types.                                                                    *)

(* An upsert of some characters keeps the types of the documents.            *)
LEMMA UpsertType ==
  ASSUME TypeOK, NEW chunk \in SUBSET Characters, UpsertCharacters(chunk)
  PROVE  /\ characters' \subseteq Characters /\ best' \in [Characters -> Scores]
         /\ \A c \in Characters \ characters' : best'[c] = NoRuns
<1>1. \A c \in Characters : MergeDungeonRuns(pass.held[c], Counted(c)) \in Scores
  BY CountedType, MergeKeepsBest DEF TypeOK
<1> QED BY <1>1 DEF TypeOK, UpsertCharacters

LEMMA RemoveType ==
  ASSUME TypeOK, NEW gone, RemoveCharacters(gone)
  PROVE  /\ characters' \subseteq Characters /\ best' \in [Characters -> Scores]
         /\ \A c \in Characters \ characters' : best'[c] = NoRuns
  BY NoRunsType DEF TypeOK, RemoveCharacters

LEMMA NoPushType ==
  NoPush \in [at : {"idle", "admitted", "read"}, key : Characters, incoming : Pushed \cup {NoRuns},
              held : Scores, met : BOOLEAN]
  BY NoRunsType, BoardAssumption DEF NoPush

(* Every action keeps the types.                                             *)
LEMMA TypeStep == TypeOK /\ [Next]_vars => TypeOK'
<1> SUFFICES ASSUME TypeOK, [Next]_vars PROVE TypeOK'
  OBVIOUS
<1> USE DEF TypeOK
<1>1. CASE PassStarts
  BY <1>1, NoRunsType DEF PassStarts, NoPass, Stages, board, ladder
<1>2. CASE ReadBatch
  <2>1. PICK found \in SUBSET (Runs \ pass.seen), answered \in BOOLEAN, failed \in BOOLEAN :
          /\ UpsertRuns(found)
          /\ pass' = [pass EXCEPT !.seen = @ \cup found, !.fetched = @ \/ answered, !.clean = @ /\ ~failed]
          /\ misses' = [r \in Runs |-> IF r \in found THEN 0 ELSE misses[r]]
          /\ UNCHANGED <<characters, best, push>>
    BY <1>2 DEF ReadBatch, ladder
  <2>2. misses' \in [Runs -> 0..2]
    BY <2>1
  <2>3. (pass.fetched \/ answered) \in BOOLEAN /\ (pass.clean /\ ~failed) \in BOOLEAN
    OBVIOUS
  <2>4. pass' \in [at : Stages \cup {"idle", "done"}, seen : SUBSET Runs, fetched : BOOLEAN,
               clean : BOOLEAN, todo : SUBSET Characters, chunk : SUBSET Characters,
               held : [Characters -> Scores], keys : SUBSET Characters, met : BOOLEAN]
    BY <2>1, <2>3
  <2>5. runs' \subseteq Runs /\ missed' \subseteq runs'
    BY <2>1 DEF UpsertRuns
  <2> QED BY <2>1, <2>2, <2>4, <2>5
<1>3. CASE PagesEnd
  <2>1. PICK stopped \in BOOLEAN :
          /\ pass' = [pass EXCEPT !.at = "characters", !.clean = pass.clean /\ ~stopped,
                                  !.todo = NamedIn(pass.seen)]
          /\ misses' = IF ~(pass.clean /\ ~stopped) \/ pass.seen = {} THEN misses
                       ELSE [r \in Runs |-> IF r \in pass.seen \/ misses[r] = 2 THEN misses[r]
                                                                          ELSE misses[r] + 1]
    BY <1>3 DEF PagesEnd
  <2>2. misses' \in [Runs -> 0..2]
    BY <2>1
  <2>3. NamedIn(pass.seen) \subseteq Characters
    BY DEF NamedIn, Characters
  <2>5. pass' \in [at : Stages \cup {"idle", "done"}, seen : SUBSET Runs, fetched : BOOLEAN,
               clean : BOOLEAN, todo : SUBSET Characters, chunk : SUBSET Characters,
               held : [Characters -> Scores], keys : SUBSET Characters, met : BOOLEAN]
    BY <2>1, <2>3 DEF Stages
  <2> QED BY <1>3, <2>2, <2>5 DEF PagesEnd, board, ladder
<1>4. CASE ReadChunk
  <2>1. PICK chunk \in SUBSET pass.todo \ {{}} :
          pass' = [pass EXCEPT !.at = "merge", !.chunk = chunk,
                               !.held = [c \in Characters |-> IF c \in chunk THEN best[c] ELSE NoRuns]]
    BY <1>4 DEF ReadChunk
  <2>2. [c \in Characters |-> IF c \in chunk THEN best[c] ELSE NoRuns] \in [Characters -> Scores]
    BY NoRunsType
  <2>3. pass' \in [at : Stages \cup {"idle", "done"}, seen : SUBSET Runs, fetched : BOOLEAN,
               clean : BOOLEAN, todo : SUBSET Characters, chunk : SUBSET Characters,
               held : [Characters -> Scores], keys : SUBSET Characters, met : BOOLEAN]
    BY <2>1, <2>2 DEF Stages
  <2> QED BY <1>4, <2>3 DEF ReadChunk, board, ladder
<1>5. CASE WriteChunk
  BY <1>5, NoRunsType, UpsertType DEF WriteChunk, NoPass, Stages, board
<1>6. CASE CharactersEnd
  BY <1>6 DEF CharactersEnd, Stages, board, ladder
<1>7. CASE PruneRuns
  BY <1>7 DEF PruneRuns, RemoveRuns, Stages, board, ladder
<1>8. CASE MarkRuns
  BY <1>8 DEF MarkRuns, MarkMissed, Stages, ladder
<1>9. CASE ReadLiveKeys
  BY <1>9 DEF ReadLiveKeys, Stages, board, ladder, NamedIn, Characters
<1>10. CASE RemoveOrphans
  BY <1>10, RemoveType DEF RemoveOrphans, Stages, board
<1>11. CASE PassFails
  <2>1. pass' \in [at : Stages \cup {"idle", "done"}, seen : SUBSET Runs, fetched : BOOLEAN,
               clean : BOOLEAN, todo : SUBSET Characters, chunk : SUBSET Characters,
               held : [Characters -> Scores], keys : SUBSET Characters, met : BOOLEAN]
    BY <1>11, NoRunsType DEF PassFails, NoPass
  <2>2. push' = push
    BY <1>11 DEF PassFails
  <2>3. CASE pass.at = "pages"
    <3>1. PICK part \in SUBSET Runs :
            /\ UpsertRuns(part) /\ misses' = [r \in Runs |-> IF r \in part THEN 0 ELSE misses[r]]
            /\ UNCHANGED ladder
      BY <1>11, <2>3 DEF PassFails
    <3>2. misses' \in [Runs -> 0..2] /\ runs' \subseteq Runs /\ missed' \subseteq runs'
      BY <3>1 DEF UpsertRuns
    <3> QED BY <2>1, <2>2, <3>1, <3>2 DEF ladder
  <2>4. CASE pass.at = "merge"
    <3>1. PICK part \in SUBSET pass.chunk : UpsertCharacters(part)
      BY <1>11, <2>4 DEF PassFails
    <3>2. UNCHANGED <<board, misses>> /\ part \in SUBSET Characters
      BY <1>11, <2>4 DEF PassFails
    <3> QED BY <2>1, <2>2, <3>1, <3>2, UpsertType DEF board
  <2>5. CASE pass.at = "prune"
    BY <1>11, <2>1, <2>2, <2>5 DEF PassFails, RemoveRuns, Fallen, ladder
  <2>6. CASE pass.at = "mark"
    BY <1>11, <2>1, <2>2, <2>6 DEF PassFails, MarkMissed, ladder
  <2>7. CASE pass.at = "orphans"
    <3>1. PICK part \in SUBSET (characters \ pass.keys) : RemoveCharacters(part)
      BY <1>11, <2>7 DEF PassFails
    <3>2. UNCHANGED <<board, misses>>
      BY <1>11, <2>7 DEF PassFails
    <3> QED BY <2>1, <2>2, <3>1, <3>2, RemoveType DEF board
  <2>8. CASE pass.at \in {"characters", "keys"}
    BY <1>11, <2>1, <2>2, <2>8 DEF PassFails, board, ladder
  <2> QED BY <1>11, <2>3, <2>4, <2>5, <2>6, <2>7, <2>8 DEF PassFails
<1>12. CASE PushStarts
  BY <1>12, NoRunsType DEF PushStarts, NoPush, board, ladder
<1>13. CASE PushReads
  BY <1>13, NoPushType DEF PushReads, board, ladder
<1>14. CASE PushWrites
  <2>1. MergeDungeonRuns(push.held, push.incoming) \in Scores
    BY MergeKeepsBest, NoRunsType, BoardAssumption
  <2>2. best' \in [Characters -> Scores] /\ \A c \in Characters \ characters : best'[c] = NoRuns
    BY <1>14, <2>1 DEF PushWrites
  <2> QED BY <1>14, <2>2, NoPushType DEF PushWrites, board
<1>15. CASE PushFails
  BY <1>15, NoPushType DEF PushFails, board, ladder
<1>16. CASE UNCHANGED vars
  BY <1>16 DEF vars, board, ladder
<1> QED
  BY <1>1, <1>2, <1>3, <1>4, <1>5, <1>6, <1>7, <1>8, <1>9, <1>10, <1>11,
     <1>12, <1>13, <1>14, <1>15, <1>16 DEF Next

-----------------------------------------------------------------------------
(* Runs.                                                                     *)

(* A run that a clean pass has not read was missed once at least, and twice  *)
(* if it was on its way out already.                                         *)
MissesTold == \A r \in runs \ pass.seen : misses[r] >= 1 /\ (r \in missed => misses[r] = 2)

(* A mark says that the last pass to look missed the run; the counts are up  *)
(* to date when the pages have been read, until the marks are set.           *)
MarksAreMisses ==
  /\ \A r \in missed : misses[r] >= 1
  /\ pass.at \in {"characters", "merge"} /\ pass.clean /\ pass.seen # {} => MissesTold
  /\ pass.at = "prune" => MissesTold
  /\ pass.at = "mark" => \A r \in runs \ pass.seen : misses[r] >= 1

LEMMA MarksStep == TypeOK /\ MarksAreMisses /\ [Next]_vars => MarksAreMisses'
<1> SUFFICES ASSUME TypeOK, MarksAreMisses, [Next]_vars PROVE MarksAreMisses'
  OBVIOUS
<1> USE DEF TypeOK, MarksAreMisses, MissesTold
<1>1. CASE PassStarts
  BY <1>1 DEF PassStarts, NoPass, board
<1>2. CASE ReadBatch
  <2>1. PICK found \in SUBSET (Runs \ pass.seen), answered \in BOOLEAN, failed \in BOOLEAN :
          /\ UpsertRuns(found)
          /\ pass' = [pass EXCEPT !.seen = @ \cup found, !.fetched = @ \/ answered, !.clean = @ /\ ~failed]
          /\ misses' = [r \in Runs |-> IF r \in found THEN 0 ELSE misses[r]]
          /\ pass.at = "pages"
    BY <1>2 DEF ReadBatch
  <2>2. pass'.at = "pages"
    BY <2>1
  <2>3. \A r \in missed' : misses'[r] = misses[r] /\ r \in missed
    BY <2>1 DEF UpsertRuns
  <2> QED BY <2>2, <2>3
<1>3. CASE PagesEnd
  <2>1. PICK stopped \in BOOLEAN :
          /\ pass' = [pass EXCEPT !.at = "characters", !.clean = pass.clean /\ ~stopped,
                                  !.todo = NamedIn(pass.seen)]
          /\ misses' = IF ~(pass.clean /\ ~stopped) \/ pass.seen = {} THEN misses
                       ELSE [r \in Runs |-> IF r \in pass.seen \/ misses[r] = 2 THEN misses[r]
                                                                          ELSE misses[r] + 1]
    BY <1>3 DEF PagesEnd
  <2>2. UNCHANGED board
    BY <1>3 DEF PagesEnd
  <2>3. pass'.at = "characters" /\ pass'.seen = pass.seen /\ pass'.clean = (pass.clean /\ ~stopped)
    BY <2>1
  <2>4. \A r \in Runs : misses[r] \in 0..2 /\ misses'[r] \in 0..2 /\ misses'[r] >= misses[r]
    BY <2>1
  <2>5. \A r \in missed : r \in Runs /\ misses[r] >= 1
    OBVIOUS
  <2>6. \A r \in missed' : misses'[r] >= 1
    BY <2>2, <2>4, <2>5 DEF board
  <2>7. ASSUME pass'.clean, pass'.seen # {} PROVE MissesTold'
    <3>1. \A r \in Runs \ pass.seen : misses'[r] = IF misses[r] = 2 THEN 2 ELSE misses[r] + 1
      BY <2>1, <2>3, <2>7
    <3>2. \A r \in Runs \ pass.seen : misses'[r] >= 1 /\ (misses[r] >= 1 => misses'[r] = 2)
      BY <2>4, <3>1
    <3> QED BY <2>2, <2>3, <2>5, <3>2 DEF board
  <2> QED BY <2>3, <2>6, <2>7
<1>4. CASE ReadChunk
  <2>1. pass'.at = "merge" /\ pass'.seen = pass.seen /\ pass'.clean = pass.clean /\ pass.at = "characters"
    BY <1>4 DEF ReadChunk
  <2> QED BY <1>4, <2>1 DEF ReadChunk, board
<1>5. CASE WriteChunk
  <2>1. pass'.at = "characters" /\ pass'.seen = pass.seen /\ pass'.clean = pass.clean /\ pass.at = "merge"
    BY <1>5 DEF WriteChunk
  <2> QED BY <1>5, <2>1 DEF WriteChunk, board
<1>6. CASE CharactersEnd
  BY <1>6 DEF CharactersEnd, Prunes, board
<1>7. CASE PruneRuns
  BY <1>7 DEF PruneRuns, RemoveRuns, board
<1>8. CASE MarkRuns
  BY <1>8 DEF MarkRuns, MarkMissed
<1>9. CASE ReadLiveKeys
  BY <1>9 DEF ReadLiveKeys, board
<1>10. CASE RemoveOrphans
  BY <1>10 DEF RemoveOrphans, board
<1>11. CASE PassFails
  <2>1. pass'.at = "idle"
    BY <1>11 DEF PassFails, NoPass
  <2>2. \A r \in missed' : misses'[r] >= 1
    <3>1. CASE pass.at = "pages"
      <4>1. PICK part \in SUBSET Runs :
              UpsertRuns(part) /\ misses' = [q \in Runs |-> IF q \in part THEN 0 ELSE misses[q]]
        BY <1>11, <3>1 DEF PassFails
      <4>2. \A r \in missed' : misses'[r] = misses[r] /\ r \in missed
        BY <4>1 DEF UpsertRuns
      <4> QED BY <4>2
    <3>2. CASE pass.at # "pages"
      <4>1. misses' = misses
        BY <1>11, <3>2 DEF PassFails, board
      <4>2. missed' \subseteq missed \cup (IF pass.at = "mark" THEN runs \ pass.seen ELSE {})
        BY <1>11, <3>2 DEF PassFails, RemoveRuns, MarkMissed, board
      <4> QED BY <4>1, <4>2
    <3> QED BY <3>1, <3>2
  <2> QED BY <2>1, <2>2
<1>12. CASE PushStarts \/ PushReads \/ PushWrites \/ PushFails
  BY <1>12 DEF PushStarts, PushReads, PushWrites, PushFails, board
<1>13. CASE UNCHANGED vars
  BY <1>13 DEF vars, board
<1> QED
  BY <1>1, <1>2, <1>3, <1>4, <1>5, <1>6, <1>7, <1>8, <1>9, <1>10, <1>11, <1>12, <1>13 DEF Next

(* A run leaves the store only when it was on its way out, and missed again. *)
LEMMA OnlyFallenGo ==
  TypeOK /\ MarksAreMisses /\ [Next]_vars => \A r \in runs \ runs' : misses[r] = 2
<1> SUFFICES ASSUME TypeOK, MarksAreMisses, [Next]_vars, NEW r \in runs, r \notin runs'
             PROVE  misses[r] = 2
  OBVIOUS
<1>1. pass.at = "prune" /\ r \in Fallen
  BY DEF Next, vars, board, PassStarts, ReadBatch, PagesEnd, ReadChunk, WriteChunk, CharactersEnd,
    PruneRuns,
         MarkRuns, ReadLiveKeys, RemoveOrphans, PassFails, PushStarts, PushReads, PushWrites, PushFails,
         UpsertRuns, RemoveRuns, MarkMissed
<1> QED BY <1>1 DEF MarksAreMisses, MissesTold, Fallen

-----------------------------------------------------------------------------
(* Scores.                                                                   *)

(* A pass and a push that overlap know it, and what either of them has read  *)
(* is what is stored, if they do not.                                        *)
ReadsAreFresh ==
  /\ PassActive /\ push.at # "idle" => pass.met /\ push.met
  /\ pass.at # "idle" /\ push.at # "idle" /\ push.met => pass.met
  /\ pass.at = "merge" /\ ~pass.met => \A c \in pass.chunk : pass.held[c] = best[c]
  /\ push.at = "read" /\ ~push.met => push.held = best[push.key]

LEMMA FreshStep == TypeOK /\ ReadsAreFresh /\ [Next]_vars => ReadsAreFresh'
<1> SUFFICES ASSUME TypeOK, ReadsAreFresh, [Next]_vars PROVE ReadsAreFresh'
  OBVIOUS
<1> USE DEF TypeOK, ReadsAreFresh, PassActive, Stages
<1>1. CASE PassStarts
  BY <1>1 DEF PassStarts, NoPass, ladder
<1>2. CASE ReadBatch \/ PagesEnd
  BY <1>2 DEF ReadBatch, PagesEnd, ladder
<1>3. CASE ReadChunk
  <2>1. PICK chunk \in SUBSET pass.todo \ {{}} :
          pass' = [pass EXCEPT !.at = "merge", !.chunk = chunk,
                               !.held = [c \in Characters |-> IF c \in chunk THEN best[c] ELSE NoRuns]]
    BY <1>3 DEF ReadChunk
  <2>2. UNCHANGED <<ladder, push>> /\ pass.at = "characters"
    BY <1>3 DEF ReadChunk
  <2>3. pass'.at = "merge" /\ pass'.met = pass.met /\ pass'.chunk = chunk /\ chunk \subseteq Characters
        /\ pass'.held = [c \in Characters |-> IF c \in chunk THEN best[c] ELSE NoRuns]
    BY <2>1
  <2>4. \A c \in pass'.chunk : pass'.held[c] = best'[c]
    BY <2>2, <2>3 DEF ladder
  <2> QED BY <2>2, <2>3, <2>4 DEF ladder
<1>4. CASE WriteChunk
  BY <1>4 DEF WriteChunk
<1>5. CASE CharactersEnd \/ PruneRuns \/ MarkRuns \/ ReadLiveKeys
  BY <1>5 DEF CharactersEnd, PruneRuns, MarkRuns, ReadLiveKeys, ladder
<1>6. CASE RemoveOrphans
  BY <1>6 DEF RemoveOrphans
<1>7. CASE PassFails
  BY <1>7 DEF PassFails, NoPass
<1>8. CASE PushStarts
  BY <1>8 DEF PushStarts, NoPush, ladder
<1>9. CASE PushReads
  BY <1>9 DEF PushReads, NoPush, ladder
<1>10. CASE PushWrites
  BY <1>10 DEF PushWrites, NoPush
<1>11. CASE PushFails
  BY <1>11 DEF PushFails, NoPush, ladder
<1>12. CASE UNCHANGED vars
  BY <1>12 DEF vars, ladder
<1> QED
  BY <1>1, <1>2, <1>3, <1>4, <1>5, <1>6, <1>7, <1>8, <1>9, <1>10, <1>11, <1>12 DEF Next

(* Writing back a chunk that was read fresh lowers no score.                 *)
LEMMA UpsertKeepsBest ==
  ASSUME TypeOK, ReadsAreFresh, pass.at = "merge", ~pass.met,
         NEW part \in SUBSET pass.chunk, UpsertCharacters(part), NEW c \in Characters, NEW d \in Dungeons
  PROVE  best'[c][d] >= best[c][d]
<1>1. best[c] \in Scores /\ Counted(c) \in Scores /\ best'[c] =
        IF c \in part THEN MergeDungeonRuns(pass.held[c], Counted(c)) ELSE best[c]
  BY CountedType DEF TypeOK, UpsertCharacters
<1>2. CASE c \in part
  BY <1>1, <1>2, MergeKeepsBest DEF ReadsAreFresh
<1>3. CASE c \notin part
  BY <1>1, <1>3, BoardAssumption DEF Scores
<1> QED BY <1>2, <1>3

(* A push that was read fresh lowers no score.                               *)
LEMMA PushKeepsBest ==
  ASSUME TypeOK, ReadsAreFresh, PushWrites, ~push.met, NEW c \in Characters, NEW d \in Dungeons
  PROVE  best'[c][d] >= best[c][d]
<1>1. best[c] \in Scores /\ push.incoming \in Scores /\ best'[c] =
        IF c = push.key /\ c \in characters THEN MergeDungeonRuns(push.held, push.incoming) ELSE best[c]
  BY NoRunsType, BoardAssumption DEF TypeOK, PushWrites
<1>2. CASE c = push.key /\ c \in characters
  <2>1. push.held = best[c]
    BY <1>2 DEF ReadsAreFresh, PushWrites
  <2> QED BY <1>1, <1>2, <2>1, MergeKeepsBest
<1>3. CASE ~(c = push.key /\ c \in characters)
  BY <1>1, <1>3, BoardAssumption DEF Scores
<1> QED BY <1>2, <1>3

(* A step that lowers the score of a character that stays is one of a pass   *)
(* or a push that overlap.                                                   *)
LEMMA OnlyOverlapsLower ==
  TypeOK /\ ReadsAreFresh /\ [Next]_vars =>
    \A c \in characters \cap characters' :
      (\E d \in Dungeons : best'[c][d] < best[c][d]) => pass.met \/ push.met
<1> SUFFICES ASSUME TypeOK, ReadsAreFresh, [Next]_vars, NEW c \in characters, c \in characters',
                    NEW d \in Dungeons, best'[c][d] < best[c][d], ~pass.met, ~push.met
             PROVE  FALSE
  BY DEF TypeOK
<1>1. c \in Characters /\ best[c][d] \in Int /\ best'[c][d] \in Int
  <2>1. TypeOK'
    BY TypeStep
  <2> QED BY <2>1, BoardAssumption DEF TypeOK, Scores
<1>2. CASE WriteChunk
  <2>1. UpsertCharacters(pass.chunk) /\ pass.at = "merge"
    BY <1>2 DEF WriteChunk
  <2> QED BY <1>1, <2>1, UpsertKeepsBest
<1>3. CASE PassFails /\ pass.at = "merge"
  <2>1. PICK part \in SUBSET pass.chunk : UpsertCharacters(part)
    BY <1>3 DEF PassFails
  <2> QED BY <1>1, <1>3, <2>1, UpsertKeepsBest
<1>4. CASE PushWrites
  BY <1>1, <1>4, PushKeepsBest
<1>5. CASE RemoveOrphans \/ (PassFails /\ pass.at = "orphans")
  <2>1. PICK gone \in SUBSET (characters \ pass.keys) : RemoveCharacters(gone)
    BY <1>5 DEF RemoveOrphans, PassFails
  <2>2. best'[c] = best[c]
    BY <1>1, <2>1 DEF RemoveCharacters
  <2> QED BY <1>1, <2>2
<1>6. CASE UNCHANGED ladder
  BY <1>1, <1>6 DEF ladder
<1> QED
  BY <1>2, <1>3, <1>4, <1>5, <1>6
  DEF Next, vars, ladder, PassStarts, ReadBatch, PagesEnd, ReadChunk, CharactersEnd, PruneRuns, MarkRuns,
      ReadLiveKeys, PassFails, PushStarts, PushReads, PushFails

-----------------------------------------------------------------------------
(* Agreement.                                                                *)

(* The characters of some runs are stored, with scores no less.              *)
InScores(some) ==
  \A r \in some : \A c \in RosterOf[r] : c \in characters /\ best[c][DungeonOf[r]] >= ScoreOf[r]

Stored == \A c \in characters : \E r \in runs : c \in RosterOf[r]

(* How far each stage of a pass has brought the board and the characters.    *)
StagesAgree ==
  /\ pass.at # "idle" => pass.seen \subseteq runs /\ missed \cap pass.seen = {}
  /\ pass.at # "idle" /\ pass.seen # {} => pass.fetched
  /\ pass.at \in {"characters", "merge"} /\ ~pass.met =>
       \A r \in pass.seen : \A c \in RosterOf[r] \ pass.todo :
         c \in characters /\ best[c][DungeonOf[r]] >= ScoreOf[r]
  /\ pass.at \in {"prune", "mark", "keys", "orphans", "done"} /\ ~pass.met => InScores(pass.seen)
  /\ pass.at \in {"keys", "orphans", "done"} /\ pass.clean /\ pass.seen # {} => missed = runs \ pass.seen
  /\ pass.at = "orphans" => pass.keys = NamedIn(runs)
  /\ pass.at = "done" /\ pass.clean /\ pass.seen # {} => NamedIn(runs) = {} \/ Stored

LEMMA CharactersOf == \A r \in Runs : RosterOf[r] \subseteq Characters
  BY DEF Characters, NamedIn

(* The accumulator counts every run that the pass has read.                  *)
LEMMA CountedCounts ==
  ASSUME pass.seen \subseteq Runs, NEW r \in pass.seen, NEW c \in RosterOf[r]
  PROVE  Counted(c)[DungeonOf[r]] >= ScoreOf[r]
<1> DEFINE d == DungeonOf[r]
           S == {0} \cup {ScoreOf[q] : q \in {p \in pass.seen : c \in RosterOf[p] /\ DungeonOf[p] = d}}
<1>1. \A q \in Runs : ScoreOf[q] \in 0..MaxScore
  BY BoardAssumption
<1>2. S # {} /\ S \subseteq 0..MaxScore /\ ScoreOf[r] \in S
  BY <1>1, BoardAssumption
<1>3. d \in Dungeons /\ Counted(c)[d] = Max(S)
  BY BoardAssumption DEF Counted
<1> HIDE DEF S
<1>4. Max(S) >= ScoreOf[r]
  BY <1>2, BestExists
<1> QED BY <1>3, <1>4

(* What is written of a character is no less than what was counted.          *)
LEMMA MergeKeepsCounted ==
  ASSUME NEW stored \in Scores, NEW incoming \in Scores, NEW d \in Dungeons
  PROVE  MergeDungeonRuns(stored, incoming)[d] >= incoming[d]
<1>1. stored[d] \in 0..MaxScore /\ incoming[d] \in 0..MaxScore /\ MaxScore \in Nat
  BY BoardAssumption DEF Scores
<1> QED BY <1>1 DEF MergeDungeonRuns

(* A push leaves the scores of a pass that did not meet it.                  *)
LEMMA PushAgrees ==
  ASSUME TypeOK, ReadsAreFresh, PushWrites, pass.at # "idle", ~pass.met, NEW some \in SUBSET Runs, InScores(some)
  PROVE  InScores(some)'
<1> SUFFICES ASSUME NEW r \in some, NEW c \in RosterOf[r]
             PROVE  c \in characters' /\ best'[c][DungeonOf[r]] >= ScoreOf[r]
  BY DEF InScores
<1>1. c \in characters /\ best[c][DungeonOf[r]] >= ScoreOf[r] /\ characters' = characters
  BY DEF InScores, PushWrites
<1>2. c \in Characters /\ DungeonOf[r] \in Dungeons /\ ScoreOf[r] \in Int
  BY CharactersOf, BoardAssumption
<1>3. ~push.met
  BY DEF ReadsAreFresh, PushWrites
<1>4. best'[c][DungeonOf[r]] >= best[c][DungeonOf[r]]
  BY <1>2, <1>3, PushKeepsBest
<1>5. best[c][DungeonOf[r]] \in Int /\ best'[c][DungeonOf[r]] \in Int
  <2>1. TypeOK'
    BY TypeStep DEF Next
  <2> QED BY <2>1, <1>2, BoardAssumption DEF TypeOK, Scores
<1> QED BY <1>1, <1>2, <1>4, <1>5

LEMMA AgreeStep == TypeOK /\ ReadsAreFresh /\ MarksAreMisses /\ StagesAgree /\ [Next]_vars => StagesAgree'
<1> SUFFICES ASSUME TypeOK, ReadsAreFresh, MarksAreMisses, StagesAgree, [Next]_vars PROVE StagesAgree'
  OBVIOUS
<1>t. pass.seen \subseteq Runs /\ runs \subseteq Runs /\ missed \subseteq runs
  BY DEF TypeOK
<1> USE DEF StagesAgree, InScores, Stored
<1>1. CASE PassStarts
  BY <1>1 DEF PassStarts, NoPass
<1>2. CASE ReadBatch
  <2>1. PICK found \in SUBSET (Runs \ pass.seen), answered \in BOOLEAN, failed \in BOOLEAN :
          /\ found # {} => answered
          /\ UpsertRuns(found)
          /\ pass' = [pass EXCEPT !.seen = @ \cup found, !.fetched = @ \/ answered, !.clean = @ /\ ~failed]
          /\ pass.at = "pages"
    BY <1>2 DEF ReadBatch
  <2>2. pass'.at = "pages" /\ pass'.seen = pass.seen \cup found /\ pass'.fetched = (pass.fetched \/ answered)
    BY <2>1 DEF TypeOK
  <2> QED BY <2>1, <2>2 DEF UpsertRuns
<1>3. CASE PagesEnd
  <2>1. /\ pass'.at = "characters" /\ pass'.seen = pass.seen /\ pass'.todo = NamedIn(pass.seen)
        /\ pass'.fetched = pass.fetched /\ pass'.met = pass.met /\ pass.at = "pages" /\ UNCHANGED <<board, ladder>>
    BY <1>3 DEF PagesEnd, TypeOK
  <2>2. \A r \in pass'.seen : RosterOf[r] \ pass'.todo = {}
    BY <2>1 DEF NamedIn
  <2> QED BY <2>1, <2>2 DEF board
<1>4. CASE ReadChunk
  <2>1. /\ pass'.at = "merge" /\ pass'.seen = pass.seen /\ pass'.todo = pass.todo
        /\ pass'.fetched = pass.fetched /\ pass'.met = pass.met /\ pass.at = "characters" /\ UNCHANGED <<board, ladder>>
    BY <1>4 DEF ReadChunk, TypeOK
  <2> QED BY <2>1 DEF board, ladder
<1>5. CASE WriteChunk
  <2>1. /\ pass'.at = "characters" /\ pass'.seen = pass.seen /\ pass'.todo = pass.todo \ pass.chunk
        /\ pass'.fetched = pass.fetched /\ pass'.met = pass.met /\ pass.at = "merge" /\ UNCHANGED board
    BY <1>5 DEF WriteChunk, TypeOK
  <2>2. ASSUME ~pass.met, NEW r \in pass.seen, NEW c \in RosterOf[r], c \notin pass.todo \/ c \in pass.chunk
        PROVE  c \in characters' /\ best'[c][DungeonOf[r]] >= ScoreOf[r]
    <3>1. c \in Characters /\ DungeonOf[r] \in Dungeons /\ ScoreOf[r] \in Int
      BY CharactersOf, <1>t, BoardAssumption
    <3>2. CASE c \in pass.chunk
      <4>1. c \in characters' /\ best'[c] = MergeDungeonRuns(pass.held[c], Counted(c))
        BY <1>5, <3>1, <3>2 DEF WriteChunk, UpsertCharacters
      <4>2. pass.held[c] \in Scores /\ Counted(c) \in Scores
        BY <1>t, <3>1, CountedType DEF TypeOK
      <4>3. best'[c][DungeonOf[r]] >= Counted(c)[DungeonOf[r]] /\ Counted(c)[DungeonOf[r]] >= ScoreOf[r]
        BY <1>t, <3>1, <4>1, <4>2, MergeKeepsCounted, CountedCounts
      <4>4. Counted(c)[DungeonOf[r]] \in Int /\ best'[c][DungeonOf[r]] \in Int
        BY <3>1, <4>1, <4>2, MergeKeepsBest, BoardAssumption DEF Scores
      <4> QED BY <3>1, <4>1, <4>3, <4>4
    <3>3. CASE c \notin pass.chunk
      <4>1. c \in characters /\ best[c][DungeonOf[r]] >= ScoreOf[r]
        BY <2>1, <2>2, <3>3
      <4> QED BY <1>5, <3>1, <3>3, <4>1 DEF WriteChunk, UpsertCharacters
    <3> QED BY <3>2, <3>3
  <2> QED BY <2>1, <2>2 DEF board
<1>6. CASE CharactersEnd
  <2>1. /\ pass'.at \in {"prune", "done"} /\ pass'.seen = pass.seen /\ pass'.fetched = pass.fetched
        /\ pass'.clean = pass.clean /\ pass'.met = pass.met /\ pass.at = "characters" /\ pass.todo = {}
        /\ UNCHANGED <<board, ladder>>
    BY <1>6 DEF CharactersEnd, TypeOK
  <2>2. pass'.at = "done" => ~(pass.clean /\ pass.seen # {})
    BY <1>6, <2>1 DEF CharactersEnd, Prunes, TypeOK
  <2> QED BY <2>1, <2>2 DEF board, ladder
<1>7. CASE PruneRuns
  <2>1. /\ pass'.at \in {"keys", "mark"} /\ pass'.seen = pass.seen /\ pass'.fetched = pass.fetched
        /\ pass'.clean = pass.clean /\ pass'.met = pass.met /\ pass.at = "prune" /\ UNCHANGED ladder
        /\ (pass'.at = "keys" => pass.seen = {})
    BY <1>7 DEF PruneRuns, TypeOK
  <2>2. pass.seen \subseteq runs' /\ missed' \cap pass.seen = {}
    BY <1>7, <2>1 DEF PruneRuns, RemoveRuns, Fallen, board
  <2> QED BY <2>1, <2>2 DEF ladder
<1>8. CASE MarkRuns
  <2>1. /\ pass'.at = "keys" /\ pass'.seen = pass.seen /\ pass'.fetched = pass.fetched
        /\ pass'.clean = pass.clean /\ pass'.met = pass.met /\ pass.at = "mark" /\ UNCHANGED ladder
    BY <1>8 DEF MarkRuns, TypeOK
  <2>2. runs' = runs /\ missed' = runs \ pass.seen
    BY <1>8, <1>t, <2>1 DEF MarkRuns, MarkMissed
  <2> QED BY <2>1, <2>2 DEF ladder
<1>9. CASE ReadLiveKeys
  <2>1. /\ pass' = [pass EXCEPT !.at = IF NamedIn(runs) = {} THEN "done" ELSE "orphans", !.keys = NamedIn(runs)]
        /\ pass.at = "keys" /\ UNCHANGED <<board, ladder>>
    BY <1>9 DEF ReadLiveKeys
  <2>2. /\ pass'.at \in {"done", "orphans"} /\ pass'.seen = pass.seen /\ pass'.fetched = pass.fetched
        /\ pass'.clean = pass.clean /\ pass'.met = pass.met /\ pass'.keys = NamedIn(runs)
        /\ (pass'.at = "done" => NamedIn(runs) = {})
    BY <2>1 DEF TypeOK
  <2>3. NamedIn(runs)' = NamedIn(runs)
    BY <2>1 DEF NamedIn, board
  <2> QED BY <2>1, <2>2, <2>3 DEF board, ladder
<1>10. CASE RemoveOrphans
  <2>1. /\ pass'.at = "done" /\ pass'.seen = pass.seen /\ pass'.fetched = pass.fetched
        /\ pass'.clean = pass.clean /\ pass'.met = pass.met /\ pass.at = "orphans" /\ UNCHANGED board
    BY <1>10 DEF RemoveOrphans, TypeOK
  <2>2. characters' = characters \cap NamedIn(runs) /\ \A c \in Characters \cap NamedIn(runs) : best'[c] = best[c]
    <3>1. pass.keys = NamedIn(runs) /\ RemoveCharacters(characters \ pass.keys)
      BY <1>10, <2>1 DEF RemoveOrphans
    <3> QED BY <3>1 DEF RemoveCharacters
  <2>3. Stored'
    BY <2>1, <2>2 DEF NamedIn, board
  <2>4. ~pass.met => InScores(pass.seen)'
    <3> SUFFICES ASSUME ~pass.met, NEW r \in pass.seen, NEW c \in RosterOf[r]
                 PROVE  c \in characters' /\ best'[c][DungeonOf[r]] >= ScoreOf[r]
      BY <2>1
    <3>1. c \in characters /\ best[c][DungeonOf[r]] >= ScoreOf[r]
      BY <2>1
    <3>2. c \in NamedIn(runs) /\ c \in Characters
      BY <1>t, <2>1, CharactersOf DEF NamedIn
    <3> QED BY <2>2, <3>1, <3>2
  <2> QED BY <2>1, <2>3, <2>4 DEF board
<1>11. CASE PassFails
  <2>1. pass'.at = "idle"
    BY <1>11 DEF PassFails, NoPass
  <2> QED BY <2>1
<1>12. CASE PushStarts \/ PushReads \/ PushFails
  BY <1>12 DEF PushStarts, PushReads, PushFails, board, ladder, NamedIn
<1>13. CASE PushWrites
  <2>1. UNCHANGED <<board, characters, pass>>
    BY <1>13 DEF PushWrites
  <2>2. ~(pass.at \in {"characters", "merge"} /\ ~pass.met)
    BY <1>13 DEF ReadsAreFresh, PassActive, Stages, PushWrites
  <2>3. ASSUME pass.at \in {"prune", "mark", "keys", "orphans", "done"}, ~pass.met
        PROVE  InScores(pass.seen)'
    <3>1. \A some \in SUBSET Runs : InScores(some) => InScores(some)'
      BY <1>13, <2>3, PushAgrees
    <3>2. \A r \in pass.seen : \A c \in RosterOf[r] :
            c \in characters' /\ best'[c][DungeonOf[r]] >= ScoreOf[r]
      BY <1>t, <2>3, <3>1
    <3> QED BY <2>1, <3>2
  <2> QED BY <2>1, <2>2, <2>3 DEF board, NamedIn
<1>14. CASE UNCHANGED vars
  BY <1>14 DEF vars, board, ladder, NamedIn
<1> QED
  BY <1>1, <1>2, <1>3, <1>4, <1>5, <1>6, <1>7, <1>8, <1>9, <1>10, <1>11, <1>12, <1>13, <1>14 DEF Next

-----------------------------------------------------------------------------
(* The theorems.                                                             *)

BoardInv == TypeOK /\ MarksAreMisses /\ ReadsAreFresh /\ StagesAgree

LEMMA BoardInit == Init => BoardInv
<1> SUFFICES ASSUME Init PROVE BoardInv
  OBVIOUS
<1>1. TypeOK
  BY NoRunsType, NoPushType DEF TypeOK, Init, NoPass
<1>2. pass.at = "idle" /\ push.at = "idle" /\ missed = {}
  BY DEF Init, NoPass, NoPush
<1> QED
  BY <1>1, <1>2 DEF BoardInv, MarksAreMisses, ReadsAreFresh, StagesAgree, PassActive, Stages

LEMMA BoardStep == BoardInv /\ [Next]_vars => BoardInv'
  BY TypeStep, MarksStep, FreshStep, AgreeStep DEF BoardInv

LEMMA BoardInvHolds == Spec => []BoardInv
<1>1. Init => BoardInv
  BY BoardInit
<1>2. BoardInv /\ [Next]_vars => BoardInv'
  BY BoardStep
<1> QED BY <1>1, <1>2, PTL DEF Spec

(* Whatever fails, and however passes and pushes interleave, a run leaves    *)
(* the store only after two clean passes in a row without it.                *)
THEOREM NoRunIsLost == Spec => RunsKept
<1>1. BoardInv /\ [Next]_vars => [\A r \in runs \ runs' : misses[r] = 2]_vars
  BY OnlyFallenGo DEF BoardInv
<1> QED BY <1>1, BoardInvHolds, PTL DEF Spec, RunsKept

(* Unless a pass and a push overlap, no score of a character falls.          *)
THEOREM NoScoreFalls == Spec => ScoreNeverFalls
<1>1. BoardInv /\ [Next]_vars =>
        [\A c \in characters \cap characters' :
           (\E d \in Dungeons : best'[c][d] < best[c][d]) => pass.met \/ push.met]_vars
  BY OnlyOverlapsLower DEF BoardInv
<1> QED BY <1>1, BoardInvHolds, PTL DEF Spec, ScoreNeverFalls

(* What a pass read is stored and counted when it is done, and after a clean *)
(* one nothing is stored that it would have removed.                         *)
THEOREM PassLeavesAgreement == Spec => []BoardAgrees
<1>1. BoardInv => BoardAgrees
  <2> SUFFICES ASSUME BoardInv, pass.at = "done" PROVE BoardAgrees
    BY DEF BoardInv, BoardAgrees
  <2>1. (\E r \in runs : RosterOf[r] # {}) => NamedIn(runs) # {}
    BY DEF NamedIn
  <2> QED BY <2>1 DEF BoardInv, BoardAgrees, StagesAgree, InScores, Stored
<1> QED BY <1>1, BoardInvHolds, PTL

-----------------------------------------------------------------------------
(* No Mythic+ season opens unheard, for every number of seasons and callers. *)

Pending(w) == watcher[w].at \in {"saving", "saved"}

(* A season is heard of, or an observe in progress has yet to announce it,   *)
(* or a later one.                                                           *)
WillBeHeard(s) ==
  \/ \E t \in announced \cup cut : s <= t
  \/ \E w \in Watchers : /\ Pending(w) /\ s <= watcher[w].seen.season
                         /\ IsRollover(watcher[w].previous, watcher[w].seen)

(* Memory is only empty when nothing was ever stored, once the process has   *)
(* booted: it is set before the document is, and put back from it.           *)
MemoryHolds ==
  /\ running /\ observed = NoSeason => kept = NoSeason
  /\ \A w \in Watchers : watcher[w].at # "idle" => running
  /\ \A w \in Watchers : Pending(w) => observed # NoSeason

(* What is in memory, in the document, or on its way there, will be heard.   *)
SeasonsHeard ==
  /\ observed # NoSeason => WillBeHeard(observed.season)
  /\ kept # NoSeason => WillBeHeard(kept.season)
  /\ \A w \in Watchers : Pending(w) => WillBeHeard(watcher[w].seen.season)
  /\ \A w \in Watchers : watcher[w].at # "idle" => watcher[w].seen \in Observed

WatchInv == WatchTypeOK /\ MemoryHolds /\ SeasonsHeard

LEMMA ObservedType ==
  \A o \in Observed : /\ o \in [season : 1..LastSeason, ended : BOOLEAN]
                      /\ o.season \in 1..LastSeason /\ o.season \in Int /\ o # NoSeason
  BY ObservationAssumption DEF Observed, NoSeason

LEMMA WatchStarts == WatchInit => WatchInv
  BY ObservationAssumption
  DEF WatchInit, WatchInv, WatchTypeOK, MemoryHolds, SeasonsHeard, Observed, NoSeason, Resting, Pending

(* Every action keeps the types.                                             *)
LEMMA WatchTypeStep == WatchInv /\ [WatchNext]_watchVars => WatchTypeOK'
<1> SUFFICES ASSUME WatchInv, [WatchNext]_watchVars PROVE WatchTypeOK'
  OBVIOUS
<1> USE DEF WatchInv, WatchTypeOK, upstream
<1>1. CASE DatesMove
  <2>1. current.season \in 1..LastSeason /\ current.season \in Int /\ LastSeason \in Nat
    BY ObservationAssumption DEF Observed
  <2>2. /\ [current EXCEPT !.ended = TRUE] \in Observed
        /\ current.season < LastSeason => [season |-> current.season + 1, ended |-> FALSE] \in Observed
        /\ current.season > 1 => [season |-> current.season - 1, ended |-> TRUE] \in Observed
    <3>1. current.season < LastSeason => current.season + 1 \in 1..LastSeason
      BY <2>1
    <3>2. current.season > 1 => current.season - 1 \in 1..LastSeason
      BY <2>1
    <3> QED BY <3>1, <3>2 DEF Observed
  <2>3. current' \in Observed
    BY <1>1, <2>2 DEF DatesMove
  <2> QED BY <1>1, <2>3 DEF DatesMove
<1>2. CASE WatchStops
  <2>1. \A w \in Watchers : watcher[w].at # "idle" => watcher[w].seen.season \in 1..LastSeason
    BY ObservedType DEF SeasonsHeard
  <2>2. cut' \subseteq 1..LastSeason
    BY <1>2, <2>1 DEF WatchStops
  <2>3. watcher' \in [Watchers -> [at : {"idle", "resolved", "saving", "saved"}, seen : Observed \cup {NoSeason},
                               previous : Observed \cup {NoSeason}]]
    BY <1>2 DEF WatchStops, Resting
  <2> QED BY <1>2, <2>2, <2>3 DEF WatchStops
<1>3. CASE WatchBoots
  BY <1>3 DEF WatchBoots
<1>4. ASSUME NEW w \in Watchers, Resolve(w) PROVE WatchTypeOK'
  BY <1>4 DEF Resolve, Resting
<1>5. ASSUME NEW w \in Watchers, Compare(w) PROVE WatchTypeOK'
  <2>1. watcher[w].seen \in Observed /\ watcher[w].seen.season \in 1..LastSeason
    BY <1>5, ObservedType DEF Compare, WatcherAt, SeasonsHeard
  <2>2. Resting \in [at : {"idle", "resolved", "saving", "saved"}, seen : Observed \cup {NoSeason},
                     previous : Observed \cup {NoSeason}]
    BY DEF Resting
  <2>3. [watcher[w] EXCEPT !.at = "saving", !.previous = observed] \in
          [at : {"idle", "resolved", "saving", "saved"}, seen : Observed \cup {NoSeason},
           previous : Observed \cup {NoSeason}]
    OBVIOUS
  <2>4. watcher' = [watcher EXCEPT ![w] = Resting]
        \/ watcher' = [watcher EXCEPT ![w] = [watcher[w] EXCEPT !.at = "saving", !.previous = observed]]
    BY <1>5 DEF Compare
  <2>5. watcher' \in [Watchers -> [at : {"idle", "resolved", "saving", "saved"}, seen : Observed \cup {NoSeason},
                               previous : Observed \cup {NoSeason}]]
    BY <2>2, <2>3, <2>4
  <2> QED BY <1>5, <2>1, <2>5 DEF Compare
<1>6. ASSUME NEW w \in Watchers, Save(w) PROVE WatchTypeOK'
  <2>1. watcher' = [watcher EXCEPT ![w] = [@ EXCEPT !.at = "saved"]] /\ kept' = watcher[w].seen
    BY <1>6 DEF Save
  <2>2. [watcher[w] EXCEPT !.at = "saved"] \in
          [at : {"idle", "resolved", "saving", "saved"}, seen : Observed \cup {NoSeason},
           previous : Observed \cup {NoSeason}]
    OBVIOUS
  <2>3. watcher[w].seen \in Observed \cup {NoSeason}
    OBVIOUS
  <2> QED BY <1>6, <2>1, <2>2, <2>3 DEF Save
<1>7. ASSUME NEW w \in Watchers, SaveFails(w) PROVE WatchTypeOK'
  BY <1>7, ObservedType DEF SaveFails, Resting, WatcherAt, SeasonsHeard
<1>8. ASSUME NEW w \in Watchers, AnnounceSeason(w) PROVE WatchTypeOK'
  BY <1>8, ObservedType DEF AnnounceSeason, Resting, WatcherAt, SeasonsHeard
<1>9. CASE UNCHANGED watchVars
  BY <1>9 DEF watchVars
<1> QED BY <1>1, <1>2, <1>3, <1>4, <1>5, <1>6, <1>7, <1>8, <1>9 DEF WatchNext

(* What will be heard stays so: an announcement, a save that fails and a     *)
(* process that stops each leave their trace.                                *)
LEMMA HeardStays ==
  ASSUME WatchInv, [WatchNext]_watchVars, NEW s \in 1..LastSeason, WillBeHeard(s)
  PROVE  WillBeHeard(s)'
<1> USE DEF WillBeHeard, upstream
<1>1. announced \subseteq announced' /\ cut \subseteq cut'
  BY DEF WatchNext, watchVars, DatesMove, WatchStops, WatchBoots, Resolve, Compare, Save, SaveFails,
    AnnounceSeason
<1>2. CASE \E t \in announced \cup cut : s <= t
  BY <1>1, <1>2
<1>3. ASSUME NEW v \in Watchers, Pending(v), s <= watcher[v].seen.season,
             IsRollover(watcher[v].previous, watcher[v].seen)
      PROVE  WillBeHeard(s)'
  <2>1. CASE watcher'[v] = watcher[v]
    BY <1>3, <2>1 DEF Pending
  <2>2. CASE WatchStops
    BY <1>3, <2>2 DEF WatchStops, Pending
  <2>3. CASE SaveFails(v)
    BY <1>3, <2>3 DEF SaveFails
  <2>4. CASE AnnounceSeason(v)
    BY <1>3, <2>4 DEF AnnounceSeason
  <2>5. CASE Save(v)
    <3>1. watcher'[v] = [watcher[v] EXCEPT !.at = "saved"]
      BY <2>5 DEF Save, WatchInv, WatchTypeOK
    <3>2. watcher'[v].at = "saved" /\ watcher'[v].seen = watcher[v].seen /\ watcher'[v].previous = watcher[v].previous
      BY <3>1 DEF WatchInv, WatchTypeOK
    <3> QED BY <1>3, <3>2 DEF Pending
  <2>6. ~Resolve(v) /\ ~Compare(v)
    BY <1>3 DEF Pending, Resolve, Compare, WatcherAt
  <2>7. watcher'[v] = watcher[v] \/ WatchStops \/ SaveFails(v) \/ AnnounceSeason(v) \/ Save(v)
    <3>1. CASE DatesMove \/ WatchBoots \/ UNCHANGED watchVars
      BY <3>1 DEF DatesMove, WatchBoots, watchVars
    <3>2. ASSUME NEW w \in Watchers, w # v,
                 Resolve(w) \/ Compare(w) \/ Save(w) \/ SaveFails(w) \/ AnnounceSeason(w)
          PROVE  watcher'[v] = watcher[v]
      BY <3>2 DEF Resolve, Compare, Save, SaveFails, AnnounceSeason, WatchInv, WatchTypeOK
    <3> QED BY <2>6, <3>1, <3>2 DEF WatchNext
  <2> QED BY <2>1, <2>2, <2>3, <2>4, <2>5, <2>7
<1> QED BY <1>2, <1>3

(* Whatever a comparison takes for new will be heard.                        *)
LEMMA CompareHeard ==
  ASSUME WatchInv, NEW w \in Watchers, Compare(w), ~IsSameObservation(observed, watcher[w].seen)
  PROVE  WillBeHeard(watcher[w].seen.season)'
<1>1. /\ watcher' = [watcher EXCEPT ![w] = [@ EXCEPT !.at = "saving", !.previous = observed]]
      /\ announced' = IF {observed, kept} = {NoSeason} THEN announced \cup {watcher[w].seen.season} ELSE announced
      /\ cut' = cut /\ watcher[w].at = "resolved"
  BY DEF Compare, WatcherAt
<1>2. watcher'[w] = [watcher[w] EXCEPT !.at = "saving", !.previous = observed]
  BY <1>1 DEF WatchInv, WatchTypeOK
<1>3. /\ watcher'[w].at = "saving" /\ watcher'[w].previous = observed /\ watcher'[w].seen = watcher[w].seen
  BY <1>2 DEF WatchInv, WatchTypeOK
<1>4. watcher[w].seen \in Observed /\ watcher[w].seen.season \in 1..LastSeason
  BY <1>1, ObservedType DEF WatchInv, SeasonsHeard
<1>5. CASE observed = NoSeason
  <2>1. kept = NoSeason
    BY <1>1, <1>5 DEF WatchInv, MemoryHolds
  <2>2. watcher[w].seen.season \in announced' /\ watcher[w].seen.season <= watcher[w].seen.season
    BY <1>1, <1>4, <1>5, <2>1
  <2> QED BY <1>3, <2>2 DEF WillBeHeard
<1>6. CASE observed # NoSeason /\ observed.season < watcher[w].seen.season
  BY <1>3, <1>4, <1>6, ObservationAssumption DEF WillBeHeard, Pending, IsRollover
<1>7. CASE observed # NoSeason /\ ~(observed.season < watcher[w].seen.season)
  <2>1. observed \in Observed /\ observed.season \in 1..LastSeason
    BY <1>7, ObservedType DEF WatchInv, WatchTypeOK
  <2>2. PICK s \in 1..LastSeason : s = observed.season
    BY <2>1
  <2>3. WillBeHeard(s)
    BY <1>7, <2>2 DEF WatchInv, SeasonsHeard
  <2>4. WillBeHeard(s)'
    BY <2>3, HeardStays DEF WatchNext
  <2>5. watcher'[w].seen.season <= s /\ watcher'[w].seen.season \in Int /\ s \in Int
    BY <1>3, <1>4, <1>7, <2>1, <2>2, ObservationAssumption
  <2>6. announced' \cup cut' \subseteq Int /\ \A v \in Watchers : Pending(v)' => watcher'[v].seen.season \in Int
    <3>1. WatchTypeOK'
      BY WatchTypeStep DEF WatchNext
    <3>2. \A v \in Watchers : watcher'[v].seen \in Observed \cup {NoSeason}
      BY <3>1 DEF WatchTypeOK
    <3> QED BY <3>1, <3>2, ObservedType, ObservationAssumption DEF WatchTypeOK, NoSeason
  <2> QED BY <2>4, <2>5, <2>6 DEF WillBeHeard
<1> QED BY <1>5, <1>6, <1>7

(* Every action keeps what is in memory, stored or pending heard of.         *)
LEMMA SeasonsStep == WatchInv /\ [WatchNext]_watchVars => SeasonsHeard'
<1> SUFFICES ASSUME WatchInv, [WatchNext]_watchVars PROVE SeasonsHeard'
  OBVIOUS
<1>1. \A s \in 1..LastSeason : WillBeHeard(s) => WillBeHeard(s)'
  BY HeardStays
<1>2. \A o \in Observed : WillBeHeard(o.season) => WillBeHeard(o.season)'
  BY <1>1, ObservedType
<1>3. \A w \in Watchers : Pending(w) => watcher[w].seen \in Observed /\ WillBeHeard(watcher[w].seen.season)
  BY DEF WatchInv, SeasonsHeard, Pending
<1>4. WatchTypeOK'
  BY WatchTypeStep
<1>5. ASSUME NEW o \in Observed, o \in {observed, kept} \/ \E w \in Watchers : Pending(w) /\ o = watcher[w].seen
      PROVE  WillBeHeard(o.season)'
  BY <1>2, <1>3, <1>5, ObservedType DEF WatchInv, SeasonsHeard
<1>6. \A w \in Watchers : watcher'[w].at # "idle" => watcher'[w].seen \in Observed
  <2>1. ASSUME NEW w \in Watchers,
               Resolve(w) \/ Compare(w) \/ Save(w) \/ SaveFails(w) \/ AnnounceSeason(w)
        PROVE  \A v \in Watchers : watcher'[v].at # "idle" => watcher'[v].seen \in Observed
    <3>1. \A v \in Watchers \ {w} : watcher'[v] = watcher[v]
      BY <2>1 DEF Resolve, Compare, Save, SaveFails, AnnounceSeason, WatchInv, WatchTypeOK
    <3>2. watcher'[w] = Resting \/ watcher'[w].seen = current
          \/ (watcher'[w].seen = watcher[w].seen /\ watcher[w].at # "idle")
      <4>1. CASE Resolve(w)
        BY <4>1 DEF Resolve, Resting, WatchInv, WatchTypeOK
      <4>2. CASE Compare(w)
        <5>1. watcher'[w] = Resting \/ watcher'[w] = [watcher[w] EXCEPT !.at = "saving", !.previous = observed]
          BY <4>2 DEF Compare, WatchInv, WatchTypeOK
        <5> QED BY <4>2, <5>1 DEF Compare, WatcherAt, WatchInv, WatchTypeOK
      <4>3. CASE Save(w)
        <5>1. watcher'[w] = [watcher[w] EXCEPT !.at = "saved"]
          BY <4>3 DEF Save, WatchInv, WatchTypeOK
        <5> QED BY <4>3, <5>1 DEF Save, WatcherAt, WatchInv, WatchTypeOK
      <4>4. CASE SaveFails(w) \/ AnnounceSeason(w)
        BY <4>4 DEF SaveFails, AnnounceSeason, WatchInv, WatchTypeOK
      <4> QED BY <2>1, <4>1, <4>2, <4>3, <4>4
    <3>3. watcher'[w].at # "idle" => watcher'[w].seen \in Observed
      BY <3>2 DEF Resting, WatchInv, WatchTypeOK, SeasonsHeard
    <3> QED BY <3>1, <3>3 DEF WatchInv, SeasonsHeard
  <2>2. CASE DatesMove \/ WatchStops \/ WatchBoots \/ UNCHANGED watchVars
    BY <2>2 DEF DatesMove, WatchStops, WatchBoots, watchVars, Resting, WatchInv, SeasonsHeard
  <2> QED BY <2>1, <2>2 DEF WatchNext
<1>7. CASE \E w \in Watchers : Compare(w) /\ ~IsSameObservation(observed, watcher[w].seen)
  <2>1. PICK w \in Watchers : Compare(w) /\ ~IsSameObservation(observed, watcher[w].seen)
    BY <1>7
  <2>2. WillBeHeard(watcher[w].seen.season)'
    BY <2>1, CompareHeard
  <2>3. /\ observed' = watcher[w].seen /\ kept' = kept /\ watcher[w].at = "resolved"
        /\ \A v \in Watchers \ {w} : watcher'[v] = watcher[v]
        /\ watcher'[w].seen = watcher[w].seen
    BY <2>1 DEF Compare, WatcherAt, WatchInv, WatchTypeOK
  <2>4. \A v \in Watchers : Pending(v)' => WillBeHeard(watcher[v].seen.season)'
    <3>1. ASSUME NEW v \in Watchers, v # w, Pending(v)' PROVE WillBeHeard(watcher[v].seen.season)'
      <4>1. Pending(v) /\ watcher'[v].seen = watcher[v].seen
        BY <2>3, <3>1 DEF Pending
      <4> QED BY <1>3, <1>5, <4>1 DEF WillBeHeard
    <3> QED BY <2>2, <3>1
  <2>5. kept' # NoSeason => WillBeHeard(kept.season)'
    BY <1>5, <2>3 DEF WatchInv, WatchTypeOK, WillBeHeard
  <2>6. WillBeHeard(observed.season)'
    BY <2>2, <2>3 DEF WillBeHeard
  <2> QED BY <1>6, <2>4, <2>5, <2>6 DEF SeasonsHeard
<1>8. CASE ~\E w \in Watchers : Compare(w) /\ ~IsSameObservation(observed, watcher[w].seen)
  <2>1. \A v \in Watchers : Pending(v)' => Pending(v) /\ watcher'[v].seen = watcher[v].seen
    <3>1. ASSUME NEW w \in Watchers,
                 Resolve(w) \/ Compare(w) \/ Save(w) \/ SaveFails(w) \/ AnnounceSeason(w),
                 NEW v \in Watchers, Pending(v)'
          PROVE  Pending(v) /\ watcher'[v].seen = watcher[v].seen
      <4>1. CASE v # w
        <5>1. watcher'[v] = watcher[v]
          BY <3>1, <4>1 DEF Resolve, Compare, Save, SaveFails, AnnounceSeason, WatchInv, WatchTypeOK
        <5> QED BY <3>1, <5>1 DEF Pending
      <4>2. CASE v = w /\ (Resolve(w) \/ Compare(w) \/ SaveFails(w) \/ AnnounceSeason(w))
        <5>1. watcher' = [watcher EXCEPT ![w] = Resting]
              \/ watcher' = [watcher EXCEPT ![w] = [Resting EXCEPT !.at = "resolved", !.seen = current]]
          <6>1. CASE Compare(w)
            <7>1. IsSameObservation(observed, watcher[w].seen)
              BY <1>8, <6>1
            <7> QED BY <6>1, <7>1 DEF Compare
          <6> QED BY <4>2, <6>1 DEF Resolve, SaveFails, AnnounceSeason
        <5>2. watcher'[w].at \in {"resolved", "idle"}
          <6>1. DOMAIN watcher = Watchers
            BY DEF WatchInv, WatchTypeOK
          <6>2. watcher'[w] = Resting \/ watcher'[w] = [Resting EXCEPT !.at = "resolved", !.seen = current]
            BY <5>1, <6>1
          <6>3. Resting.at = "idle" /\ [Resting EXCEPT !.at = "resolved", !.seen = current].at = "resolved"
            BY DEF Resting
          <6> QED BY <6>2, <6>3
        <5> QED BY <3>1, <4>2, <5>2 DEF Pending
      <4>3. CASE v = w /\ Save(w)
        <5>1. watcher'[w] = [watcher[w] EXCEPT !.at = "saved"]
          BY <4>3 DEF Save, WatchInv, WatchTypeOK
        <5> QED BY <4>3, <5>1 DEF Save, WatcherAt, Pending, WatchInv, WatchTypeOK
      <4> QED BY <3>1, <4>1, <4>2, <4>3
    <3>2. CASE DatesMove \/ WatchStops \/ WatchBoots \/ UNCHANGED watchVars
      BY <3>2 DEF DatesMove, WatchStops, WatchBoots, watchVars, Resting, Pending
    <3> QED BY <3>1, <3>2 DEF WatchNext
  <2>2. observed' \in {observed, kept, NoSeason}
    BY <1>8 DEF WatchNext, watchVars, upstream, DatesMove, WatchStops, WatchBoots, Resolve, Compare, Save,
                SaveFails, AnnounceSeason
  <2>3. kept' = kept \/ \E w \in Watchers : Pending(w) /\ kept' = watcher[w].seen
    BY DEF WatchNext, watchVars, upstream, DatesMove, WatchStops, WatchBoots, Resolve, Compare, Save,
           SaveFails, AnnounceSeason, Pending, WatcherAt
  <2>4. observed' # NoSeason => WillBeHeard(observed.season)'
    BY <1>5, <2>2 DEF WatchInv, WatchTypeOK, WillBeHeard
  <2>5. kept' # NoSeason => WillBeHeard(kept.season)'
    BY <1>3, <1>5, <2>3 DEF WatchInv, WatchTypeOK, WillBeHeard
  <2>6. \A v \in Watchers : Pending(v)' => WillBeHeard(watcher[v].seen.season)'
    BY <1>3, <1>5, <2>1 DEF WillBeHeard
  <2> QED BY <1>6, <2>4, <2>5, <2>6 DEF SeasonsHeard
<1> QED BY <1>7, <1>8

(* Every action keeps memory ahead of the document.                          *)
LEMMA MemoryStep == WatchInv /\ [WatchNext]_watchVars => MemoryHolds'
<1> SUFFICES ASSUME WatchInv, [WatchNext]_watchVars PROVE MemoryHolds'
  OBVIOUS
<1> USE DEF MemoryHolds, WatchInv, upstream
<1>1. CASE DatesMove \/ UNCHANGED watchVars
  BY <1>1 DEF DatesMove, watchVars, Pending
<1>2. CASE WatchStops
  BY <1>2 DEF WatchStops, Resting, Pending
<1>3. CASE WatchBoots
  BY <1>3 DEF WatchBoots, Pending
<1>4. ASSUME NEW w \in Watchers,
             Resolve(w) \/ Compare(w) \/ Save(w) \/ SaveFails(w) \/ AnnounceSeason(w)
      PROVE  MemoryHolds'
  <2>1. running /\ running' = running
    BY <1>4 DEF Resolve, Compare, Save, SaveFails, AnnounceSeason, WatcherAt
  <2>2. observed' = observed \/ (Compare(w) /\ observed' = watcher[w].seen)
    BY <1>4 DEF Resolve, Compare, Save, SaveFails, AnnounceSeason
  <2>3. observed' = NoSeason => observed = NoSeason
    BY <2>2, ObservedType DEF Compare, WatcherAt, SeasonsHeard
  <2>4. observed' = NoSeason => kept' = NoSeason
    <3>1. Save(w) => Pending(w)
      BY DEF Save, WatcherAt, Pending
    <3>2. observed = NoSeason => kept' = kept
      BY <1>4, <3>1 DEF Resolve, Compare, Save, SaveFails, AnnounceSeason
    <3> QED BY <2>1, <2>3, <3>2
  <2>5. ASSUME NEW v \in Watchers, Pending(v)', observed' = NoSeason PROVE FALSE
    <3>1. observed = NoSeason /\ ~Pending(v)
      BY <2>3, <2>5
    <3>2. watcher' = [watcher EXCEPT ![w] = Resting]
          \/ watcher' = [watcher EXCEPT ![w] = [Resting EXCEPT !.at = "resolved", !.seen = current]]
          \/ (Compare(w) /\ observed' = watcher[w].seen) \/ Save(w)
      BY <1>4 DEF Resolve, Compare, SaveFails, AnnounceSeason
    <3>3. ~(Compare(w) /\ observed' = watcher[w].seen) /\ ~Save(w)
      BY <2>5, <3>1, ObservedType DEF Compare, Save, WatcherAt, SeasonsHeard, Pending
    <3>4. DOMAIN watcher = Watchers
      BY DEF WatchTypeOK
    <3>5. Resting.at = "idle" /\ [Resting EXCEPT !.at = "resolved", !.seen = current].at = "resolved"
      BY DEF Resting
    <3>6. watcher'[v] = watcher[v] \/ watcher'[v] = Resting
          \/ watcher'[v] = [Resting EXCEPT !.at = "resolved", !.seen = current]
      BY <3>2, <3>3, <3>4
    <3> QED BY <2>5, <3>1, <3>5, <3>6 DEF Pending
  <2> QED BY <2>1, <2>4, <2>5 DEF Pending
<1> QED BY <1>1, <1>2, <1>3, <1>4 DEF WatchNext

(* However the observes of the check and of the passes overlap, fail and are *)
(* cut off, and however the dates are put off again, a season that opened is *)
(* heard of.                                                                 *)
THEOREM EveryOpeningIsHeard == WatchSpec => []OpeningIsHeard
<1>1. WatchInit => WatchInv
  BY WatchStarts
<1>2. WatchInv /\ [WatchNext]_watchVars => WatchInv'
  BY WatchTypeStep, MemoryStep, SeasonsStep DEF WatchInv
<1>3. WatchInv => OpeningIsHeard
  BY DEF WatchInv, SeasonsHeard, OpeningIsHeard, WillBeHeard, Pending, WatcherAt
<1> QED BY <1>1, <1>2, <1>3, PTL DEF WatchSpec

-----------------------------------------------------------------------------
(* No raid that is there is taken for gone, for every number of raids and    *)
(* expansions.                                                               *)

(* A raid that is listed lies in an expansion known when the walk began, or  *)
(* was served by it.  Of the expansions behind the walk, the raids listed    *)
(* were served, had gone, or lie in a hole.                                  *)
WalkSound ==
  walk.on => \A r \in Listed :
    /\ ExpansionOf[r] <= walk.newest \/ ExpansionOf[r] < walk.next
    /\ ExpansionOf[r] < walk.next => walk.holes \/ r \in walk.gone \/ ~(seenAt[r] < walk.at)

CatalogueInv == CatalogueTypeOK /\ WalkSound

WalkType == [on : BOOLEAN, at : 0..LastDay, next : 1..MaxWalked, newest : 0..MaxWalked,
             holes : BOOLEAN, served : BOOLEAN, gone : SUBSET Raids]

LEMMA ExpansionTypes ==
  /\ MaxWalked \in Nat \ {0} /\ LastDay \in Nat \ {0}
  /\ \A r \in Raids : ExpansionOf[r] \in 1..MaxWalked /\ ExpansionOf[r] \in Nat
  /\ NoWalk \in WalkType /\ NoWalk.on = FALSE
<1>1. MaxWalked \in Nat \ {0} /\ LastDay \in Nat \ {0} /\ ExpansionOf \in [Raids -> 1..MaxWalked]
  BY CatalogueAssumption
<1>2. 1 \in 1..MaxWalked /\ 0 \in 0..MaxWalked /\ 0 \in 0..LastDay
  BY <1>1
<1>3. NoWalk \in WalkType /\ NoWalk.on = FALSE
  BY <1>2 DEF NoWalk, WalkType
<1> QED BY <1>1, <1>3

(* A set of expansions has a newest one.                                     *)
LEMMA NewestExists ==
  ASSUME NEW S, S # {}, S \subseteq 0..MaxWalked
  PROVE  Max(S) \in S /\ \A y \in S : y <= Max(S)
<1>1. MaxWalked \in Nat
  BY ExpansionTypes
<1> DEFINE Below == {n \in Nat : MaxWalked - n \in S}
<1>2. \A x \in S : x \in Int /\ MaxWalked - x \in Below
  BY <1>1
<1>3. PICK t \in Below : \A u \in Below : ~(<<u, t>> \in OpToRel(<, Nat))
  BY <1>2, NatLessThanWellFounded, WFMin
<1>4. \A y \in S : MaxWalked - t >= y
  <2> SUFFICES ASSUME NEW y \in S PROVE MaxWalked - t >= y
    OBVIOUS
  <2>1. ~(MaxWalked - y < t) /\ t \in Nat
    BY <1>2, <1>3 DEF OpToRel
  <2> QED BY <1>1, <1>2, <2>1
<1>5. MaxWalked - t \in S
  BY <1>3
<1>6. \A x, y \in S : x >= y <=> y <= x
  BY <1>2
<1> QED BY <1>4, <1>5, <1>6 DEF Max

(* The newest expansion stored is no older than any that is listed.          *)
LEMMA NewestKnown ==
  LET newest == Max({0} \cup {ExpansionOf[r] : r \in Listed})
  IN  newest \in 0..MaxWalked /\ \A r \in Listed : ExpansionOf[r] <= newest
<1> DEFINE S == {0} \cup {ExpansionOf[r] : r \in Listed}
<1>1. S # {} /\ S \subseteq 0..MaxWalked
  BY ExpansionTypes DEF Listed
<1>2. Max(S) \in S /\ \A y \in S : y <= Max(S)
  <2> HIDE DEF S
  <2> QED BY <1>1, NewestExists
<1> QED BY <1>1, <1>2

LEMMA CatalogueStarts == CatalogueInit => CatalogueInv
<1> SUFFICES ASSUME CatalogueInit PROVE CatalogueInv
  OBVIOUS
<1>1. 1 \in 1..LastDay /\ 0 \in 0..LastDay
  BY ExpansionTypes
<1> QED BY <1>1, ExpansionTypes
        DEF CatalogueInit, CatalogueInv, CatalogueTypeOK, WalkSound, WalkType

(* A walk that goes on to the next expansion, having been served all of this *)
(* one that exists, or leaving a hole.                                       *)
LEMMA WalkOnStep ==
  ASSUME CatalogueInv, walk.on, NEW served \in BOOLEAN, NEW holes \in BOOLEAN, WalkOn(served, holes)
  PROVE  /\ walk' \in WalkType
         /\ walk'.on => /\ walk'.next = walk.next + 1 /\ walk'.at = walk.at /\ walk'.newest = walk.newest
                        /\ walk'.gone = walk.gone \cup Absent /\ walk'.holes = (walk.holes \/ holes)
<1>1. walk \in WalkType
  BY DEF CatalogueInv, CatalogueTypeOK, WalkType
<1>2. CASE walk.next = MaxWalked
  BY <1>2, ExpansionTypes DEF WalkOn
<1>3. CASE walk.next # MaxWalked
  <2>1. walk' = [walk EXCEPT !.next = walk.next + 1, !.gone = walk.gone \cup Absent,
                             !.served = walk.served \/ served, !.holes = walk.holes \/ holes]
    BY <1>1, <1>3 DEF WalkOn, WalkType
  <2>2. walk.next + 1 \in 1..MaxWalked /\ walk.gone \cup Absent \subseteq Raids
    BY <1>1, <1>3, ExpansionTypes DEF WalkType, Absent, Of
  <2> QED BY <1>1, <2>1, <2>2 DEF WalkType
<1> QED BY <1>2, <1>3

(* What a walk that ends takes for gone was listed and not served by it.     *)
LEMMA WalkEndsStep ==
  ASSUME CatalogueInv, walk.on, NEW complete \in BOOLEAN, WalkEnds(complete)
  PROVE  /\ walk' = NoWalk /\ unlisted' \subseteq {r \in Raids : seenAt[r] > 0}
         /\ \A r \in unlisted' \ unlisted : complete /\ r \in Listed /\ seenAt[r] < walk.at
  BY DEF WalkEnds, Listed, CatalogueInv, CatalogueTypeOK

(* Every action keeps the types, and what the walk knows.                    *)
LEMMA CatalogueStep == CatalogueInv /\ [CatalogueNext]_catalogueVars => CatalogueInv'
<1> SUFFICES ASSUME CatalogueInv, [CatalogueNext]_catalogueVars PROVE CatalogueInv'
  OBVIOUS
<1>0. /\ CatalogueTypeOK /\ WalkSound /\ walk \in WalkType /\ day \in 1..LastDay /\ day \in Nat
      /\ seenAt \in [Raids -> 0..LastDay] /\ walk.next \in Nat /\ walk.newest \in Nat /\ walk.at \in 0..LastDay
  BY ExpansionTypes DEF CatalogueInv, CatalogueTypeOK, WalkType
<1>1. CASE UNCHANGED catalogueVars
  BY <1>0, <1>1 DEF CatalogueInv, catalogueVars, CatalogueTypeOK, WalkSound, Listed
<1>2. CASE DayPasses
  <2>1. day' \in 1..LastDay
    BY <1>0, <1>2, ExpansionTypes DEF DayPasses
  <2> QED BY <1>0, <1>2, <2>1 DEF DayPasses, CatalogueInv, CatalogueTypeOK, WalkSound, Listed
<1>3. ASSUME NEW r \in Raids, RaidAppearsOrGoes(r) PROVE CatalogueInv'
  BY <1>0, <1>3 DEF RaidAppearsOrGoes, CatalogueInv, CatalogueTypeOK, WalkSound, Listed
<1>4. CASE WalkStarts
  <2> DEFINE newest == Max({0} \cup {ExpansionOf[r] : r \in Listed})
  <2>1. newest \in 0..MaxWalked /\ \A r \in Listed : ExpansionOf[r] <= newest
    BY NewestKnown
  <2>2. walk' = [NoWalk EXCEPT !.on = TRUE, !.at = day, !.newest = newest]
    BY <1>4 DEF WalkStarts
  <2> HIDE DEF newest
  <2>3. walk' \in WalkType /\ walk'.next = 1 /\ walk'.newest = newest
    <3>1. day \in 0..LastDay
      BY <1>0
    <3> QED BY <2>1, <2>2, <3>1, ExpansionTypes DEF NoWalk, WalkType
  <2>4. WalkSound'
    <3>1. Listed' = Listed /\ \A r \in Listed : r \in Raids
      BY <1>4 DEF WalkStarts, Listed
    <3>2. \A r \in Listed : ~(ExpansionOf[r] < 1)
      BY <3>1, ExpansionTypes
    <3> QED BY <2>1, <2>3, <3>1, <3>2 DEF WalkSound
  <2> QED BY <1>0, <1>4, <2>3, <2>4 DEF WalkStarts, CatalogueInv, CatalogueTypeOK, WalkType
<1>5. CASE ExpansionServed
  <2> DEFINE served == Of(walk.next) \cap exist
  <2>1. /\ seenAt' = [r \in Raids |-> IF r \in served THEN walk.at ELSE seenAt[r]]
        /\ unlisted' = unlisted \ served /\ UNCHANGED <<day, exist, emptied>> /\ walk.on
        /\ WalkOn(TRUE, FALSE)
    BY <1>5 DEF ExpansionServed
  <2>2. /\ walk' \in WalkType
        /\ walk'.on => /\ walk'.next = walk.next + 1 /\ walk'.at = walk.at /\ walk'.newest = walk.newest
                       /\ walk'.gone = walk.gone \cup Absent /\ walk'.holes = walk.holes
    <3>1. /\ walk' \in WalkType
          /\ walk'.on => /\ walk'.next = walk.next + 1 /\ walk'.at = walk.at /\ walk'.newest = walk.newest
                         /\ walk'.gone = walk.gone \cup Absent /\ walk'.holes = (walk.holes \/ FALSE)
      BY <2>1, WalkOnStep
    <3>2. (walk.holes \/ FALSE) = walk.holes
      BY <1>0 DEF WalkType
    <3> QED BY <3>1, <3>2
  <2>3. CatalogueTypeOK'
    BY <1>0, <2>1, <2>2 DEF CatalogueTypeOK, WalkType
  <2>4. ASSUME walk'.on, NEW r \in Listed'
        PROVE  /\ ExpansionOf[r] <= walk'.newest \/ ExpansionOf[r] < walk'.next
               /\ ExpansionOf[r] < walk'.next => walk'.holes \/ r \in walk'.gone \/ ~(seenAt'[r] < walk'.at)
    <3>1. r \in Raids /\ ExpansionOf[r] \in Nat
      BY <2>4, ExpansionTypes DEF Listed
    <3>2. CASE r \in served
      <4>1. seenAt'[r] = walk'.at /\ ExpansionOf[r] = walk.next /\ walk.at \in Int
        BY <1>0, <2>1, <2>2, <2>4, <3>1, <3>2 DEF Of
      <4> QED BY <1>0, <2>2, <2>4, <4>1
    <3>3. CASE r \notin served
      <4>1. r \in Listed /\ seenAt'[r] = seenAt[r]
        BY <2>1, <2>4, <3>1, <3>3 DEF Listed
      <4>2. ExpansionOf[r] = walk.next => r \in walk'.gone
        BY <2>2, <2>4, <3>1, <3>3 DEF Absent, Of
      <4>3. /\ ExpansionOf[r] <= walk.newest \/ ExpansionOf[r] < walk.next
            /\ ExpansionOf[r] < walk.next => walk.holes \/ r \in walk.gone \/ ~(seenAt[r] < walk.at)
        BY <1>0, <2>1, <4>1 DEF WalkSound
      <4> QED BY <1>0, <2>2, <2>4, <3>1, <4>1, <4>2, <4>3
    <3> QED BY <3>2, <3>3
  <2> QED BY <2>3, <2>4 DEF CatalogueInv, WalkSound
<1>6. CASE Refused /\ walk.next <= walk.newest /\ WalkOn(FALSE, TRUE) /\ UNCHANGED unlisted
  <2>1. /\ walk' \in WalkType
        /\ walk'.on => /\ walk'.next = walk.next + 1 /\ walk'.newest = walk.newest /\ walk'.holes
    BY <1>6, WalkOnStep DEF Refused
  <2>2. UNCHANGED <<day, exist, seenAt, emptied, unlisted>> /\ walk.on
    BY <1>6 DEF Refused
  <2>3. Listed' = Listed /\ \A r \in Listed : ExpansionOf[r] \in Nat
    BY <2>2, ExpansionTypes DEF Listed
  <2>4. WalkSound'
    BY <1>0, <2>1, <2>2, <2>3 DEF WalkSound
  <2> QED BY <1>0, <2>1, <2>2, <2>4 DEF CatalogueInv, CatalogueTypeOK, WalkType
<1>7. ASSUME walk.on, NEW complete \in BOOLEAN, WalkEnds(complete),
             UNCHANGED <<day, exist, seenAt>>, emptied' \in BOOLEAN
      PROVE  CatalogueInv'
  <2>1. walk' \in WalkType /\ walk'.on = FALSE /\ unlisted' \subseteq {r \in Raids : seenAt[r] > 0}
    BY <1>7, WalkEndsStep, ExpansionTypes
  <2> QED BY <1>0, <1>7, <2>1 DEF CatalogueInv, CatalogueTypeOK, WalkSound, WalkType
<1>8. CASE Refused /\ WalkEnds(~walk.holes)
  <2>1. (~walk.holes) \in BOOLEAN /\ emptied' \in BOOLEAN /\ walk.on /\ UNCHANGED <<day, exist, seenAt>>
    BY <1>0, <1>8 DEF WalkType, Refused, CatalogueTypeOK
  <2> QED BY <1>7, <1>8, <2>1
<1>9. CASE AnsweredEmpty \/ WalkFails
  <2>1. emptied' \in BOOLEAN
    BY <1>0, <1>9 DEF AnsweredEmpty, WalkFails, CatalogueTypeOK
  <2> QED BY <1>7, <1>9, <2>1 DEF AnsweredEmpty, WalkFails
<1> QED BY <1>1, <1>2, <1>3, <1>4, <1>5, <1>6, <1>8, <1>9 DEF CatalogueNext, Refused

(* Whatever expansions a walk is refused, and whatever comes and goes beside *)
(* it, it takes for gone only what did not exist when it asked, but for an   *)
(* answer without raids.                                                     *)
THEOREM NothingThereIsUnlisted == CatalogueSpec => OnlyGoneUnlisted
<1>1. CatalogueInit => CatalogueInv
  BY CatalogueStarts
<1>2. CatalogueInv /\ [CatalogueNext]_catalogueVars => CatalogueInv'
  BY CatalogueStep
<1>3. CatalogueInv /\ [CatalogueNext]_catalogueVars =>
        [CatalogueTypeOK' /\ (emptied' \/ unlisted' \ unlisted \subseteq walk.gone)]_catalogueVars
  <2> SUFFICES ASSUME CatalogueInv, CatalogueNext
               PROVE  CatalogueTypeOK' /\ (emptied' \/ unlisted' \ unlisted \subseteq walk.gone)
    OBVIOUS
  <2>1. CatalogueTypeOK'
    BY CatalogueStep DEF CatalogueInv
  <2>2. CASE DayPasses \/ WalkStarts \/ AnsweredEmpty \/ ExpansionServed
             \/ \E r \in Raids : RaidAppearsOrGoes(r)
    BY <2>1, <2>2 DEF DayPasses, WalkStarts, AnsweredEmpty, ExpansionServed, RaidAppearsOrGoes
  <2>3. CASE WalkFails
    BY <2>1, <2>3, WalkEndsStep DEF WalkFails
  <2>4. CASE Refused
    <3>1. CASE UNCHANGED unlisted
      BY <2>1, <3>1
    <3>2. CASE walk.next > walk.newest /\ WalkEnds(~walk.holes)
      <4>1. walk \in WalkType /\ walk.on /\ (~walk.holes) \in BOOLEAN
        BY <2>4 DEF Refused, CatalogueInv, CatalogueTypeOK, WalkType
      <4>2. ASSUME NEW r \in unlisted' \ unlisted PROVE r \in walk.gone
        <5>1. ~walk.holes /\ r \in Listed /\ seenAt[r] < walk.at
          BY <3>2, <4>1, <4>2, WalkEndsStep
        <5>2. ExpansionOf[r] \in Nat /\ walk.next \in Nat /\ walk.newest \in Nat
          BY <4>1, <5>1, ExpansionTypes DEF Listed, WalkType
        <5>3. /\ ExpansionOf[r] <= walk.newest \/ ExpansionOf[r] < walk.next
              /\ ExpansionOf[r] < walk.next => walk.holes \/ r \in walk.gone \/ ~(seenAt[r] < walk.at)
          BY <4>1, <5>1 DEF CatalogueInv, WalkSound
        <5> QED BY <3>2, <5>1, <5>2, <5>3
      <4> QED BY <2>1, <4>2
    <3> QED BY <2>4, <3>1, <3>2 DEF Refused
  <2> QED BY <2>2, <2>3, <2>4 DEF CatalogueNext
<1> QED BY <1>1, <1>2, <1>3, PTL DEF CatalogueSpec, OnlyGoneUnlisted

-----------------------------------------------------------------------------
(* A board that is left alone shows the end, and an ended run begins nothing, *)
(* for every number of boards, workers and failures.                         *)

(* The workers of a kind, and nothing else, have a place.                    *)
WorkersPlaced ==
  /\ DOMAIN worker = Kinds
  /\ \A k \in Kinds : DOMAIN worker[k] = WorkersOf[k]

(* What is read was asked for after the moment it will be stamped with, and  *)
(* every stamp lies before the reading it stands for.                        *)
StampsAreEarly ==
  /\ \A b \in Boards : readAt[b] <= askedAt[b]
  /\ \A k \in Kinds : run[k].at # "idle" => run[k].now \in Moments /\ run[k].now <= moment
  /\ \A k \in Kinds : \A w \in WorkersOf[k] :
       worker[k][w].at = "reading" => worker[k][w].board \in Boards /\ run[k].now <= worker[k][w].since

(* Only a run that reads has workers, and a board that one of them reads is  *)
(* no longer due.                                                            *)
BoardsAreShared ==
  \A k \in Kinds : \A w \in WorkersOf[k] :
    /\ run[k].at # "reading" => worker[k][w].at = "off"
    /\ worker[k][w].at = "reading" => worker[k][w].board \notin run[k].due

RunType == [at : {"idle", "asked", "reading"}, now : Moments \cup {NotYet},
            due : SUBSET Boards, failures : Nat, stopped : BOOLEAN]
PlaceType == [at : {"off", "head", "waiting", "reading"}, board : Boards \cup {NoBoard},
              since : Moments \cup {NotYet}]

(* A step of one worker: it goes to a place without a board, or takes one.   *)
WorkerStep(k, w) ==
  WorkerLooks(k, w) \/ WaitEnds(k, w) \/ BoardRead(k, w) \/ BoardRefused(k, w) \/ BoardFails(k, w)

StepEffect(k, w) ==
  \E r \in RunType, x \in PlaceType :
    /\ run' = [run EXCEPT ![k] = r] /\ worker' = [worker EXCEPT ![k][w] = x]
    /\ r.at = run[k].at /\ r.now = run[k].now /\ r.due \subseteq run[k].due
    /\ x.at = "reading" => x.board \in run[k].due \ r.due /\ x.since = moment

RaidInv == RaidTypeOK /\ WorkersPlaced /\ StampsAreEarly /\ BoardsAreShared

LEMMA RaidStarts == RaidInit => RaidInv
<1> SUFFICES ASSUME RaidInit PROVE RaidInv
  OBVIOUS
<1>1. 1 \in Moments /\ Moments \subseteq Nat
  BY BoardsAssumption DEF Moments
<1>2. RaidTypeOK
  BY <1>1 DEF RaidInit, RaidTypeOK, NoRun, NoWorkers, Off, NotYet
<1>3. WorkersPlaced /\ StampsAreEarly /\ BoardsAreShared
  BY DEF RaidInit, WorkersPlaced, StampsAreEarly, BoardsAreShared, NoRun, NoWorkers, Off, NotYet
<1> QED BY <1>2, <1>3 DEF RaidInv

LEMMA MomentTypes == /\ Moments \subseteq Nat /\ 1 \in Moments /\ NotYet = 0 /\ NotYet \notin Moments
                     /\ Open \in Nat
  BY BoardsAssumption DEF Moments, NotYet, Open

(* A worker's step changes its own place and the run it is in.               *)
LEMMA WorkerEffect ==
  ASSUME RaidInv, NEW k \in Kinds, NEW w \in WorkersOf[k], WorkerStep(k, w)
  PROVE  /\ worker[k][w].at # "off"
         /\ StepEffect(k, w)
         /\ UNCHANGED <<moment, closes, stopping>>
<1> USE DEF RaidInv
<1>1. /\ run[k] \in RunType /\ DOMAIN run = Kinds /\ moment \in Moments
  BY DEF RaidTypeOK, RunType
<1>2. \A p \in {"off", "head", "waiting"} : /\ [Off EXCEPT !.at = p] \in PlaceType
                                           /\ [Off EXCEPT !.at = p].at # "reading"
  BY DEF Off, PlaceType, NotYet
<1>3. \A s \in BOOLEAN, n \in Nat : [run[k] EXCEPT !.stopped = s, !.failures = n] \in RunType
  BY <1>1 DEF RunType
<1>4. \A b \in run[k].due : /\ [run[k] EXCEPT !.due = @ \ {b}] \in RunType
                            /\ [at |-> "reading", board |-> b, since |-> moment] \in PlaceType
  BY <1>1 DEF RunType, PlaceType
<1>5. ASSUME NEW s \in BOOLEAN, NEW n \in Nat, NEW p \in {"off", "head", "waiting"},
             run' = [run EXCEPT ![k] = [run[k] EXCEPT !.stopped = s, !.failures = n]], WorkerTo(k, w, p)
      PROVE  StepEffect(k, w)
  <2> DEFINE R == [run[k] EXCEPT !.stopped = s, !.failures = n]
             X == [Off EXCEPT !.at = p]
  <2>1. /\ R \in RunType /\ X \in PlaceType /\ X.at # "reading"
        /\ R.at = run[k].at /\ R.now = run[k].now /\ R.due = run[k].due
    BY <1>1, <1>2, <1>3 DEF RunType
  <2>2. run' = [run EXCEPT ![k] = R] /\ worker' = [worker EXCEPT ![k][w] = X]
    BY <1>5 DEF WorkerTo
  <2> QED BY <2>1, <2>2 DEF StepEffect
<1>6. ASSUME Takes(k, w)
      PROVE  StepEffect(k, w)
  <2>1. PICK b \in run[k].due : /\ run' = [run EXCEPT ![k] = [run[k] EXCEPT !.due = @ \ {b}]]
                                /\ worker' = [worker EXCEPT ![k][w] =
                                                [at |-> "reading", board |-> b, since |-> moment]]
    BY <1>1, <1>6 DEF Takes
  <2> DEFINE R == [run[k] EXCEPT !.due = @ \ {b}]
             X == [at |-> "reading", board |-> b, since |-> moment]
  <2>2. /\ R \in RunType /\ X \in PlaceType /\ R.at = run[k].at /\ R.now = run[k].now
        /\ R.due = run[k].due \ {b} /\ X.board = b /\ X.since = moment
    BY <1>1, <1>4 DEF RunType
  <2> QED BY <2>1, <2>2 DEF StepEffect
<1>7. ASSUME UNCHANGED run, NEW p \in {"off", "head", "waiting"}, WorkerTo(k, w, p)
      PROVE  StepEffect(k, w)
  <2>1. run' = [run EXCEPT ![k] = [run[k] EXCEPT !.stopped = run[k].stopped, !.failures = run[k].failures]]
    <3>1. [run[k] EXCEPT !.stopped = run[k].stopped, !.failures = run[k].failures] = run[k]
      BY <1>1 DEF RunType
    <3>2. run = [run EXCEPT ![k] = run[k]]
      BY DEF RaidTypeOK
    <3> QED BY <1>7, <3>1, <3>2
  <2> QED BY <1>1, <1>5, <1>7, <2>1 DEF RunType
<1>8. ASSUME NEW s \in BOOLEAN, Leaves(k, w, s) PROVE StepEffect(k, w)
  <2>1. (run[k].stopped \/ s) \in BOOLEAN /\ run[k].failures \in Nat
    BY <1>1 DEF RunType
  <2>2. run' = [run EXCEPT ![k] = [run[k] EXCEPT !.stopped = run[k].stopped \/ s,
                                                !.failures = run[k].failures]]
    BY <1>1, <1>8 DEF Leaves, RunType
  <2>3. WorkerTo(k, w, "off")
    BY <1>8 DEF Leaves
  <2> QED BY <1>5, <2>1, <2>2, <2>3
<1>9. CASE WorkerLooks(k, w)
  <2>1. Leaves(k, w, FALSE) \/ Leaves(k, w, TRUE) \/ Takes(k, w) \/ (WorkerTo(k, w, "waiting") /\ UNCHANGED run)
    BY <1>9 DEF WorkerLooks
  <2>2. StepEffect(k, w)
    BY <1>6, <1>7, <1>8, <2>1
  <2> QED BY <1>9, <2>2 DEF WorkerLooks, WorkerAt, upstreamVars
<1>10. CASE WaitEnds(k, w)
  <2>1. Leaves(k, w, FALSE) \/ Leaves(k, w, TRUE) \/ Takes(k, w)
    BY <1>10 DEF WaitEnds
  <2>2. StepEffect(k, w)
    BY <1>6, <1>8, <2>1
  <2> QED BY <1>10, <2>2 DEF WaitEnds, WorkerAt, upstreamVars
<1>11. CASE BoardRead(k, w)
  <2>1. run[k].stopped \in BOOLEAN /\ WorkerTo(k, w, "head")
    BY <1>1, <1>11 DEF BoardRead, RunType
  <2>2. run' = [run EXCEPT ![k] = [run[k] EXCEPT !.stopped = run[k].stopped, !.failures = 0]]
    BY <1>1, <1>11 DEF BoardRead, RunType
  <2>3. StepEffect(k, w)
    BY <1>5, <2>1, <2>2
  <2> QED BY <1>11, <2>3 DEF BoardRead, WorkerAt, upstreamVars
<1>12. CASE BoardRefused(k, w)
  BY <1>7, <1>12 DEF BoardRefused, WorkerAt, upstreamVars
<1>13. CASE BoardFails(k, w)
  <2> DEFINE s == run[k].stopped \/ run[k].failures + 1 >= MaxFailures
  <2>1. s \in BOOLEAN /\ run[k].failures + 1 \in Nat /\ WorkerTo(k, w, "head")
    BY <1>1, <1>13 DEF BoardFails, RunType
  <2>2. run' = [run EXCEPT ![k] = [run[k] EXCEPT !.stopped = s, !.failures = run[k].failures + 1]]
    BY <1>1, <1>13 DEF BoardFails, RunType
  <2>3. StepEffect(k, w)
    BY <1>5, <2>1, <2>2
  <2> QED BY <1>13, <2>3 DEF BoardFails, WorkerAt, upstreamVars
<1> QED BY <1>9, <1>10, <1>11, <1>12, <1>13 DEF WorkerStep

(* Every action keeps the types, and the workers in their places.            *)
LEMMA RaidTypeStep == RaidInv /\ [RaidNext]_raidVars => RaidTypeOK' /\ WorkersPlaced'
<1> SUFFICES ASSUME RaidInv, [RaidNext]_raidVars PROVE RaidTypeOK' /\ WorkersPlaced'
  OBVIOUS
<1> USE DEF RaidInv, upstreamVars, storedVars
<1>0. /\ RaidTypeOK /\ WorkersPlaced /\ run \in [Kinds -> RunType]
      /\ \A k \in Kinds : \A w \in WorkersOf[k] : worker[k][w] \in PlaceType
  BY DEF RaidTypeOK, RunType, PlaceType
<1>1. CASE UNCHANGED raidVars
  BY <1>0, <1>1 DEF raidVars, RaidTypeOK, WorkersPlaced
<1>2. CASE MomentPasses
  <2>1. moment' \in Moments
    BY <1>0, <1>2, BoardsAssumption DEF MomentPasses, RaidTypeOK, Moments
  <2> QED BY <1>0, <1>2, <2>1 DEF MomentPasses, RaidTypeOK, WorkersPlaced
<1>3. CASE ShutdownBegins
  BY <1>0, <1>3 DEF ShutdownBegins, RaidTypeOK, WorkersPlaced
<1>4. CASE Restarts
  <2>1. Off \in PlaceType /\ NoRun \in RunType
    BY DEF Off, PlaceType, NoRun, RunType, NotYet
  <2>2. WorkersPlaced' /\ \A k \in Kinds : \A w \in WorkersOf[k] : worker'[k][w] \in PlaceType
    BY <1>4, <2>1 DEF Restarts, NoWorkers, WorkersPlaced
  <2> QED BY <1>0, <1>4, <2>1, <2>2 DEF Restarts, RaidTypeOK, RunType, PlaceType
<1>5. ASSUME NEW b \in Boards, EndNamed(b) PROVE RaidTypeOK' /\ WorkersPlaced'
  BY <1>0, <1>5 DEF EndNamed, RaidTypeOK, WorkersPlaced
<1>6. ASSUME NEW k \in Kinds, RunAsked(k) \/ RunEnds(k) PROVE RaidTypeOK' /\ WorkersPlaced'
  <2>1. NoRun \in RunType /\ [NoRun EXCEPT !.at = "asked", !.now = moment] \in RunType
    BY <1>0 DEF NoRun, RunType, NotYet, RaidTypeOK
  <2>2. run' \in [Kinds -> RunType]
    BY <1>0, <1>6, <2>1 DEF RunAsked, RunEnds
  <2> QED BY <1>0, <1>6, <2>2 DEF RunAsked, RunEnds, RaidTypeOK, WorkersPlaced, RunType
<1>7. ASSUME NEW k \in Kinds, RunBegins(k) PROVE RaidTypeOK' /\ WorkersPlaced'
  <2>1. PICK due \in SUBSET Boards, some \in SUBSET WorkersOf[k] :
          /\ run' = [run EXCEPT ![k] = [run[k] EXCEPT !.at = "reading", !.due = due]]
          /\ worker' = [worker EXCEPT ![k] =
               [w \in WorkersOf[k] |-> IF w \in some THEN [Off EXCEPT !.at = "head"] ELSE Off]]
    <3>1. PICK listed \in SUBSET Boards, all \in (IF k = "hand" THEN BOOLEAN ELSE {FALSE}) :
            LET due == {b \in listed : all \/ IsDue(b, run[k].now)} IN
              /\ run' = [run EXCEPT ![k].at = "reading", ![k].due = due]
              /\ \E some \in SUBSET WorkersOf[k] :
                 /\ Cardinality(some) = IF Cardinality(due) < Cardinality(WorkersOf[k])
                                          THEN Cardinality(due) ELSE Cardinality(WorkersOf[k])
                 /\ worker' = [worker EXCEPT ![k] =
                     [w \in WorkersOf[k] |-> IF w \in some THEN [Off EXCEPT !.at = "head"] ELSE Off]]
      BY <1>7 DEF RunBegins
    <3> DEFINE due == {b \in listed : all \/ IsDue(b, run[k].now)}
    <3>2. run' = [run EXCEPT ![k] = [run[k] EXCEPT !.at = "reading", !.due = due]]
      BY <1>0, <3>1
    <3>3. due \in SUBSET Boards
      OBVIOUS
    <3> QED BY <3>1, <3>2, <3>3
  <2>2. [run[k] EXCEPT !.at = "reading", !.due = due] \in RunType
    BY <1>0 DEF RunType
  <2>3. run' \in [Kinds -> RunType]
    BY <1>0, <2>1, <2>2
  <2>4. Off \in PlaceType /\ [Off EXCEPT !.at = "head"] \in PlaceType
    BY DEF Off, PlaceType, NotYet
  <2>5. WorkersPlaced' /\ \A j \in Kinds : \A w \in WorkersOf[j] : worker'[j][w] \in PlaceType
    BY <1>0, <2>1, <2>4 DEF WorkersPlaced
  <2> QED BY <1>0, <1>7, <2>3, <2>5 DEF RunBegins, RaidTypeOK, RunType, PlaceType
<1>8. ASSUME NEW k \in Kinds, NEW w \in WorkersOf[k], WorkerStep(k, w) PROVE RaidTypeOK' /\ WorkersPlaced'
  <2>1. PICK r \in RunType, x \in PlaceType :
          run' = [run EXCEPT ![k] = r] /\ worker' = [worker EXCEPT ![k][w] = x]
    BY <1>8, WorkerEffect DEF StepEffect
  <2>2. run' \in [Kinds -> RunType]
    BY <1>0, <2>1
  <2>3. WorkersPlaced' /\ \A j \in Kinds : \A v \in WorkersOf[j] : worker'[j][v] \in PlaceType
    BY <1>0, <2>1 DEF WorkersPlaced
  <2>4. {readAt', refusedAt', askedAt'} \subseteq [Boards -> Moments \cup {NotYet}]
    <3>1. run[k].now \in Moments \cup {NotYet} /\ worker[k][w].since \in Moments \cup {NotYet}
      BY <1>0 DEF RunType, PlaceType
    <3>2. /\ readAt' \in {readAt, [readAt EXCEPT ![Reading(k, w)] = run[k].now]}
          /\ refusedAt' \in {refusedAt, [refusedAt EXCEPT ![Reading(k, w)] = run[k].now],
                             [refusedAt EXCEPT ![Reading(k, w)] = NotYet]}
          /\ askedAt' \in {askedAt, [askedAt EXCEPT ![Reading(k, w)] = worker[k][w].since]}
      BY <1>8 DEF WorkerStep, WorkerLooks, WaitEnds, BoardRead, SetBoard, BoardRefused, BoardFails
    <3> QED BY <1>0, <3>1, <3>2 DEF RaidTypeOK
  <2>5. UNCHANGED <<moment, closes, stopping>>
    BY <1>8, WorkerEffect
  <2> QED BY <1>0, <2>2, <2>3, <2>4, <2>5 DEF RaidTypeOK, RunType, PlaceType
<1> QED BY <1>1, <1>2, <1>3, <1>4, <1>5, <1>6, <1>7, <1>8 DEF RaidNext, WorkerStep

(* Every action keeps the stamps early and the boards apart.                 *)
LEMMA StampsStep == RaidInv /\ [RaidNext]_raidVars => StampsAreEarly' /\ BoardsAreShared'
<1> SUFFICES ASSUME RaidInv, [RaidNext]_raidVars PROVE StampsAreEarly' /\ BoardsAreShared'
  OBVIOUS
<1> USE DEF RaidInv, upstreamVars, storedVars
<1>0. /\ StampsAreEarly /\ BoardsAreShared /\ moment \in Moments /\ Moments \subseteq Nat
      /\ run \in [Kinds -> RunType] /\ DOMAIN worker = Kinds
      /\ \A k \in Kinds : DOMAIN worker[k] = WorkersOf[k]
      /\ readAt \in [Boards -> Nat] /\ askedAt \in [Boards -> Nat]
  <2>1. Moments \subseteq Nat
    BY MomentTypes
  <2>2. DOMAIN worker = Kinds /\ \A k \in Kinds : DOMAIN worker[k] = WorkersOf[k]
    BY DEF RaidTypeOK, WorkersPlaced
  <2>3. /\ moment \in Moments /\ run \in [Kinds -> RunType]
        /\ readAt \in [Boards -> Moments \cup {NotYet}] /\ askedAt \in [Boards -> Moments \cup {NotYet}]
    BY DEF RaidTypeOK, RunType
  <2>4. readAt \in [Boards -> Nat] /\ askedAt \in [Boards -> Nat]
    <3>1. Moments \cup {NotYet} \subseteq Nat
      BY MomentTypes
    <3> QED BY <2>3, <3>1
  <2> QED BY <2>1, <2>2, <2>3, <2>4
<1>1. CASE UNCHANGED raidVars
  BY <1>0, <1>1 DEF raidVars, StampsAreEarly, BoardsAreShared
<1>2. CASE MomentPasses
  <2>1. \A k \in Kinds : run[k].at # "idle" => run[k].now <= moment'
    <3>1. moment \in Nat /\ moment' = moment + 1
      BY <1>0, <1>2 DEF MomentPasses
    <3>2. \A k \in Kinds : run[k].at # "idle" => run[k].now \in Nat /\ run[k].now <= moment
      BY <1>0 DEF StampsAreEarly
    <3> QED BY <3>1, <3>2
  <2> QED BY <1>0, <1>2, <2>1 DEF MomentPasses, StampsAreEarly, BoardsAreShared
<1>3. CASE ShutdownBegins
  BY <1>0, <1>3 DEF ShutdownBegins, StampsAreEarly, BoardsAreShared
<1>4. CASE Restarts
  <2>1. \A k \in Kinds : /\ run'[k].at = "idle"
                        /\ \A w \in WorkersOf[k] : worker'[k][w].at = "off"
    BY <1>4 DEF Restarts, NoRun, NoWorkers, Off
  <2> QED BY <1>0, <1>4, <2>1 DEF Restarts, StampsAreEarly, BoardsAreShared
<1>5. ASSUME NEW b \in Boards, EndNamed(b) PROVE StampsAreEarly' /\ BoardsAreShared'
  BY <1>0, <1>5 DEF EndNamed, StampsAreEarly, BoardsAreShared
<1>6. ASSUME NEW k \in Kinds, RunAsked(k) \/ RunEnds(k) PROVE StampsAreEarly' /\ BoardsAreShared'
  <2>1. \A w \in WorkersOf[k] : worker'[k][w].at = "off"
    BY <1>0, <1>6 DEF RunAsked, RunEnds, BoardsAreShared, NoRun, Off
  <2>2. /\ \A j \in Kinds \ {k} : run'[j] = run[j]
        /\ run'[k].at \in {"idle", "asked"}
        /\ run'[k].at = "asked" => run'[k].now = moment
    <3>1. CASE RunEnds(k)
      BY <1>0, <3>1 DEF RunEnds, NoRun
    <3>2. CASE RunAsked(k)
      <4> DEFINE R == [NoRun EXCEPT !.at = "asked", !.now = moment]
      <4>1. R.at = "asked" /\ R.now = moment
        BY DEF NoRun
      <4>2. run' = [run EXCEPT ![k] = R]
        BY <3>2 DEF RunAsked
      <4> HIDE DEF R
      <4> QED BY <1>0, <4>1, <4>2
    <3> QED BY <1>6, <3>1, <3>2
  <2>3. UNCHANGED <<readAt, askedAt, moment, worker>>
    BY <1>6 DEF RunAsked, RunEnds
  <2> QED BY <1>0, <2>1, <2>2, <2>3 DEF StampsAreEarly, BoardsAreShared
<1>7. ASSUME NEW k \in Kinds, RunBegins(k) PROVE StampsAreEarly' /\ BoardsAreShared'
  <2>1. /\ \A w \in WorkersOf[k] : worker'[k][w].at \in {"off", "head"}
        /\ \A j \in Kinds \ {k} : worker'[j] = worker[j]
    BY <1>0, <1>7 DEF RunBegins, Off
  <2>2. /\ \A j \in Kinds \ {k} : run'[j] = run[j]
        /\ run'[k].at = "reading" /\ run'[k].now = run[k].now /\ run[k].at = "asked"
    BY <1>0, <1>7 DEF RunBegins, RunType
  <2>3. UNCHANGED <<readAt, askedAt, moment>>
    BY <1>7 DEF RunBegins
  <2> QED BY <1>0, <2>1, <2>2, <2>3 DEF StampsAreEarly, BoardsAreShared
<1>8. ASSUME NEW k \in Kinds, NEW w \in WorkersOf[k], WorkerStep(k, w)
      PROVE  StampsAreEarly' /\ BoardsAreShared'
  <2>1. PICK r \in RunType, x \in PlaceType :
          /\ run' = [run EXCEPT ![k] = r] /\ worker' = [worker EXCEPT ![k][w] = x]
          /\ r.at = run[k].at /\ r.now = run[k].now /\ r.due \subseteq run[k].due
          /\ x.at = "reading" => x.board \in run[k].due \ r.due /\ x.since = moment
    BY <1>8, WorkerEffect DEF StepEffect
  <2>2. run[k].at = "reading" /\ moment' = moment /\ run[k].due \subseteq Boards
    BY <1>0, <1>8, WorkerEffect DEF BoardsAreShared, RunType
  <2>3. /\ run'[k] = r /\ worker'[k][w] = x
        /\ \A j \in Kinds \ {k} : run'[j] = run[j] /\ worker'[j] = worker[j]
        /\ \A v \in WorkersOf[k] \ {w} : worker'[k][v] = worker[k][v]
    BY <1>0, <2>1
  <2>4. BoardsAreShared'
    BY <1>0, <2>1, <2>2, <2>3 DEF BoardsAreShared
  <2>5. \A b \in Boards : readAt'[b] <= askedAt'[b]
    <3>1. CASE BoardRead(k, w)
      <4>1. /\ Reading(k, w) \in Boards /\ run[k].now <= worker[k][w].since
            /\ run[k].now \in Moments /\ worker[k][w].since \in Moments \cup {NotYet}
        BY <1>0, <2>2, <3>1 DEF BoardRead, WorkerAt, StampsAreEarly, Reading, RaidTypeOK
      <4>2. /\ readAt' = [readAt EXCEPT ![Reading(k, w)] = run[k].now]
            /\ askedAt' = [askedAt EXCEPT ![Reading(k, w)] = worker[k][w].since]
        BY <3>1 DEF BoardRead, SetBoard
      <4> QED BY <1>0, <4>1, <4>2 DEF StampsAreEarly
    <3>2. CASE ~BoardRead(k, w)
      BY <1>0, <1>8, <3>2 DEF WorkerStep, WorkerLooks, WaitEnds, BoardRefused, BoardFails, StampsAreEarly
    <3> QED BY <3>1, <3>2
  <2> QED BY <1>0, <2>1, <2>2, <2>3, <2>4, <2>5 DEF StampsAreEarly
<1> QED BY <1>1, <1>2, <1>3, <1>4, <1>5, <1>6, <1>7, <1>8 DEF RaidNext, WorkerStep

(* However long a board's reading takes, whichever of two runs writes it     *)
(* last and whenever the end of its raid becomes known, a board that is left *)
(* alone was asked for after the raid had closed.                            *)
THEOREM BoardsSettleOnTheEnd == RaidSpec => []SettledIsFinal
<1>1. RaidInit => RaidInv
  BY RaidStarts
<1>2. RaidInv /\ [RaidNext]_raidVars => RaidInv'
  BY RaidTypeStep, StampsStep DEF RaidInv
<1>3. RaidInv => SettledIsFinal
  <2> SUFFICES ASSUME RaidInv, NEW b \in Boards, ~IsOpen(b, moment), ~IsDue(b, moment), ~LastRefused(b)
               PROVE  askedAt[b] >= closes[b]
    BY DEF SettledIsFinal, RaidInv
  <2>1. /\ readAt[b] \in Nat /\ askedAt[b] \in Nat /\ closes[b] \in Nat /\ readAt[b] <= askedAt[b]
    BY MomentTypes DEF RaidInv, RaidTypeOK, StampsAreEarly
  <2>2. ~(readAt[b] < closes[b])
    BY DEF IsDue
  <2> QED BY <2>1, <2>2
<1> QED BY <1>1, <1>2, <1>3, PTL DEF RaidSpec

(* A run that has stopped, or is going down, begins no board with any of its *)
(* workers, and no two of them have the same one, however many there are.    *)
THEOREM EndedRunsAreOver == RaidSpec => EndedRunBeginsNothing
<1>1. RaidInit => RaidInv
  BY RaidStarts
<1>2. RaidInv /\ [RaidNext]_raidVars => RaidInv'
  BY RaidTypeStep, StampsStep DEF RaidInv
<1> DEFINE BeginsWell ==
      \A k \in Kinds : \A w \in WorkersOf[k] :
        worker'[k][w].at = "reading" /\ worker[k][w].at # "reading" =>
          /\ ~run[k].stopped /\ ~ShutDown(k)
          /\ \A v \in WorkersOf[k] \ {w} :
               WorkerAt(k, v, "reading") => Reading(k, v) # worker'[k][w].board
<1>3. RaidInv /\ [RaidNext]_raidVars => BeginsWell
  <2> SUFFICES ASSUME RaidInv, [RaidNext]_raidVars, NEW k \in Kinds, NEW w \in WorkersOf[k],
                      worker'[k][w].at = "reading", worker[k][w].at # "reading"
               PROVE  /\ ~run[k].stopped /\ ~ShutDown(k)
                      /\ \A v \in WorkersOf[k] \ {w} :
                           WorkerAt(k, v, "reading") => Reading(k, v) # worker'[k][w].board
    OBVIOUS
  <2> USE DEF RaidInv, WorkersPlaced
  <2>1. WorkerStep(k, w)
    <3>1. ~UNCHANGED worker
      OBVIOUS
    <3>2. ~Restarts
      BY DEF Restarts, NoWorkers, Off
    <3>3. ASSUME NEW j \in Kinds, RunBegins(j) PROVE FALSE
      <4>1. PICK some : worker' = [worker EXCEPT ![j] =
                          [v \in WorkersOf[j] |-> IF v \in some THEN [Off EXCEPT !.at = "head"] ELSE Off]]
        BY <3>3 DEF RunBegins
      <4>2. CASE j = k
        <5>1. worker'[k][w] \in {[Off EXCEPT !.at = "head"], Off}
          BY <4>1, <4>2
        <5> QED BY <5>1 DEF Off
      <4>3. CASE j # k
        BY <4>1, <4>3
      <4> QED BY <4>2, <4>3
    <3>4. PICK j \in Kinds : \E v \in WorkersOf[j] : WorkerStep(j, v)
      BY <3>1, <3>2, <3>3 DEF RaidNext, WorkerStep, raidVars, MomentPasses, ShutdownBegins, EndNamed,
        RunAsked, RunEnds
    <3>5. PICK v \in WorkersOf[j] : WorkerStep(j, v)
      BY <3>4
    <3>6. PICK x \in PlaceType : worker' = [worker EXCEPT ![j][v] = x]
      BY <3>5, WorkerEffect DEF StepEffect
    <3>7. j = k /\ v = w
      BY <3>1, <3>6
    <3> QED BY <3>5, <3>7
  <2>2. \A p \in {"off", "head", "waiting"} : ~WorkerTo(k, w, p)
    BY DEF WorkerTo, Off
  <2>3. Takes(k, w) /\ ~NothingLeft(k) /\ ~ShutDown(k)
    BY <2>1, <2>2 DEF WorkerStep, WorkerLooks, WaitEnds, BoardRead, BoardRefused, BoardFails, Leaves
  <2>4. worker'[k][w].board \in run[k].due
    BY <2>3 DEF Takes
  <2> QED BY <2>3, <2>4 DEF NothingLeft, BoardsAreShared, WorkerAt, Reading
<1> QED BY <1>1, <1>2, <1>3, PTL DEF RaidSpec, EndedRunBeginsNothing
===============================================================================
