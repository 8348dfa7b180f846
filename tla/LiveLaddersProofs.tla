--------------------------- MODULE LiveLaddersProofs ---------------------------
(* The live ladders of a region, for every set of ladders, every way they are*)
(* mirrored into rating families and every set of specialisations; and the   *)
(* queue of their enrichment, for every set of characters and all times.     *)
EXTENDS LiveLadders, EnrichmentQueue, TLAPS

-----------------------------------------------------------------------------
(* The sweep has its ladders in hand before its cleanup, a cleanup withdraws *)
(* what the last one is vouched for, and a job that will write a rating row  *)
(* has its character's document.                                             *)
JobsAreTrue ==
  /\ sweep.at \notin {"idle", "ladders"} => ~reconciled
  /\ sweep.at # "ladders" => job = NoJobs
  /\ \A b \in Brackets :
       /\ job[b].at = "pruned" => there
       /\ job[b].at = "stored" /\ job[b].lists => there

NothingLeft == \A b \in Brackets : row[b] = NoRow

(* Of a character that is gone nothing is left, where the last cleanup is    *)
(* vouched for, where the one in progress may go by that and has nothing to  *)
(* remove, and where it has been removed.                                    *)
GoneIsCleared ==
  ~late /\ ~there =>
    /\ reconciled => NothingLeft
    /\ sweep.at \in {"retired", "unranked"} /\ sweep.vouched => NothingLeft
    /\ sweep.at \in {"delete", "rows"} /\ sweep.vouched /\ ~sweep.unranked => NothingLeft
    /\ sweep.at = "boards" => NothingLeft

VouchInv == TypeOK /\ JobsAreTrue /\ GoneIsCleared

-----------------------------------------------------------------------------
(* A core row that is there shows the specialisation of the profile.         *)
Labelled(b) == b \in CoreBrackets /\ row[b].age # "none" /\ profile # NoProfile => row[b].label = profile

(* The document and the board tell the same of a ladder, read by this sweep. *)
Agreed(b) == on[b] = row[b].age /\ on[b] # "old" /\ Labelled(b)

(* How far a ladder has come that the sweep has read.                        *)
OnItsWay(b) ==
  /\ job[b].at \in {"read", "inserting"} => job[b].lists /\ on[b] # "new" /\ row[b].age # "new"
  /\ job[b].at \in {"stored", "pruned"} =>
       row[b].age # "new" /\ (on[b] = "new" <=> job[b].lists) /\ (job[b].at = "pruned" => job[b].lists)
  /\ job[b].at = "rated" =>
       IF job[b].lists THEN on[b] = "new" /\ row[b].age = "new" /\ Labelled(b)
                       ELSE on[b] = "none" /\ row[b].age # "new"
  /\ job[b].at = "done" => Agreed(b)

(* A sweep with nothing beside it that has met no failure.                   *)
SweepAgrees ==
  apart =>
    /\ push = NoPush /\ enrich = "idle"
    /\ sweep.at = "ladders" => \A b \in Brackets : OnItsWay(b) /\ (job[b].at = "none" <=> b \notin sweep.live)
    /\ sweep.at # "ladders" => \A b \in sweep.live : Agreed(b)
    /\ sweep.at \notin {"ladders", "retired"} => \A b \in Brackets \ sweep.live : on[b] = "none"
    /\ sweep.at = "delete" => (sweep.unranked <=> there /\ on = Nowhere)
    /\ sweep.at \in {"rows", "boards", "idle"} => (there <=> on # Nowhere)
    /\ sweep.at = "rows" /\ sweep.unranked => ~there
    /\ sweep.at = "idle" => \A b \in Brackets : ~Kept(b) => row[b] = NoRow

SweepInv == TypeOK /\ JobsAreTrue /\ SweepAgrees

-----------------------------------------------------------------------------
JobType == [at : {"none", "waiting", "read", "inserting", "stored", "pruned", "rated", "done"}, lists : BOOLEAN]
RowType == [age : Ages, label : Labels]
SweepType == [at : {"idle", "ladders", "retired", "unranked", "delete", "rows", "boards"},
              live : SUBSET Brackets, unranked : BOOLEAN, vouched : BOOLEAN]
PushType == [at : {"idle", "admitted", "rows"}, takes : SUBSET Brackets, old : SUBSET Brackets,
             todo : SUBSET Families]

LEMMA Types ==
  ASSUME TypeOK
  PROVE  /\ on \in [Brackets -> Ages] /\ row \in [Brackets -> RowType] /\ job \in [Brackets -> JobType]
         /\ sweep \in SweepType /\ push \in PushType /\ profile \in Labels
         /\ NoJob \in JobType /\ NoJobs \in [Brackets -> JobType] /\ NoRow \in RowType
         /\ NoSweep \in SweepType /\ NoPush \in PushType /\ Nowhere \in [Brackets -> Ages]
         /\ \A b \in Brackets : NoJobs[b] = NoJob /\ Nowhere[b] = "none"
         /\ NoJob.at = "none" /\ NoRow.age = "none" /\ NoSweep.at = "idle"
  BY DEF TypeOK, JobType, RowType, SweepType, PushType, NoJob, NoJobs, NoRow, NoSweep, NoPush, Nowhere,
    Ages, Labels

(* What one job does, to its own ladder alone.                               *)
JobStep(b) ==
  \/ (\E lists \in BOOLEAN : GetLeaderboard(b, lists)) \/ Upsert(b) \/ InsertLands(b) \/ PruneDocument(b)
  \/ UpsertRating(b) \/ PruneRating(b) \/ JobFails(b)

(* A sweep that starts, a cleanup step, and what goes on beside them.        *)
LEMMA Effects ==
  ASSUME Next
  PROVE  /\ family' = family
         /\ there' = there \/ DeleteUnranked \/ \E b \in Brackets : JobStep(b)
         /\ on' = on \/ ClearRetired \/ PushDocument \/ \E b \in Brackets : JobStep(b)
         /\ profile' = profile \/ DeleteUnranked \/ PushDocument \/ SaveProfile
         /\ row' = row \/ RemoveRows \/ ClearBoards \/ LabelRows \/ (\E f \in Families : PushRows(f))
            \/ \E b \in Brackets : JobStep(b)
         /\ sweep' = sweep \/ (sweep' = Over /\ (ClearBoards \/ CleanupFails \/ Crash)) \/ CleanupStarts
            \/ ClearRetired \/ FindUnranked \/ DeleteUnranked \/ RemoveRows
            \/ \E bs \in SUBSET Brackets : SweepStarts(bs)
         /\ job' = job \/ job' = NoJobs \/ (\E bs \in SUBSET Brackets : SweepStarts(bs))
            \/ \E b \in Brackets : JobStep(b)
         /\ reconciled' = reconciled \/ reconciled' = FALSE \/ ClearBoards
         /\ push' = push \/ push' = NoPush \/ PushDocument \/ (\E f \in Families : PushRows(f))
            \/ (\E bs \in SUBSET Brackets : PushStarts(bs))
            \/ \E b \in Brackets, lists \in BOOLEAN : GetLeaderboard(b, lists)
         /\ enrich' = enrich \/ enrich' \in {"idle", "selected", "saved"}
         /\ apart' = apart \/ apart' = FALSE \/ \E bs \in SUBSET Brackets : SweepStarts(bs)
         /\ late' = late \/ RemoveRows \/ \E f \in Families : PushRows(f)
<1>1. /\ family' = family
      /\ there' = there \/ DeleteUnranked \/ \E b \in Brackets : JobStep(b)
      /\ on' = on \/ ClearRetired \/ PushDocument \/ \E b \in Brackets : JobStep(b)
      /\ profile' = profile \/ DeleteUnranked \/ PushDocument \/ SaveProfile
      /\ row' = row \/ RemoveRows \/ ClearBoards \/ LabelRows \/ (\E f \in Families : PushRows(f))
         \/ \E b \in Brackets : JobStep(b)
      /\ late' = late \/ RemoveRows \/ \E f \in Families : PushRows(f)
  BY Zenon
  DEF Next, CleanupStarts, ClearRetired, FindUnranked, DeleteUnranked, RemoveRows, ClearBoards,
    CleanupFails,
    ReconcileDue, GetLeaderboard, Upsert, InsertLands, PruneDocument, UpsertRating, PruneRating, JobFails,
    SweepStarts, PushStarts, PushDocument, PushRows, PushEnds, EnrichStarts, SaveProfile, LabelRows,
    EnrichFails, Crash, JobStep, document, others, history
<1>2. /\ sweep' = sweep \/ (sweep' = Over /\ (ClearBoards \/ CleanupFails \/ Crash)) \/ CleanupStarts
         \/ ClearRetired \/ FindUnranked \/ DeleteUnranked \/ RemoveRows
         \/ \E bs \in SUBSET Brackets : SweepStarts(bs)
      /\ job' = job \/ job' = NoJobs \/ (\E bs \in SUBSET Brackets : SweepStarts(bs))
         \/ \E b \in Brackets : JobStep(b)
      /\ reconciled' = reconciled \/ reconciled' = FALSE \/ ClearBoards
      /\ push' = push \/ push' = NoPush \/ PushDocument \/ (\E f \in Families : PushRows(f))
         \/ (\E bs \in SUBSET Brackets : PushStarts(bs))
         \/ \E b \in Brackets, lists \in BOOLEAN : GetLeaderboard(b, lists)
      /\ apart' = apart \/ apart' = FALSE \/ \E bs \in SUBSET Brackets : SweepStarts(bs)
  BY Zenon
  DEF Next, CleanupStarts, ClearRetired, FindUnranked, DeleteUnranked, RemoveRows, ClearBoards,
    CleanupFails,
    ReconcileDue, GetLeaderboard, Upsert, InsertLands, PruneDocument, UpsertRating, PruneRating, JobFails,
    SweepStarts, PushStarts, PushDocument, PushRows, PushEnds, EnrichStarts, SaveProfile, LabelRows,
    EnrichFails, Crash, JobStep, document, others, history
<1>3. enrich' = enrich \/ enrich' \in {"idle", "selected", "saved"}
  BY
  DEF Next, CleanupStarts, ClearRetired, FindUnranked, DeleteUnranked, RemoveRows, ClearBoards,
    CleanupFails,
    ReconcileDue, GetLeaderboard, Upsert, InsertLands, PruneDocument, UpsertRating, PruneRating, JobFails,
    SweepStarts, PushStarts, PushDocument, PushRows, PushEnds, EnrichStarts, SaveProfile, LabelRows,
    EnrichFails, Crash, others
<1> QED BY Zenon, <1>1, <1>2, <1>3

(* What it does to its own.                                                  *)
JobMoves(b) ==
  \/ /\ job[b].at = "waiting" /\ job'[b].at = IF job'[b].lists THEN "read" ELSE "stored"
     /\ on'[b] = Older(on[b]) /\ row'[b].age = Older(row[b].age) /\ row'[b].label = row[b].label
     /\ there' = there /\ apart' = apart
  \/ /\ job[b].at = "read" /\ job'[b].at = "stored" /\ job'[b].lists = job[b].lists
     /\ there /\ there' /\ on'[b] = "new" /\ row'[b] = row[b] /\ apart' = apart
  \/ /\ job[b].at = "read" /\ job'[b].at = "inserting" /\ job'[b].lists = job[b].lists
     /\ there' = there /\ on'[b] = on[b] /\ row'[b] = row[b] /\ apart' = apart
  \/ /\ job[b].at = "inserting" /\ job'[b].at = "read" /\ job'[b].lists = job[b].lists
     /\ there' = there /\ on'[b] = on[b] /\ row'[b] = row[b] /\ apart' = apart
  \/ /\ job[b].at = "inserting" /\ job'[b].at = "stored" /\ job'[b].lists = job[b].lists
     /\ there' /\ on'[b] = "new" /\ row'[b] = row[b] /\ apart' = apart
  \/ /\ job[b].at = "stored" /\ job'[b].at = (IF job[b].lists THEN "pruned" ELSE "rated")
     /\ job'[b].lists = job[b].lists
     /\ there' = there /\ on'[b] = (IF on[b] = "old" THEN "none" ELSE on[b]) /\ row'[b] = row[b] /\ apart' = apart
  \/ /\ job[b].at = "pruned" /\ job'[b].at = "rated" /\ job'[b].lists = job[b].lists
     /\ there' = there /\ on'[b] = on[b] /\ row'[b] = Rated(b, "new") /\ apart' = apart
  \/ /\ job[b].at = "rated" /\ job'[b].at = "done"
     /\ there' = there /\ on'[b] = on[b] /\ row'[b] = (IF row[b].age = "old" THEN NoRow ELSE row[b]) /\ apart' = apart
  \/ /\ job'[b].at = "done" /\ there' = there /\ on'[b] = on[b] /\ row'[b] = row[b] /\ apart' = FALSE

(* The jobs share nothing: each has its own entry, row and stage.            *)
LEMMA OwnLadder ==
  ASSUME TypeOK, NEW b \in Brackets, JobStep(b)
  PROVE  /\ JobMoves(b) /\ job[b].at # "none"
         /\ sweep' = sweep /\ reconciled' = reconciled /\ late' = late
         /\ profile' = profile /\ enrich' = enrich /\ family' = family
         /\ there' \in BOOLEAN /\ (there => there')
         /\ (push = NoPush => push' = NoPush) /\ push' \in PushType
         /\ (on'[b] # "none" => on[b] # "none" \/ there')
         /\ on' \in [Brackets -> Ages] /\ row' \in [Brackets -> RowType] /\ job' \in [Brackets -> JobType]
         /\ \A c \in Brackets \ {b} : on'[c] = on[c] /\ row'[c] = row[c] /\ job'[c] = job[c]
<1>0. /\ on \in [Brackets -> Ages] /\ row \in [Brackets -> RowType] /\ job \in [Brackets -> JobType]
      /\ there \in BOOLEAN /\ push \in PushType /\ profile \in Labels /\ NoRow \in RowType
  BY Types DEF TypeOK
<1> DEFINE Own ==
      /\ on' \in [Brackets -> Ages] /\ row' \in [Brackets -> RowType] /\ job' \in [Brackets -> JobType]
      /\ \A c \in Brackets \ {b} : on'[c] = on[c] /\ row'[c] = row[c] /\ job'[c] = job[c]
<1> DEFINE Rest ==
      /\ sweep' = sweep /\ reconciled' = reconciled /\ late' = late
      /\ profile' = profile /\ enrich' = enrich /\ family' = family
<1>1. \A e \in Ages : Older(e) \in Ages /\ (Older(e) # "none" => e # "none")
  BY DEF Older, Ages
<1>2. \A e \in Ages : Rated(b, e) \in RowType
  BY <1>0 DEF Rated, RowType
<1>3. ASSUME NEW stage \in {"none", "waiting", "read", "inserting", "stored", "pruned", "rated", "done"},
             JobTo(b, stage)
      PROVE  /\ job' \in [Brackets -> JobType] /\ job'[b].at = stage /\ job'[b].lists = job[b].lists
             /\ \A c \in Brackets \ {b} : job'[c] = job[c]
  <2>1. job' = [job EXCEPT ![b] = [job[b] EXCEPT !.at = stage]]
    BY <1>0, <1>3 DEF JobTo
  <2>2. [job[b] EXCEPT !.at = stage] \in JobType
    BY <1>0 DEF JobType
  <2>3. [job[b] EXCEPT !.at = stage].at = stage /\ [job[b] EXCEPT !.at = stage].lists = job[b].lists
    BY <1>0 DEF JobType
  <2> QED BY <1>0, <2>1, <2>2, <2>3
<1>4. ASSUME NEW e \in Ages, on' = [on EXCEPT ![b] = e]
      PROVE  on' \in [Brackets -> Ages] /\ on'[b] = e /\ \A c \in Brackets \ {b} : on'[c] = on[c]
  BY <1>0, <1>4
<1>5. ASSUME NEW e \in RowType, row' = [row EXCEPT ![b] = e]
      PROVE  row' \in [Brackets -> RowType] /\ row'[b] = e /\ \A c \in Brackets \ {b} : row'[c] = row[c]
  BY <1>0, <1>5
<1>6. ASSUME NEW e \in JobType, job' = [job EXCEPT ![b] = e]
      PROVE  job' \in [Brackets -> JobType] /\ job'[b] = e /\ \A c \in Brackets \ {b} : job'[c] = job[c]
  BY <1>0, <1>6
<1>7. ASSUME NEW lists \in BOOLEAN, GetLeaderboard(b, lists)
      PROVE  /\ Own /\ Rest /\ JobMoves(b) /\ there' = there /\ job[b].at # "none"
             /\ (push = NoPush => push' = NoPush) /\ push' \in PushType
             /\ (on'[b] # "none" => on[b] # "none")
  <2> DEFINE j == [at |-> IF lists THEN "read" ELSE "stored", lists |-> lists]
  <2>1. j \in JobType /\ j.at = (IF lists THEN "read" ELSE "stored") /\ j.lists = lists
    BY DEF JobType
  <2>2. job' = [job EXCEPT ![b] = j] /\ on' = [on EXCEPT ![b] = Older(on[b])]
    BY <1>0, <1>7 DEF GetLeaderboard
  <2> HIDE DEF j
  <2>3. job' \in [Brackets -> JobType] /\ job'[b] = j /\ \A c \in Brackets \ {b} : job'[c] = job[c]
    BY <1>6, <2>1, <2>2
  <2>4. on' \in [Brackets -> Ages] /\ on'[b] = Older(on[b]) /\ \A c \in Brackets \ {b} : on'[c] = on[c]
    BY <1>0, <1>1, <1>4, <2>2
  <2>5. /\ row' \in [Brackets -> RowType] /\ row'[b].age = Older(row[b].age) /\ row'[b].label = row[b].label
        /\ \A c \in Brackets \ {b} : row'[c] = row[c]
    <3>1. row' = [row EXCEPT ![b] = [row[b] EXCEPT !.age = Older(row[b].age)]]
      BY <1>0, <1>7 DEF GetLeaderboard
    <3>2. row[b] \in RowType /\ row[b].age \in Ages
      BY <1>0 DEF RowType
    <3>3. /\ [row[b] EXCEPT !.age = Older(row[b].age)] \in RowType
          /\ [row[b] EXCEPT !.age = Older(row[b].age)].age = Older(row[b].age)
          /\ [row[b] EXCEPT !.age = Older(row[b].age)].label = row[b].label
      BY <1>1, <3>2 DEF RowType
    <3> QED BY <1>5, <3>1, <3>3
  <2>6. push' \in PushType /\ (push = NoPush => push' = NoPush)
    <3>1. push' = [push EXCEPT !.old = push.old \cup ({b} \cap push.takes)]
      BY <1>7 DEF GetLeaderboard
    <3>2. push.old \cup ({b} \cap push.takes) \subseteq Brackets
      BY <1>0 DEF PushType
    <3>3. push' \in PushType
      BY <1>0, <3>1, <3>2 DEF PushType
    <3>4. push = NoPush => push' = [NoPush EXCEPT !.old = {}]
      BY <3>1 DEF NoPush
    <3>5. [NoPush EXCEPT !.old = {}] = NoPush
      BY DEF NoPush
    <3> QED BY <3>3, <3>4, <3>5
  <2>7. /\ Rest /\ there' = there /\ job[b].at = "waiting" /\ apart' = apart
    BY <1>7 DEF GetLeaderboard, JobAt, history
  <2>8. JobMoves(b)
    BY <2>1, <2>3, <2>4, <2>5, <2>7 DEF JobMoves
  <2> QED BY <1>0, <1>1, <2>3, <2>4, <2>5, <2>6, <2>7, <2>8
<1>8. ASSUME Upsert(b)
      PROVE  /\ Own /\ Rest /\ JobMoves(b) /\ there' = there /\ push' = push /\ job[b].at # "none"
             /\ (on'[b] # "none" => on[b] # "none" \/ there')
  BY <1>0, <1>3, <1>4, <1>8 DEF Upsert, JobMoves, JobAt, others, history, Ages
<1>9. ASSUME InsertLands(b)
      PROVE  /\ Own /\ Rest /\ JobMoves(b) /\ (there => there') /\ there' \in BOOLEAN
             /\ push' = push /\ job[b].at # "none"
             /\ (on'[b] # "none" => on[b] # "none" \/ there')
  BY <1>0, <1>3, <1>4, <1>9 DEF InsertLands, JobMoves, JobAt, others, history, Ages
<1>10. ASSUME PruneDocument(b)
      PROVE  /\ Own /\ Rest /\ JobMoves(b) /\ there' = there /\ push' = push /\ job[b].at # "none"
             /\ (on'[b] # "none" => on[b] # "none")
  BY <1>0, <1>3, <1>4, <1>10 DEF PruneDocument, JobMoves, JobAt, others, history, Ages
<1>11. ASSUME UpsertRating(b)
      PROVE  Own /\ Rest /\ JobMoves(b) /\ there' = there /\ push' = push /\ job[b].at # "none" /\ on' = on
  BY <1>0, <1>2, <1>3, <1>5, <1>11 DEF UpsertRating, JobMoves, JobAt, others, history, document, Ages
<1>12. ASSUME PruneRating(b)
      PROVE  Own /\ Rest /\ JobMoves(b) /\ there' = there /\ push' = push /\ job[b].at # "none" /\ on' = on
  <2>1. [NoJob EXCEPT !.at = "done"] \in JobType /\ [NoJob EXCEPT !.at = "done"].at = "done"
    BY DEF JobType, NoJob
  <2>2. job' = [job EXCEPT ![b] = [NoJob EXCEPT !.at = "done"]]
    BY <1>12 DEF PruneRating
  <2>3. job' \in [Brackets -> JobType] /\ job'[b].at = "done" /\ \A c \in Brackets \ {b} : job'[c] = job[c]
    BY <1>6, <2>1, <2>2
  <2>4. /\ row' \in [Brackets -> RowType] /\ row'[b] = (IF row[b].age = "old" THEN NoRow ELSE row[b])
        /\ \A c \in Brackets \ {b} : row'[c] = row[c]
    BY <1>0, <1>5, <1>12 DEF PruneRating
  <2> QED BY <1>0, <1>12, <2>3, <2>4 DEF PruneRating, JobMoves, JobAt, others, history, document
<1>13. ASSUME JobFails(b)
      PROVE  Own /\ Rest /\ JobMoves(b) /\ there' = there /\ push' = push /\ job[b].at # "none" /\ on' = on
  <2>1. [NoJob EXCEPT !.at = "done"] \in JobType /\ [NoJob EXCEPT !.at = "done"].at = "done"
    BY DEF JobType, NoJob
  <2>2. job' = [job EXCEPT ![b] = [NoJob EXCEPT !.at = "done"]]
    BY <1>13 DEF JobFails
  <2>3. job' \in [Brackets -> JobType] /\ job'[b].at = "done" /\ \A c \in Brackets \ {b} : job'[c] = job[c]
    BY <1>6, <2>1, <2>2
  <2> QED BY <1>0, <1>13, <2>3 DEF JobFails, JobMoves, others, document
<1> QED BY <1>0, <1>7, <1>8, <1>9, <1>10, <1>11, <1>12, <1>13 DEF JobStep

(* The sweep goes from one stage to the next, or is over.                    *)
SweepMoves ==
  \/ sweep' = sweep
  \/ sweep'.at = "idle" /\ sweep'.live = sweep.live /\ sweep'.vouched = FALSE /\ sweep'.unranked = FALSE
  \/ sweep.at = "idle" /\ sweep'.at = "ladders" /\ sweep'.vouched = FALSE /\ sweep'.unranked = FALSE
     /\ \E bs \in SUBSET Brackets : SweepStarts(bs) /\ sweep'.live = bs
  \/ /\ sweep'.live = sweep.live
     /\ \/ /\ CleanupStarts /\ sweep.at = "ladders" /\ sweep'.at = "retired"
           /\ sweep'.vouched = reconciled /\ sweep'.unranked = sweep.unranked
        \/ /\ ClearRetired /\ sweep.at = "retired" /\ sweep'.at = "unranked"
           /\ sweep'.vouched = sweep.vouched /\ sweep'.unranked = sweep.unranked
        \/ /\ FindUnranked /\ sweep.at = "unranked" /\ sweep'.at = "delete"
           /\ sweep'.vouched = sweep.vouched /\ sweep'.unranked = (there /\ on = Nowhere)
        \/ /\ DeleteUnranked /\ sweep.at = "delete" /\ sweep'.at = "rows"
           /\ sweep'.vouched = sweep.vouched /\ sweep'.unranked = (sweep.unranked /\ on = Nowhere)
        \/ /\ RemoveRows /\ sweep.at = "rows" /\ sweep'.at = "boards"
           /\ sweep'.vouched = sweep.vouched /\ sweep'.unranked = sweep.unranked

LEMMA SweepMove ==
  ASSUME TypeOK, Next
  PROVE  sweep' \in SweepType /\ SweepMoves /\ (sweep'.at = "idle" => sweep' = Over')
<1>0. sweep \in SweepType /\ there \in BOOLEAN /\ reconciled \in BOOLEAN
  BY Types DEF TypeOK
<1>1. \A bs \in SUBSET Brackets :
        /\ [NoSweep EXCEPT !.live = bs] \in SweepType /\ [NoSweep EXCEPT !.live = bs].live = bs
        /\ [NoSweep EXCEPT !.live = bs].at = "idle"
        /\ [NoSweep EXCEPT !.live = bs].vouched = FALSE /\ [NoSweep EXCEPT !.live = bs].unranked = FALSE
  BY DEF NoSweep, SweepType
<1>2. CASE sweep' = sweep
  BY <1>0, <1>2 DEF SweepMoves, TypeOK, Over
<1>3. CASE sweep' = Over
  BY <1>0, <1>1, <1>3 DEF SweepMoves, Over, SweepType
<1>4. ASSUME NEW bs \in SUBSET Brackets, SweepStarts(bs)
      PROVE  sweep' \in SweepType /\ SweepMoves /\ (sweep'.at = "idle" => sweep' = Over')
  <2>1. sweep' = [NoSweep EXCEPT !.at = "ladders", !.live = bs] /\ sweep.at = "idle"
    BY <1>4 DEF SweepStarts
  <2>2. /\ sweep' \in SweepType /\ sweep'.at = "ladders" /\ sweep'.live = bs
        /\ sweep'.vouched = FALSE /\ sweep'.unranked = FALSE
    BY <2>1 DEF NoSweep, SweepType
  <2> QED BY <1>4, <2>1, <2>2 DEF SweepMoves
<1>5. CASE CleanupStarts
  <2>1. sweep' = [sweep EXCEPT !.at = "retired", !.vouched = reconciled] /\ sweep.at = "ladders"
    BY <1>5 DEF CleanupStarts
  <2> QED BY <1>0, <1>5, <2>1 DEF SweepMoves, SweepType
<1>6. CASE ClearRetired
  <2>1. sweep' = [sweep EXCEPT !.at = "unranked"] /\ sweep.at = "retired"
    BY <1>6 DEF ClearRetired
  <2> QED BY <1>0, <1>6, <2>1 DEF SweepMoves, SweepType
<1>7. CASE FindUnranked
  <2>1. /\ sweep' = [sweep EXCEPT !.at = "delete", !.unranked = there /\ on = Nowhere]
        /\ sweep.at = "unranked"
    BY <1>7 DEF FindUnranked
  <2> QED BY <1>0, <1>7, <2>1 DEF SweepMoves, SweepType
<1>8. CASE DeleteUnranked
  <2>1. /\ sweep' = [sweep EXCEPT !.at = "rows", !.unranked = sweep.unranked /\ on = Nowhere]
        /\ sweep.at = "delete"
    BY <1>8 DEF DeleteUnranked
  <2> QED BY <1>0, <1>8, <2>1 DEF SweepMoves, SweepType
<1>9. CASE RemoveRows
  <2>1. sweep' = [sweep EXCEPT !.at = "boards"] /\ sweep.at = "rows"
    BY <1>9 DEF RemoveRows
  <2> QED BY <1>0, <1>9, <2>1 DEF SweepMoves, SweepType
<1> QED BY <1>2, <1>3, <1>4, <1>5, <1>6, <1>7, <1>8, <1>9, Effects

LEMMA TypeStep == TypeOK /\ Next => TypeOK'
<1> SUFFICES ASSUME TypeOK, Next PROVE TypeOK'
  OBVIOUS
<1>0. /\ on \in [Brackets -> Ages] /\ row \in [Brackets -> RowType] /\ job \in [Brackets -> JobType]
      /\ push \in PushType /\ profile \in Labels /\ there \in BOOLEAN
      /\ NoJobs \in [Brackets -> JobType] /\ NoRow \in RowType /\ NoPush \in PushType
      /\ Nowhere \in [Brackets -> Ages] /\ \A b \in Brackets : Nowhere[b] = "none"
      /\ NoProfile \in Labels /\ Specs \subseteq Labels
  BY Types DEF TypeOK, Labels
<1>1. family' = family /\ family' \in Catalogues /\ Families' = Families
  BY Effects DEF TypeOK, Families
<1>2. sweep' \in SweepType /\ (sweep'.at = "idle" => sweep' = Over')
  BY SweepMove
<1>3. there' \in BOOLEAN /\ on' \in [Brackets -> Ages] /\ profile' \in Labels
  <2>1. \A b \in Brackets : JobStep(b) => there' \in BOOLEAN /\ on' \in [Brackets -> Ages]
    BY OwnLadder
  <2>2. DeleteUnranked => there' \in BOOLEAN /\ profile' \in Labels
    BY <1>0 DEF DeleteUnranked
  <2>3. ClearRetired => on' \in [Brackets -> Ages]
    BY <1>0 DEF ClearRetired, Ages
  <2>4. PushDocument => on' \in [Brackets -> Ages] /\ profile' \in Labels
    BY <1>0 DEF PushDocument, Ages, PushAge, document
  <2>5. SaveProfile => profile' \in Labels
    BY <1>0 DEF SaveProfile
  <2> QED BY <1>0, <2>1, <2>2, <2>3, <2>4, <2>5, Effects
<1>4. ~there' => profile' = NoProfile /\ \A b \in Brackets : on'[b] = "none"
  <2>0. ~there => profile = NoProfile /\ \A b \in Brackets : on[b] = "none"
    BY DEF TypeOK
  <2>1. ASSUME NEW b \in Brackets, JobStep(b), ~there'
        PROVE  profile' = NoProfile /\ \A c \in Brackets : on'[c] = "none"
    <3>1. ~there /\ profile' = profile /\ on'[b] = "none" /\ \A c \in Brackets \ {b} : on'[c] = on[c]
      BY <2>0, <2>1, OwnLadder
    <3> QED BY <2>0, <3>1
  <2>2. ASSUME DeleteUnranked, ~there'
        PROVE  profile' = NoProfile /\ \A c \in Brackets : on'[c] = "none"
    <3>1. on' = on /\ (~there \/ (sweep.unranked /\ on = Nowhere))
      BY <1>0, <2>2 DEF DeleteUnranked
    <3>2. profile' = NoProfile
      BY <2>0, <2>2, <3>1 DEF DeleteUnranked
    <3> QED BY <1>0, <2>0, <3>1, <3>2
  <2>3. ASSUME ClearRetired, ~there PROVE \A c \in Brackets : on'[c] = "none"
    BY <2>0, <2>3 DEF ClearRetired
  <2>4. PushDocument => (on' = on /\ profile' = profile) \/ (there /\ there' = there)
    BY DEF PushDocument, document
  <2>5. SaveProfile /\ ~there => profile' = profile
    BY DEF SaveProfile
  <2>6. PushDocument \/ ClearRetired \/ SaveProfile => there' = there
    BY DEF PushDocument, ClearRetired, SaveProfile, document
  <2>7. CASE there' = there
    BY <2>0, <2>1, <2>2, <2>3, <2>4, <2>5, <2>6, <2>7, Effects
  <2> QED BY <2>1, <2>2, <2>7, Effects
<1>5. row' \in [Brackets -> RowType]
  <2>1. \A b \in Brackets : JobStep(b) => row' \in [Brackets -> RowType]
    BY OwnLadder
  <2>2. RemoveRows \/ ClearBoards => row' \in [Brackets -> RowType]
    BY <1>0 DEF RemoveRows, ClearBoards
  <2>3. CASE LabelRows
    <3>1. \A b \in Brackets : [row[b] EXCEPT !.label = profile] \in RowType
      BY <1>0 DEF RowType
    <3> QED BY <1>0, <2>3, <3>1 DEF LabelRows
  <2>4. \A f \in Families : PushRows(f) => row' \in [Brackets -> RowType]
    <3>1. \A b \in Brackets : Rated(b, PushAge(b)) \in RowType
      BY <1>0 DEF Rated, PushAge, RowType, Ages
    <3> QED BY <1>0, <3>1 DEF PushRows
  <2> QED BY <1>0, <2>1, <2>2, <2>3, <2>4, Effects
<1>6. job' \in [Brackets -> JobType]
  <2>1. \A b \in Brackets : JobStep(b) => job' \in [Brackets -> JobType]
    BY OwnLadder
  <2>2. \A bs \in SUBSET Brackets : SweepStarts(bs) => job' \in [Brackets -> JobType]
    <3>1. [NoJob EXCEPT !.at = "waiting"] \in JobType /\ NoJob \in JobType
      BY DEF NoJob, JobType
    <3> QED BY <3>1 DEF SweepStarts
  <2> QED BY <1>0, <2>1, <2>2, Effects
<1>7. {reconciled, apart, late}' \subseteq BOOLEAN /\ enrich' \in {"idle", "selected", "saved"}
  <2>1. {reconciled, apart, late} \subseteq BOOLEAN /\ enrich \in {"idle", "selected", "saved"}
    BY DEF TypeOK
  <2>2. reconciled' \in BOOLEAN /\ apart' \in BOOLEAN
    BY <2>1, Effects DEF ClearBoards, SweepStarts
  <2>3. late' \in BOOLEAN
    BY <2>1, Effects DEF RemoveRows, PushRows
  <2> QED BY <2>1, <2>2, <2>3, Effects
<1>8. push' \in PushType
  <2>1. \A b \in Brackets, lists \in BOOLEAN : GetLeaderboard(b, lists) => push' \in PushType
    BY OwnLadder DEF JobStep
  <2>2. \A bs \in SUBSET Brackets : PushStarts(bs) => push' \in PushType
    <3>1. \A bs \in SUBSET Brackets : [NoPush EXCEPT !.at = "admitted", !.takes = bs] \in PushType
      BY DEF NoPush, PushType
    <3> QED BY <3>1 DEF PushStarts
  <2>3. PushDocument => push' \in PushType
    <3>1. [push EXCEPT !.at = "rows", !.todo = Families] \in PushType
      BY <1>0 DEF PushType
    <3> QED BY <1>0, <3>1 DEF PushDocument
  <2>4. ASSUME NEW f \in Families, PushRows(f) PROVE push' \in PushType
    <3> DEFINE rest == {b \in Brackets : family[b] # f}
    <3>1. push' = [push EXCEPT !.todo = push.todo \ {f}, !.takes = push.takes \cap rest, !.old = push.old \cap rest]
      BY <2>4 DEF PushRows
    <3> QED BY <1>0, <3>1 DEF PushType
  <2> QED BY <1>0, <2>1, <2>2, <2>3, <2>4, Effects
<1> QED BY <1>1, <1>2, <1>3, <1>4, <1>5, <1>6, <1>7, <1>8 DEF TypeOK, JobType, RowType, SweepType,
          PushType

LEMMA JobsStep == TypeOK /\ JobsAreTrue /\ Next => JobsAreTrue'
<1> SUFFICES ASSUME TypeOK, JobsAreTrue, Next PROVE JobsAreTrue'
  OBVIOUS
<1>0. /\ SweepMoves /\ job \in [Brackets -> JobType] /\ sweep \in SweepType
      /\ \A b \in Brackets : NoJobs[b].at = "none"
  BY SweepMove, Types
<1>1. sweep'.at # "ladders" => job' = NoJobs
  <2>1. ASSUME NEW b \in Brackets, JobStep(b) PROVE sweep'.at = "ladders"
    BY <1>0, <2>1, OwnLadder DEF JobsAreTrue
  <2>2. \A bs \in SUBSET Brackets : SweepStarts(bs) => sweep'.at = "ladders"
    BY DEF SweepStarts, NoSweep
  <2>3. sweep'.at # "ladders" => job' = job \/ job' = NoJobs
    BY <2>1, <2>2, Effects
  <2>4. sweep'.at # "ladders" /\ sweep.at = "ladders" => job' = NoJobs
    <3>1. ClearBoards \/ CleanupFails \/ ClearRetired \/ FindUnranked \/ DeleteUnranked \/ RemoveRows
            => sweep.at # "ladders"
      BY DEF ClearBoards, CleanupFails, ClearRetired, FindUnranked, DeleteUnranked, RemoveRows
    <3>2. \A bs \in SUBSET Brackets : SweepStarts(bs) => sweep.at # "ladders"
      BY DEF SweepStarts
    <3>3. CleanupStarts \/ Crash => job' = NoJobs
      BY DEF CleanupStarts, Crash
    <3> QED BY <3>1, <3>2, <3>3, Effects
  <2> QED BY <2>3, <2>4 DEF JobsAreTrue
<1>2. sweep'.at \notin {"idle", "ladders"} => ~reconciled'
  <2>1. ClearBoards => sweep'.at = "idle"
    BY <1>0 DEF ClearBoards, Over, NoSweep
  <2> QED BY <1>0, <2>1, Effects DEF SweepMoves, JobsAreTrue, CleanupStarts
<1>3. ASSUME NEW b \in Brackets
      PROVE  (job'[b].at = "pruned" => there') /\ (job'[b].at = "stored" /\ job'[b].lists => there')
  <2>1. ASSUME NEW c \in Brackets, JobStep(c)
        PROVE  (job'[b].at = "pruned" => there') /\ (job'[b].at = "stored" /\ job'[b].lists => there')
    <3>1. JobMoves(c) /\ (there => there') /\ (b # c => job'[b] = job[b])
      BY <2>1, OwnLadder
    <3>2. CASE b = c
      BY <3>1, <3>2 DEF JobMoves, JobsAreTrue
    <3> QED BY <3>1, <3>2 DEF JobsAreTrue
  <2>2. ASSUME NEW bs \in SUBSET Brackets, SweepStarts(bs)
        PROVE  job'[b].at \in {"none", "waiting"}
    BY <2>2 DEF SweepStarts, NoJob
  <2>3. DeleteUnranked => job = NoJobs /\ job' = job
    BY DEF DeleteUnranked, JobsAreTrue
  <2>4. CASE job' = job /\ there' = there
    BY <2>4 DEF JobsAreTrue
  <2> QED BY <1>0, <2>1, <2>2, <2>3, <2>4, Effects
<1> QED BY <1>1, <1>2, <1>3 DEF JobsAreTrue

(* Rows come back only to a character that is there, or from a push.         *)
LEMMA NothingComes ==
  ASSUME TypeOK, JobsAreTrue, Next, ~late', ~there', NothingLeft
  PROVE  NothingLeft'
<1>0. row \in [Brackets -> RowType] /\ NoRow.age = "none" /\ NoRow.label = NoProfile
  BY Types DEF NoRow
<1>1. ASSUME NEW b \in Brackets, JobStep(b) PROVE NothingLeft'
  <2>1. /\ JobMoves(b) /\ row' \in [Brackets -> RowType] /\ (there => there')
        /\ \A c \in Brackets \ {b} : row'[c] = row[c]
    BY <1>1, OwnLadder
  <2>2. job[b].at # "pruned" /\ row[b] = NoRow
    BY <2>1 DEF JobsAreTrue, NothingLeft
  <2>3. row'[b].age = "none" /\ row'[b].label = NoProfile
    BY <1>0, <2>1, <2>2 DEF JobMoves, Older
  <2>4. row'[b] = NoRow
    BY <2>1, <2>3 DEF RowType, NoRow
  <2> QED BY <2>1, <2>4 DEF NothingLeft
<1>2. RemoveRows \/ ClearBoards => NothingLeft'
  BY DEF RemoveRows, ClearBoards, NothingLeft
<1>3. LabelRows => NothingLeft'
  BY <1>0 DEF LabelRows, NothingLeft
<1>4. ASSUME NEW f \in Families, PushRows(f) PROVE FALSE
  <2>1. there' = there /\ late' = (late \/ ~there)
    BY <1>4 DEF PushRows, document
  <2> QED BY <2>1
<1> QED BY <1>1, <1>2, <1>3, <1>4, Effects DEF NothingLeft

LEMMA VouchStep == VouchInv /\ Next => GoneIsCleared'
<1> SUFFICES ASSUME VouchInv, Next, ~late', ~there'
             PROVE  /\ reconciled' => NothingLeft'
                    /\ sweep'.at \in {"retired", "unranked"} /\ sweep'.vouched => NothingLeft'
                    /\ sweep'.at \in {"delete", "rows"} /\ sweep'.vouched /\ ~sweep'.unranked => NothingLeft'
                    /\ sweep'.at = "boards" => NothingLeft'
  BY DEF GoneIsCleared
<1>0. TypeOK /\ JobsAreTrue /\ SweepMoves /\ (NothingLeft => NothingLeft')
  BY SweepMove, NothingComes DEF VouchInv
<1>1. ~DeleteUnranked => ~there
  BY <1>0, Effects, OwnLadder
<1>2. ~RemoveRows => ~late
  BY <1>0, Effects DEF PushRows
<1>3. ClearBoards => sweep.at = "boards" /\ sweep'.at = "idle"
  BY DEF ClearBoards, Over, NoSweep
<1>4. CASE DeleteUnranked
  <2>1. /\ sweep.at = "delete" /\ sweep'.at = "rows" /\ sweep'.vouched = sweep.vouched
        /\ sweep'.unranked = (sweep.unranked /\ on = Nowhere) /\ ~late /\ row' = row /\ ~reconciled'
    BY <1>0, <1>2, <1>4 DEF SweepMoves, DeleteUnranked, JobsAreTrue, RemoveRows, history
  <2>2. ~there => on = Nowhere
    BY <1>0, Types DEF TypeOK
  <2>3. ~sweep'.unranked => ~there /\ ~sweep.unranked
    BY <1>4, <2>1, <2>2 DEF DeleteUnranked
  <2> QED BY <1>0, <2>1, <2>3 DEF VouchInv, GoneIsCleared
<1>5. CASE RemoveRows
  <2>1. /\ sweep.at = "rows" /\ sweep'.at = "boards" /\ ~reconciled' /\ ~there
        /\ row' = (IF (IF sweep.vouched THEN sweep.unranked ELSE ~there) THEN [b \in Brackets |-> NoRow] ELSE row)
        /\ late' = (late /\ sweep.vouched)
    BY <1>0, <1>5 DEF SweepMoves, RemoveRows, JobsAreTrue, document
  <2>2. CASE sweep.vouched /\ ~sweep.unranked
    BY <1>0, <2>1, <2>2 DEF VouchInv, GoneIsCleared
  <2>3. CASE ~sweep.vouched \/ sweep.unranked
    BY <2>1, <2>3 DEF NothingLeft
  <2> QED BY <2>2, <2>3
<1>6. CASE ~DeleteUnranked /\ ~RemoveRows
  <2>1. ~there /\ ~late
    BY <1>1, <1>2, <1>6
  <2>2. reconciled' => NothingLeft'
    BY <1>0, <1>3, <2>1, Effects DEF VouchInv, GoneIsCleared
  <2>3. /\ sweep'.at \in {"retired", "unranked"} /\ sweep'.vouched => NothingLeft'
        /\ sweep'.at \in {"delete", "rows"} /\ sweep'.vouched /\ ~sweep'.unranked => NothingLeft'
        /\ sweep'.at = "boards" => NothingLeft'
    BY <1>0, <1>6, <2>1 DEF VouchInv, GoneIsCleared, SweepMoves
  <2> QED BY <2>2, <2>3
<1> QED BY <1>4, <1>5, <1>6

LEMMA StartsTrue == Init => VouchInv /\ SweepInv
<1> SUFFICES ASSUME Init PROVE VouchInv /\ SweepInv
  OBVIOUS
<1>1. NoRow \in RowType /\ NoJob \in JobType /\ NoJob.at = "none" /\ NoSweep.at = "idle" /\ NoSweep = Over
      /\ NoSweep \in SweepType /\ NoPush \in PushType
  BY DEF Init, NoRow, NoJob, NoSweep, NoPush, RowType, JobType, SweepType, PushType, Ages, Labels, Over
<1>2. /\ on \in [Brackets -> Ages] /\ row \in [Brackets -> RowType] /\ job \in [Brackets -> JobType]
      /\ \A b \in Brackets : job[b].at = "none" /\ on[b] = "none"
  BY <1>1 DEF Init, Nowhere, NoJobs, Ages
<1>3. TypeOK
  BY <1>1, <1>2 DEF Init, TypeOK, RowType, JobType, SweepType, PushType, Labels
<1>4. JobsAreTrue
  BY <1>1, <1>2 DEF Init, JobsAreTrue
<1> QED BY <1>1, <1>3, <1>4 DEF Init, VouchInv, SweepInv, GoneIsCleared, SweepAgrees

LEMMA Vouches == Spec => []VouchInv
<1>1. VouchInv /\ [Next]_vars => VouchInv'
  <2>1. VouchInv /\ Next => VouchInv'
    BY TypeStep, JobsStep, VouchStep DEF VouchInv
  <2>2. VouchInv /\ UNCHANGED vars => VouchInv'
    BY DEF vars, document, others, history, VouchInv, TypeOK, JobsAreTrue, GoneIsCleared, NothingLeft,
      Over, Families
  <2> QED BY <2>1, <2>2
<1> QED BY StartsTrue, <1>1, PTL DEF Spec

(* Whenever the last cleanup is vouched for no row is left of a character    *)
(* that is gone, but for what an overtaken push has written since.           *)
THEOREM Vouched == Spec => []VouchedIsTrue
<1>1. VouchInv => VouchedIsTrue
  BY DEF VouchInv, GoneIsCleared, NothingLeft, VouchedIsTrue
<1> QED BY Vouches, <1>1, PTL

(* A character is deleted by nothing while some ladder lists it.             *)
THEOREM UnrankedOnly == Spec => OnlyUnrankedDeleted
<1>1. VouchInv /\ [Next]_vars => [there /\ ~there' => on = Nowhere]_vars
  <2> SUFFICES ASSUME VouchInv, Next, there, ~there' PROVE on = Nowhere
    OBVIOUS
  <2>1. DeleteUnranked
    BY Effects, OwnLadder DEF VouchInv
  <2> QED BY <2>1 DEF DeleteUnranked
<1> QED BY Vouches, <1>1, PTL DEF Spec, OnlyUnrankedDeleted

(* What a step that leaves them alone leaves agreed.                         *)
LEMMA AgreedStays ==
  ASSUME on' = on, row' = row, profile' = profile, family' = family, NEW b \in Brackets
  PROVE  (Agreed(b)' <=> Agreed(b)) /\ (Labelled(b)' <=> Labelled(b))
  BY DEF Agreed, Labelled, CoreBrackets

LEMMA JobAgrees ==
  ASSUME TypeOK, NEW b \in Brackets, JobStep(b), apart', OnItsWay(b)
  PROVE  apart /\ OnItsWay(b)' /\ job'[b].at # "none"
<1>0. /\ JobMoves(b) /\ profile' = profile /\ family' = family /\ job[b] \in JobType /\ job'[b] \in JobType
      /\ row[b] \in RowType /\ on[b] \in Ages /\ NoRow.age = "none"
  BY OwnLadder, Types
<1>1. Labelled(b)' <=> (b \in CoreBrackets /\ row'[b].age # "none" /\ profile # NoProfile => row'[b].label = profile)
  BY <1>0 DEF Labelled, CoreBrackets
<1>2. Agreed(b)' <=> (on'[b] = row'[b].age /\ on'[b] # "old" /\ Labelled(b)')
  BY DEF Agreed
<1>3. CASE job[b].at \in {"waiting", "read", "inserting", "stored"} /\ job'[b].at # "done"
  BY <1>0, <1>3 DEF JobMoves, OnItsWay, Older, JobType, Ages
<1>4. CASE job[b].at = "pruned" /\ job'[b].at # "done"
  <2>1. /\ on'[b] = "new" /\ row'[b] = Rated(b, "new") /\ job'[b].at = "rated" /\ job'[b].lists /\ apart
    BY <1>0, <1>4 DEF JobMoves, OnItsWay
  <2>2. Labelled(b)' /\ row'[b].age = "new"
    BY <1>1, <2>1 DEF Rated
  <2> QED BY <2>1, <2>2 DEF OnItsWay
<1>5. CASE job'[b].at = "done"
  <2>1. job[b].at = "rated" /\ on'[b] = on[b] /\ row'[b] = (IF row[b].age = "old" THEN NoRow ELSE row[b]) /\ apart
    BY <1>0, <1>5 DEF JobMoves
  <2>2. Agreed(b)'
    BY <1>0, <1>1, <1>2, <2>1 DEF OnItsWay, Labelled, RowType, Ages
  <2> QED BY <1>5, <2>1, <2>2 DEF OnItsWay
<1> QED BY <1>0, <1>3, <1>4, <1>5 DEF JobMoves

LEMMA CleanupMoves ==
  ASSUME TypeOK
  PROVE  /\ CleanupStarts => sweep'.at = "retired" /\ sweep'.live = sweep.live
         /\ ClearRetired => sweep'.at = "unranked" /\ sweep'.live = sweep.live
         /\ FindUnranked => /\ sweep'.at = "delete" /\ sweep'.live = sweep.live
                            /\ sweep'.unranked = (there /\ on = Nowhere)
         /\ DeleteUnranked => /\ sweep'.at = "rows" /\ sweep'.live = sweep.live
                              /\ sweep'.unranked = (sweep.unranked /\ on = Nowhere)
         /\ RemoveRows => sweep'.at = "boards" /\ sweep'.live = sweep.live
<1>0. sweep \in SweepType
  BY Types
<1>1. CleanupStarts => sweep'.at = "retired" /\ sweep'.live = sweep.live
  BY <1>0 DEF CleanupStarts, SweepType
<1>2. ClearRetired => sweep'.at = "unranked" /\ sweep'.live = sweep.live
  BY <1>0 DEF ClearRetired, SweepType
<1>3. FindUnranked => /\ sweep'.at = "delete" /\ sweep'.live = sweep.live
                      /\ sweep'.unranked = (there /\ on = Nowhere)
  BY <1>0 DEF FindUnranked, SweepType
<1>4. DeleteUnranked => /\ sweep'.at = "rows" /\ sweep'.live = sweep.live
                        /\ sweep'.unranked = (sweep.unranked /\ on = Nowhere)
  <2> SUFFICES ASSUME DeleteUnranked
               PROVE  /\ sweep'.at = "rows" /\ sweep'.live = sweep.live
                      /\ sweep'.unranked = (sweep.unranked /\ on = Nowhere)
    OBVIOUS
  <2>1. sweep' = [sweep EXCEPT !.at = "rows", !.unranked = sweep.unranked /\ on = Nowhere]
    BY DEF DeleteUnranked
  <2> QED BY <1>0, <2>1 DEF SweepType
<1>5. RemoveRows => sweep'.at = "boards" /\ sweep'.live = sweep.live
  BY <1>0 DEF RemoveRows, SweepType
<1> QED BY <1>1, <1>2, <1>3, <1>4, <1>5

LEMMA SweepStep == SweepInv /\ TypeOK' /\ Next => SweepAgrees'
<1> SUFFICES ASSUME SweepInv, TypeOK', Next, apart' PROVE SweepAgrees'
  BY DEF SweepAgrees
<1>0. TypeOK /\ JobsAreTrue /\ SweepAgrees /\ SweepMoves
  BY SweepMove DEF SweepInv
<1>1. ASSUME NEW bs \in SUBSET Brackets, SweepStarts(bs) PROVE SweepAgrees'
  <2>1. /\ push' = push /\ enrich' = enrich /\ push = NoPush /\ enrich = "idle"
        /\ sweep' = [NoSweep EXCEPT !.at = "ladders", !.live = bs]
        /\ job' = [b \in Brackets |-> IF b \in bs THEN [NoJob EXCEPT !.at = "waiting"] ELSE NoJob]
    BY <1>1 DEF SweepStarts, others
  <2>2. sweep'.at = "ladders" /\ sweep'.live = bs
    BY <2>1 DEF NoSweep
  <2>3. \A b \in Brackets : job'[b].at = IF b \in bs THEN "waiting" ELSE "none"
    BY <2>1 DEF NoJob
  <2>4. \A b \in Brackets : OnItsWay(b)'
    BY <2>3 DEF OnItsWay
  <2> QED BY <2>1, <2>2, <2>3, <2>4 DEF SweepAgrees
<1>2. ASSUME NEW b \in Brackets, JobStep(b) PROVE SweepAgrees'
  <2>1. /\ sweep' = sweep /\ profile' = profile /\ family' = family /\ enrich' = enrich /\ job[b].at # "none"
        /\ (push = NoPush => push' = NoPush)
        /\ \A c \in Brackets \ {b} : on'[c] = on[c] /\ row'[c] = row[c] /\ job'[c] = job[c]
    BY <1>0, <1>2, OwnLadder
  <2>2. sweep.at = "ladders"
    BY <1>0, <2>1, Types DEF JobsAreTrue
  <2>3. apart
    BY <1>0, <1>2, OwnLadder DEF JobMoves
  <2>4. OnItsWay(b)' /\ job'[b].at # "none"
    BY <1>0, <1>2, <2>2, <2>3, JobAgrees DEF SweepAgrees
  <2>5. ASSUME NEW c \in Brackets \ {b} PROVE OnItsWay(c)' /\ job'[c].at = job[c].at
    BY <1>0, <2>1, <2>2, <2>3 DEF SweepAgrees, OnItsWay, Agreed, Labelled, CoreBrackets
  <2> QED BY <1>0, <2>1, <2>2, <2>3, <2>4, <2>5 DEF SweepAgrees
<1>3. CASE CleanupStarts
  <2>1. /\ sweep.at = "ladders" /\ sweep'.at = "retired" /\ sweep'.live = sweep.live
        /\ \A b \in Brackets : job[b].at \in {"none", "done"}
        /\ UNCHANGED <<family, on, profile, row, push, enrich, apart>>
    BY <1>0, <1>3, CleanupMoves DEF CleanupStarts, document, others, history
  <2>2. \A b \in sweep.live : b \in Brackets /\ Agreed(b)
    BY <1>0, <2>1, Types DEF SweepAgrees, OnItsWay, SweepType
  <2>3. \A b \in sweep.live : Agreed(b)'
    BY <2>1, <2>2, AgreedStays
  <2> QED BY <1>0, <2>1, <2>3 DEF SweepAgrees
<1>4. CASE ClearRetired
  <2>1. /\ sweep.at = "retired" /\ sweep'.at = "unranked" /\ sweep'.live = sweep.live
        /\ on' = [b \in Brackets |-> IF b \in sweep.live THEN on[b] ELSE "none"]
        /\ UNCHANGED <<family, profile, row, push, enrich, apart>>
    BY <1>0, <1>4, CleanupMoves DEF ClearRetired, document, others, history
  <2>2. \A b \in sweep.live : b \in Brackets /\ on'[b] = on[b]
    BY <1>0, <2>1, Types DEF SweepType
  <2>3. \A b \in sweep.live : Agreed(b)'
    BY <1>0, <2>1, <2>2 DEF SweepAgrees, Agreed, Labelled, CoreBrackets
  <2> QED BY <1>0, <2>1, <2>3 DEF SweepAgrees
<1>5. CASE FindUnranked
  <2>1. /\ sweep.at = "unranked" /\ sweep'.at = "delete" /\ sweep'.live = sweep.live
        /\ sweep'.unranked = (there /\ on = Nowhere)
        /\ UNCHANGED <<family, there, on, profile, row, push, enrich, apart>>
    BY <1>0, <1>5, CleanupMoves DEF FindUnranked, document, others, history
  <2>2. \A b \in sweep.live : b \in Brackets /\ Agreed(b)'
    BY <1>0, <2>1, Types, AgreedStays DEF SweepAgrees, SweepType
  <2> QED BY <1>0, <2>1, <2>2 DEF SweepAgrees
<1>6. CASE DeleteUnranked
  <2>1. /\ sweep.at = "delete" /\ sweep'.at = "rows" /\ sweep'.live = sweep.live
        /\ sweep'.unranked = (sweep.unranked /\ on = Nowhere)
        /\ there' = (there /\ ~sweep'.unranked) /\ (profile' = profile \/ profile' = NoProfile)
        /\ UNCHANGED <<family, on, row, push, enrich, apart>>
    BY <1>0, <1>6, CleanupMoves DEF DeleteUnranked, others, history
  <2>2. ~there => on = Nowhere
    BY <1>0, Types DEF TypeOK
  <2>3. there' <=> on' # Nowhere
    BY <1>0, <2>1, <2>2 DEF SweepAgrees
  <2>4. \A b \in sweep.live : b \in Brackets /\ Agreed(b)'
    BY <1>0, <2>1, Types DEF SweepAgrees, SweepType, Agreed, Labelled, CoreBrackets
  <2> QED BY <1>0, <2>1, <2>3, <2>4 DEF SweepAgrees
<1>7. CASE RemoveRows
  <2>1. /\ sweep.at = "rows" /\ sweep'.at = "boards" /\ sweep'.live = sweep.live
        /\ row' = (IF (IF sweep.vouched THEN sweep.unranked ELSE ~there) THEN [b \in Brackets |-> NoRow] ELSE row)
        /\ UNCHANGED <<family, there, on, profile, push, enrich, apart>>
    BY <1>0, <1>7, CleanupMoves DEF RemoveRows, document, others
  <2>2. \A b \in sweep.live : b \in Brackets
    BY <1>0, Types DEF SweepType
  <2>3. CASE row' = row
    BY <1>0, <2>1, <2>2, <2>3, AgreedStays DEF SweepAgrees
  <2>4. CASE ~there /\ row' = [b \in Brackets |-> NoRow]
    <3>1. \A b \in Brackets : row'[b].age = "none" /\ on'[b] = "none"
      BY <1>0, <2>1, <2>4, Types DEF SweepAgrees, TypeOK
    <3>2. \A b \in sweep.live : Agreed(b)'
      BY <2>2, <3>1 DEF Agreed, Labelled
    <3> QED BY <1>0, <2>1, <3>2 DEF SweepAgrees
  <2> QED BY <1>0, <2>1, <2>3, <2>4 DEF SweepAgrees
<1>8. CASE ClearBoards
  <2>1. /\ sweep.at = "boards" /\ sweep'.at = "idle" /\ sweep'.live = sweep.live
        /\ row' = [b \in Brackets |-> IF Kept(b) THEN row[b] ELSE NoRow]
        /\ UNCHANGED <<family, there, on, profile, push, enrich, apart>>
    BY <1>8 DEF ClearBoards, Over, NoSweep, document, others, history
  <2>2. \A b \in sweep.live : b \in Brackets /\ row'[b] = row[b]
    BY <1>0, <2>1, Types DEF SweepType, Kept
  <2>3. \A b \in sweep.live : Agreed(b)'
    BY <1>0, <2>1, <2>2 DEF SweepAgrees, Agreed, Labelled, CoreBrackets
  <2>4. \A b \in Brackets : Kept(b)' <=> Kept(b)
    BY <2>1 DEF Kept
  <2> QED BY <1>0, <2>1, <2>3, <2>4 DEF SweepAgrees
<1>9. CASE ReconcileDue
  <2>1. UNCHANGED <<family, there, on, profile, row, sweep, job, push, enrich, apart>>
    BY <1>9 DEF ReconcileDue, document, others, history
  <2> QED BY <1>0, <2>1 DEF SweepAgrees, OnItsWay, Agreed, Labelled, CoreBrackets, Kept
<1>10. \/ (\E bs \in SUBSET Brackets : SweepStarts(bs)) \/ \E b \in Brackets : JobStep(b)
       \/ CleanupStarts \/ ClearRetired \/ FindUnranked \/ DeleteUnranked \/ RemoveRows \/ ClearBoards \/ ReconcileDue
  <2>1. CASE ~apart
    BY <2>1, Effects, OwnLadder DEF JobMoves
  <2>2. CASE push = NoPush /\ enrich = "idle"
    <3>1. ~PushDocument /\ ~PushEnds /\ ~SaveProfile /\ ~LabelRows /\ ~EnrichFails
          /\ \A f \in Families : ~PushRows(f)
      BY <2>2 DEF NoPush, PushDocument, PushEnds, SaveProfile, LabelRows, EnrichFails, PushRows
    <3>2. ~EnrichStarts /\ ~CleanupFails /\ ~Crash /\ \A bs \in SUBSET Brackets : ~PushStarts(bs)
      BY DEF EnrichStarts, CleanupFails, Crash, PushStarts
    <3> QED BY Zenon, <3>1, <3>2 DEF Next, JobStep
  <2> QED BY <1>0, <2>1, <2>2 DEF SweepAgrees
<1> QED BY <1>1, <1>2, <1>3, <1>4, <1>5, <1>6, <1>7, <1>8, <1>9, <1>10

(* After a sweep that met no failure and had no push or enrichment beside it *)
(* the documents and the boards tell the same.                               *)
THEOREM SweepsAgree == Spec => []CleanSweepAgrees
<1>1. SweepInv /\ [Next]_vars => SweepInv'
  <2>1. SweepInv /\ Next => SweepInv'
    BY TypeStep, JobsStep, SweepStep DEF SweepInv
  <2>2. SweepInv /\ UNCHANGED vars => SweepInv'
    BY DEF vars, document, others, history, SweepInv, TypeOK, JobsAreTrue, Over, Families,
      SweepAgrees, OnItsWay, Agreed, Labelled, CoreBrackets, Kept
  <2> QED BY <2>1, <2>2
<1>2. SweepInv => CleanSweepAgrees
  <2> SUFFICES ASSUME SweepInv, sweep.at = "idle", apart PROVE CleanSweepAgrees
    BY DEF CleanSweepAgrees
  <2>1. /\ \A b \in sweep.live : Agreed(b)
        /\ \A b \in Brackets \ sweep.live : on[b] = "none"
        /\ there <=> on # Nowhere
        /\ \A b \in Brackets : ~Kept(b) => row[b] = NoRow
    BY DEF SweepInv, SweepAgrees
  <2> QED BY <2>1 DEF CleanSweepAgrees, Agreed, Labelled
<1> QED BY StartsTrue, <1>1, <1>2, PTL DEF Spec

-----------------------------------------------------------------------------
(***************************************************************************)
(* The queue of the enrichment.  The argument that p is not left out too   *)
(* often while q is taken counts in ticks.  Of a, the age by which p waits,*)
(* those since q last stamped its specs are kept back, and those since q   *)
(* stamped its summary, as far as a backoff: each pass that takes q stamps *)
(* one of them, which gives back a backoff's worth.  When a has outgrown   *)
(* the age that the stamp of a failure leaves (Span) this comes to an end: *)
(* by the next stamp of its specs q is behind p, and before it come two    *)
(* summaries that fail at the most, as of two gaps one is short.           *)
(***************************************************************************)
Span == SpecsTtl - Backoff

Least(a, b) == IF a <= b THEN a ELSE b
Waited(t) == IF t <= 0 THEN 0 ELSE Least(t, Backoff)

(* The age a of p less what q has waited since its stamps, of ages v and s.  *)
BySpecs(a, v) == a - Waited(v - Span)
BySummary(a, s) == a - Waited(s - (SummaryTtl - Backoff))

(* What is allowed for the summaries of q that have failed since p outgrew   *)
(* the span: the last one no earlier than the pass before.                   *)
Again(slow) == IF slow THEN 2 * Backoff ELSE Backoff
Failed(a, s, g, slow) ==
  IF BySummary(a, s) > Span /\ s <= SummaryTtl - Backoff + g THEN Again(slow) ELSE 0

Allowed(a, v, s, g, slow) ==
  2 * Backoff + Least(BySpecs(a, v), Span) + Least(BySummary(a, s), Span) + Failed(a, s, g, slow)
Most == 2 * Span + 5 * Backoff

(* q has fallen behind, and cannot be taken before p any more.               *)
Behind(a, v, g) == a > Span /\ v < a /\ v <= Span + g

Within(n, a, v, s, g, slow) ==
  \/ Backoff * n <= Allowed(a, v, s, g, slow)
  \/ Behind(a, v, g) /\ Backoff * n <= Most

(* n counts the pass in progress, which has yet to ask for a half of q.      *)
SummaryAsked(n, a, v, slow) ==
  Backoff * n <= 2 * Backoff + Least(BySpecs(a, v), Span) + Least(a, Span)
                 + IF a > Span THEN Again(slow) ELSE 0
SpecsAsked(n, a, s) ==
  /\ Backoff * n <= Most
  /\ a <= Span => Backoff * n <= 2 * Backoff + a + BySummary(a, s)

(* What an enrichment or a push may make of a stamp.                         *)
Restamped(before, after, failed) == after \in {before, 0, failed}

USE QueueAssumption

(* What is allowed comes to Most at the most, and to something at least.     *)
LEMMA WithinMost ==
  ASSUME NEW n \in Nat, NEW a \in 0..Absent, NEW v \in 0..Absent, NEW s \in 0..Absent,
         NEW g \in 0..LongestGap, NEW slow \in BOOLEAN,
         Within(n, a, v, s, g, slow)
  PROVE  Backoff * n <= Most
BY DEF Within, Allowed, Most, Failed, Again, BySummary, BySpecs, Waited, Least, Span, Absent

LEMMA NoneYet ==
  ASSUME NEW a \in 0..Absent, NEW v \in 0..Absent, NEW s \in 0..Absent,
         NEW g \in 0..LongestGap, NEW slow \in BOOLEAN
  PROVE  Within(0, a, v, s, g, slow)
BY DEF Within, Allowed, Most, Failed, Again, BySummary, BySpecs, Waited, Least, Span, Absent

(* Time passes: p grows older, and q has waited longer.                      *)
LEMMA TickKeeps ==
  ASSUME NEW n \in Nat, NEW a \in 0..Absent, NEW v \in 0..Absent, NEW s \in 0..Absent,
         NEW g \in 0..LongestGap, NEW slow \in BOOLEAN,
         g < LongestGap, Within(n, a, v, s, g, slow)
  PROVE  Within(n, Aged(a), Aged(v), Aged(s), g + 1, slow)
BY SMTT(60)
   DEF Within, Allowed, Most, Failed, Again, BySummary, BySpecs, Waited, Least, Span, Absent, Behind, Aged

(* q is stamped beside the passes that count: what it had waited is free.    *)
LEMMA StampKeeps ==
  ASSUME NEW n \in Nat, NEW a \in 0..Absent, NEW v \in 0..Absent, NEW s \in 0..Absent,
         NEW g \in 0..LongestGap, NEW slow \in BOOLEAN,
         NEW w, NEW t, Restamped(v, w, Span), Restamped(s, t, SummaryTtl - Backoff),
         Within(n, a, v, s, g, slow)
  PROVE  Within(n, a, w, t, g, slow)
BY SMTT(60)
   DEF Restamped, Within, Allowed, Most, Failed, Again, BySummary, BySpecs, Waited,
       Least, Span, Absent, Behind

(* A pass takes q before p and is to ask for its summary.  If that was       *)
(* stamped a pass ago the gap was not short, and the one before it was.      *)
LEMMA SummaryBegins ==
  ASSUME NEW n \in Nat, NEW a \in 0..Absent, NEW v \in 0..Absent, NEW s \in 0..Absent,
         NEW g \in 0..LongestGap, NEW slow \in BOOLEAN,
         slow => g <= UsualGap, v >= a, s >= SummaryTtl,
         Within(n, a, v, s, g, slow)
  PROVE  SummaryAsked(n + 1, a, v, g > UsualGap)
BY SMTT(60)
   DEF SummaryAsked, Within, Allowed, Most, Failed, Again, BySummary, BySpecs, Waited,
       Least, Span, Absent, Behind

(* Or for its specs alone, which puts it behind p where p has outgrown them. *)
LEMMA SpecsBegin ==
  ASSUME NEW n \in Nat, NEW a \in 0..Absent, NEW v \in 0..Absent, NEW s \in 0..Absent,
         NEW g \in 0..LongestGap, NEW slow \in BOOLEAN,
         v >= a, v >= SpecsTtl,
         Within(n, a, v, s, g, slow)
  PROVE  SpecsAsked(n + 1, a, s)
BY SMTT(60)
   DEF SpecsAsked, Within, Allowed, Most, Failed, Again, BySummary, BySpecs, Waited,
       Least, Span, Absent, Behind

(* The summary of q is stamped, whether it could be read or not, or both     *)
(* halves of a character that is gone.                                       *)
LEMMA SummaryStamped ==
  ASSUME NEW n \in Nat, NEW a \in 0..Absent, NEW v \in 0..Absent,
         NEW g \in 0..LongestGap, NEW slow \in BOOLEAN,
         NEW w \in {v, 0}, NEW t \in {0, SummaryTtl - Backoff},
         SummaryAsked(n, a, v, slow)
  PROVE  Within(n, a, w, t, g, slow) /\ SpecsAsked(n, a, t) /\ SummaryAsked(n, a, w, slow)
BY SMTT(60)
   DEF SummaryAsked, SpecsAsked, Within, Allowed, Most, Failed, Again, BySummary, BySpecs, Waited,
       Least, Span, Absent, Behind

LEMMA AskedMost ==
  ASSUME NEW n \in Nat, NEW a \in 0..Absent, NEW v \in 0..Absent, NEW slow \in BOOLEAN,
         SummaryAsked(n, a, v, slow)
  PROVE  Backoff * n <= Most
BY DEF SummaryAsked, Most, Again, BySpecs, Waited, Least, Span, Absent

(* The specs of q are stamped.                                               *)
LEMMA SpecsStamped ==
  ASSUME NEW n \in Nat, NEW a \in 0..Absent, NEW s \in 0..Absent,
         NEW g \in 0..LongestGap, NEW slow \in BOOLEAN,
         NEW w \in {0, Span}, NEW t \in {s, 0},
         SpecsAsked(n, a, s)
  PROVE  Within(n, a, w, s, g, slow) /\ SpecsAsked(n, a, t)
BY SMTT(60)
   DEF SpecsAsked, Within, Allowed, Most, Failed, Again, BySummary, BySpecs, Waited,
       Least, Span, Absent, Behind

-----------------------------------------------------------------------------
(* The pass in progress counts, if it is not cut short.                      *)
Counted(p, q) == batch.on /\ batch.whole /\ p \in batch.left /\ q \in batch.took
OneMore(p, q) == over[p][q] + 1

Waits(n, p, q) == Within(n, specsAge[p], specsAge[q], summaryAge[q], gap, overdue)

InHand(p, q) ==
  /\ q \in batch.summary => SummaryAsked(OneMore(p, q), specsAge[p], specsAge[q], overdue)
  /\ AtSpecs(q) => SpecsAsked(OneMore(p, q), specsAge[p], summaryAge[q])
  /\ q \notin Selected => Waits(OneMore(p, q), p, q)

(* Between the passes and in them, of every pair what is counted is allowed. *)
PairIsHeld(p, q) == IF Counted(p, q) THEN InHand(p, q) ELSE Waits(over[p][q], p, q)

(* Who is selected is not left out, and its own count begins anew.           *)
QueueInv ==
  /\ QueueTypeOK
  /\ overdue => gap <= UsualGap
  /\ \A p \in Selected : p \notin batch.left /\ over[p] = NotOver
  /\ \A p, q \in Players : PairIsHeld(p, q)

(* The types, one by one.                                                    *)
LEMMA QueueRanges ==
  ASSUME QueueTypeOK
  PROVE  /\ summaryAge \in [Players -> 0..Absent] /\ specsAge \in [Players -> 0..Absent]
         /\ batch.on \in BOOLEAN /\ batch.whole \in BOOLEAN
         /\ batch.summary \subseteq Players /\ batch.specs \subseteq Players
         /\ batch.took \subseteq Players /\ batch.left \subseteq Players
         /\ gap \in 0..LongestGap /\ gap \in Nat /\ overdue \in BOOLEAN
         /\ added \in 0..MaxNew /\ added \in Nat /\ over \in [Players -> [Players -> Nat]]
         /\ \A p, q \in Players : over[p][q] \in Nat
<1>1. over \in [Players -> [Players -> Nat]]
  BY DEF QueueTypeOK
<1>2. \A p, q \in Players : over[p][q] \in Nat
  BY <1>1
<1> QED  BY <1>1, <1>2 DEF QueueTypeOK

LEMMA AnewIsAnew ==
  /\ Anew \in [Players -> [Players -> Nat]] /\ NotOver \in [Players -> Nat]
  /\ \A p, q \in Players : Anew[p][q] = 0 /\ Anew[p] = NotOver
<1>1. NotOver \in [Players -> Nat] /\ \A q \in Players : NotOver[q] = 0
  BY DEF NotOver
<1>2. Anew \in [Players -> [Players -> Nat]] /\ \A p \in Players : Anew[p] = NotOver
  BY <1>1 DEF Anew
<1> QED  BY <1>1, <1>2

LEMMA QueueStarts == QueueInit => QueueInv
<1> SUFFICES ASSUME QueueInit PROVE QueueInv
  OBVIOUS
<1>1. QueueTypeOK
  <2>1. summaryAge \in [Players -> 0..Absent] /\ specsAge \in [Players -> 0..Absent]
    BY DEF QueueInit, Absent
  <2>2. gap \in 0..LongestGap /\ added \in 0..MaxNew
    BY DEF QueueInit
  <2>5. overdue \in BOOLEAN
    BY DEF QueueInit
  <2>3. over \in [Players -> [Players -> Nat]]
    BY AnewIsAnew DEF QueueInit
  <2>4. batch \in [on : BOOLEAN, summary : SUBSET Players, specs : SUBSET Players,
                   took : SUBSET Players, left : SUBSET Players, whole : BOOLEAN]
    BY DEF QueueInit, NoBatch
  <2> QED  BY <2>1, <2>2, <2>3, <2>4, <2>5 DEF QueueTypeOK
<1>2. \A p, q \in Players : PairIsHeld(p, q)
  <2> SUFFICES ASSUME NEW p \in Players, NEW q \in Players PROVE PairIsHeld(p, q)
    OBVIOUS
  <2>1. over[p][q] = 0 /\ ~batch.on
    BY AnewIsAnew DEF QueueInit, NoBatch
  <2>2. specsAge[p] \in 0..Absent /\ specsAge[q] \in 0..Absent /\ summaryAge[q] \in 0..Absent
    BY <1>1, QueueRanges
  <2>3. Waits(0, p, q)
    BY <1>1, <2>2, QueueRanges, NoneYet DEF Waits
  <2> QED  BY <2>1, <2>3 DEF PairIsHeld, Counted
<1> QED  BY <1>1, <1>2 DEF QueueInit, QueueInv, NoBatch, Selected

(* Every value keeps its type.                                               *)
LEMMA QueueTypes == QueueTypeOK /\ QueueNext => QueueTypeOK'
<1> SUFFICES ASSUME QueueTypeOK, QueueNext PROVE QueueTypeOK'
  OBVIOUS
<1> DEFINE Batches == [on : BOOLEAN, summary : SUBSET Players, specs : SUBSET Players,
                       took : SUBSET Players, left : SUBSET Players, whole : BOOLEAN]
           AgeOK == summaryAge' \in [Players -> 0..Absent] /\ specsAge' \in [Players -> 0..Absent]
           BatchOK == batch' \in Batches
           GapOK == gap' \in 0..LongestGap /\ overdue' \in BOOLEAN
           OverOK == over' \in [Players -> [Players -> Nat]]
           AddedOK == added' \in 0..MaxNew
<1>0. batch \in Batches
  BY DEF QueueTypeOK
<1>q. ASSUME AgeOK, BatchOK, GapOK, OverOK, AddedOK PROVE QueueTypeOK'
  BY <1>q DEF QueueTypeOK
<1>r. /\ UNCHANGED stamps => AgeOK
      /\ UNCHANGED batch => BatchOK
      /\ UNCHANGED <<gap, overdue>> => GapOK
      /\ UNCHANGED over => OverOK
      /\ UNCHANGED added => AddedOK
  BY <1>0, QueueRanges DEF stamps
<1>s. ASSUME NEW age \in 0..Absent, NEW p \in Players
      PROVE  /\ [summaryAge EXCEPT ![p] = age] \in [Players -> 0..Absent]
             /\ [specsAge EXCEPT ![p] = age] \in [Players -> 0..Absent]
  BY QueueRanges
<1>t. 0 \in 0..Absent /\ Absent \in 0..Absent /\ SummaryTtl - Backoff \in 0..Absent
      /\ SpecsTtl - Backoff \in 0..Absent
  BY DEF Absent
<1> HIDE DEF AgeOK, GapOK, OverOK, AddedOK
<1>1. CASE TickPasses
  <2>1. \A age \in 0..Absent : Aged(age) \in 0..Absent
    BY DEF Aged, Absent
  <2>2. AgeOK
    BY <1>1, <2>1, QueueRanges DEF TickPasses, AgeOK
  <2>3. GapOK
    BY <1>1, QueueRanges DEF TickPasses, GapOK
  <2> QED  BY <1>1, <1>q, <1>r, <2>2, <2>3 DEF TickPasses
<1>2. CASE NothingDue
  <2>1. GapOK /\ OverOK
    BY <1>2, QueueRanges, AnewIsAnew DEF NothingDue, GapOK, OverOK
  <2> QED  BY <1>2, <1>q, <1>r, <2>1 DEF NothingDue
<1>3. CASE LeftAsItWas
  <2>1. OverOK
    BY <1>3, AnewIsAnew DEF LeftAsItWas, OverOK
  <2>2. BatchOK
    BY <1>3, <1>0 DEF LeftAsItWas
  <2> QED  BY <1>3, <1>q, <1>r, <2>1, <2>2 DEF LeftAsItWas
<1>4. CASE BatchEnds
  <2>1. OverOK
    BY <1>4, QueueRanges DEF BatchEnds, OverOK
  <2>2. BatchOK
    BY <1>4 DEF BatchEnds, NoBatch
  <2> QED  BY <1>4, <1>q, <1>r, <2>1, <2>2 DEF BatchEnds
<1>5. ASSUME NEW onlyNew \in BOOLEAN, BatchBegins(onlyNew) PROVE QueueTypeOK'
  <2> DEFINE due == {p \in Players : IF onlyNew THEN New(p) ELSE Stale(p)}
  <2>1. PICK n \in 1..MaxBatch, some \in SUBSET due :
          /\ batch' = [on |-> TRUE, summary |-> {p \in some : SummaryDue(p)},
                       specs |-> {p \in some : SpecsDue(p)}, took |-> some, left |-> due \ some,
                       whole |-> ~onlyNew]
          /\ over' = [p \in Players |-> [q \in Players |->
                IF p \notin some /\ (onlyNew \/ (p \in due /\ q \in some)) THEN over[p][q] ELSE 0]]
    BY <1>5, Zenon DEF BatchBegins, Selections, kSubset
  <2>2. BatchOK
    BY <2>1
  <2>3. OverOK
    BY <2>1, QueueRanges DEF OverOK
  <2>4. GapOK
    <3>1. CASE onlyNew
      BY <1>5, <1>r, <3>1 DEF BatchBegins
    <3>2. CASE ~onlyNew
      <4>1. gap' = 0 /\ overdue' = (gap > UsualGap)
        BY <1>5, <3>2, Zenon DEF BatchBegins
      <4> QED  BY <4>1 DEF GapOK
    <3> QED  BY <3>1, <3>2
  <2> QED  BY <1>5, <1>q, <1>r, <2>2, <2>3, <2>4 DEF BatchBegins
<1>6. ASSUME NEW p \in Players, Added(p) PROVE QueueTypeOK'
  <2>1. AgeOK
    BY <1>6, <1>s, <1>t DEF Added, AgeOK
  <2>2. BatchOK
    BY <1>6, <1>0 DEF Added
  <2>3. OverOK
    BY <1>6, QueueRanges DEF Added, OverOK
  <2>4. AddedOK
    BY <1>6, QueueRanges DEF Added, AddedOK
  <2> QED  BY <1>6, <1>q, <1>r, <2>1, <2>2, <2>3, <2>4 DEF Added
<1>7. ASSUME NEW p \in Players, Pushed(p) PROVE QueueTypeOK'
  <2>1. AgeOK
    <3>1. CASE summaryAge' = [summaryAge EXCEPT ![p] = 0] /\ UNCHANGED specsAge
      BY <3>1, <1>s, <1>t, QueueRanges DEF AgeOK
    <3>2. CASE /\ specsAge' = [specsAge EXCEPT ![p] = 0]
               /\ summaryAge' \in {summaryAge, [summaryAge EXCEPT ![p] = 0]}
      BY <3>2, <1>s, <1>t, QueueRanges DEF AgeOK
    <3> QED  BY <1>7, <3>1, <3>2 DEF Pushed
  <2>2. BatchOK
    BY <1>7, <1>0 DEF Pushed
  <2>3. OverOK
    BY <1>7, QueueRanges, AnewIsAnew DEF Pushed, OverOK
  <2> QED  BY <1>7, <1>q, <1>r, <2>1, <2>2, <2>3 DEF Pushed
<1>8. ASSUME NEW p \in Players,
             SummaryFails(p) \/ SummaryMissing(p) \/ SummaryRead(p) \/ SpecsRead(p) \/ SpecsFail(p)
      PROVE  QueueTypeOK'
  <2>1. AgeOK
    BY <1>8, <1>s, <1>t, QueueRanges
       DEF SummaryFails, SummaryMissing, SummaryRead, SpecsRead, SpecsFail, AgeOK
  <2>2. BatchOK
    BY <1>8, <1>0 DEF SummaryFails, SummaryMissing, SummaryRead, SpecsRead, SpecsFail, Done
  <2> QED  BY <1>8, <1>q, <1>r, <2>1, <2>2
             DEF SummaryFails, SummaryMissing, SummaryRead, SpecsRead, SpecsFail
<1> QED  BY <1>1, <1>2, <1>3, <1>4, <1>5, <1>6, <1>7, <1>8 DEF QueueNext

(* Nothing of q's, of p's place and of the count of p and q has changed.     *)
SamePair(p, q) ==
  /\ UNCHANGED <<specsAge[p], specsAge[q], summaryAge[q], gap, overdue, over[p][q], Counted(p, q)>>
  /\ UNCHANGED <<q \in batch.summary, q \in batch.specs>>

LEMMA PairStays ==
  ASSUME NEW p \in Players, NEW q \in Players, PairIsHeld(p, q), SamePair(p, q)
  PROVE  PairIsHeld(p, q)'
<1>1. (q \in Selected)' <=> q \in Selected
  BY DEF SamePair, Selected
<1>2. AtSpecs(q)' <=> AtSpecs(q)
  BY DEF SamePair, AtSpecs
<1>3. Waits(over[p][q], p, q)' <=> Waits(over[p][q], p, q)
  BY Zenon DEF Waits, SamePair
<1>4. Waits(OneMore(p, q), p, q)' <=> Waits(OneMore(p, q), p, q)
  BY Zenon DEF Waits, OneMore, SamePair
<1>5. InHand(p, q)' <=> InHand(p, q)
  BY <1>1, <1>2, <1>4, Zenon DEF InHand, OneMore, SamePair
<1> QED  BY <1>3, <1>5, Zenon DEF PairIsHeld, SamePair

LEMMA PairRanges ==
  ASSUME QueueTypeOK, NEW p \in Players, NEW q \in Players
  PROVE  /\ specsAge[p] \in 0..Absent /\ specsAge[q] \in 0..Absent /\ summaryAge[q] \in 0..Absent
         /\ gap \in 0..LongestGap /\ overdue \in BOOLEAN
         /\ over[p][q] \in Nat /\ OneMore(p, q) \in Nat
BY QueueRanges DEF OneMore

LEMMA WaitsOn ==
  ASSUME QueueTypeOK, NEW p \in Players, NEW q \in Players, NEW n \in Nat, Waits(n, p, q),
         NEW w, NEW t, Restamped(specsAge[q], w, Span), Restamped(summaryAge[q], t, SummaryTtl - Backoff)
  PROVE  Within(n, specsAge[p], w, t, gap, overdue)
<1>1. /\ specsAge[p] \in 0..Absent /\ specsAge[q] \in 0..Absent /\ summaryAge[q] \in 0..Absent
      /\ gap \in 0..LongestGap /\ overdue \in BOOLEAN
  BY PairRanges
<1>2. Within(n, specsAge[p], specsAge[q], summaryAge[q], gap, overdue)
  BY DEF Waits
<1> QED  BY <1>1, <1>2, StampKeeps, Zenon

(* Where nothing is counted of p and q, nothing is exceeded.                 *)
LEMMA NoneCountedNext ==
  ASSUME QueueTypeOK', NEW p \in Players, NEW q \in Players, over'[p][q] = 0, ~Counted(p, q)'
  PROVE  PairIsHeld(p, q)'
<1>1. specsAge'[p] \in 0..Absent /\ specsAge'[q] \in 0..Absent /\ summaryAge'[q] \in 0..Absent
      /\ gap' \in 0..LongestGap /\ overdue' \in BOOLEAN
  BY DEF QueueTypeOK
<1>2. Waits(0, p, q)'
  BY <1>1, NoneYet DEF Waits
<1> QED  BY <1>2, Zenon DEF PairIsHeld

(* What any outcome of one character leaves alone.                           *)
Stamping(r) ==
  /\ UNCHANGED <<gap, overdue, over, batch.on, batch.whole, batch.took, batch.left>>
  /\ \A q \in Players \ {r} :
       UNCHANGED <<specsAge[q], summaryAge[q], q \in batch.summary, q \in batch.specs>>
  /\ batch'.summary \subseteq batch.summary /\ batch'.specs \subseteq batch.specs

LEMMA StampedStep ==
  ASSUME QueueInv, QueueTypeOK', NEW r \in Selected, Stamping(r),
         \A p \in Players \ {r} : PairIsHeld(p, r)'
  PROVE  QueueInv'
<1>1. overdue' => gap' <= UsualGap
  BY DEF QueueInv, Stamping
<1>2. \A p \in Selected' : p \notin batch'.left /\ over'[p] = NotOver
  BY DEF QueueInv, Stamping, Selected
<1>3. ASSUME NEW p \in Players, NEW q \in Players PROVE PairIsHeld(p, q)'
  <2>1. CASE p = r
    <3>1. r \notin batch.left /\ over[r] = NotOver
      BY DEF QueueInv
    <3>2. over'[p][q] = 0
      BY <2>1, <3>1, AnewIsAnew DEF Stamping, NotOver
    <3>3. ~Counted(p, q)'
      BY <2>1, <3>1 DEF Counted, Stamping
    <3> QED  BY <3>2, <3>3, NoneCountedNext
  <2>2. CASE p # r /\ q = r
    BY <2>2
  <2>3. CASE p # r /\ q # r
    <3>1. SamePair(p, q)
      BY <2>3 DEF SamePair, Stamping, Counted
    <3> QED  BY <3>1, PairStays DEF QueueInv
  <2> QED  BY <2>1, <2>2, <2>3
<1> QED  BY <1>1, <1>2, <1>3 DEF QueueInv

(* A character whose turn it was is asked for less than before.              *)
LEMMA Emptied ==
  ASSUME QueueInv, NEW r \in Players, Done(r) \/ batch' = [batch EXCEPT !.summary = @ \ {r}],
         UNCHANGED <<gap, overdue, over>>,
         \A q \in Players \ {r} : UNCHANGED <<specsAge[q], summaryAge[q]>>
  PROVE  Stamping(r) /\ r \notin batch'.summary /\ (Done(r) => (r \notin Selected)')
<1>1. batch \in [on : BOOLEAN, summary : SUBSET Players, specs : SUBSET Players,
                took : SUBSET Players, left : SUBSET Players, whole : BOOLEAN]
  BY DEF QueueInv, QueueTypeOK
<1>2. /\ UNCHANGED <<batch.on, batch.whole, batch.took, batch.left>>
      /\ batch'.summary = batch.summary \ {r}
      /\ batch'.specs = batch.specs \ {r} \/ batch'.specs = batch.specs
      /\ Done(r) => batch'.specs = batch.specs \ {r}
  BY <1>1 DEF Done
<1> QED  BY <1>2 DEF Stamping, Selected

(* The summary was asked for: read, failed, or of a character that is gone.  *)
LEMMA SummaryStep ==
  ASSUME QueueInv, QueueTypeOK', NEW r \in Players,
         SummaryFails(r) \/ SummaryMissing(r) \/ SummaryRead(r)
  PROVE  QueueInv'
<1> DEFINE w == specsAge'[r]
           t == summaryAge'[r]
<1>1. r \in batch.summary /\ r \in Selected
  BY DEF SummaryFails, SummaryMissing, SummaryRead, Selected
<1>2. Stamping(r) /\ r \notin batch'.summary
  <2>1. \/ Done(r) \/ batch' = [batch EXCEPT !.summary = @ \ {r}]
    BY DEF SummaryFails, SummaryMissing, SummaryRead
  <2>2. /\ UNCHANGED <<gap, overdue, over>>
        /\ \A q \in Players \ {r} : UNCHANGED <<specsAge[q], summaryAge[q]>>
    BY QueueRanges DEF QueueInv, SummaryFails, SummaryMissing, SummaryRead
  <2> QED  BY <2>1, <2>2, Emptied
<1>3. w \in {specsAge[r], 0} /\ t \in {0, SummaryTtl - Backoff}
  BY QueueRanges DEF QueueInv, SummaryFails, SummaryMissing, SummaryRead
<1>4. ASSUME NEW p \in Players \ {r} PROVE PairIsHeld(p, r)'
  <2> DEFINE n == OneMore(p, r)
  <2>1. PairIsHeld(p, r) /\ QueueTypeOK
    BY DEF QueueInv
  <2>r. /\ specsAge[p] \in 0..Absent /\ specsAge[r] \in 0..Absent /\ summaryAge[r] \in 0..Absent
        /\ gap \in 0..LongestGap /\ overdue \in BOOLEAN
        /\ over[p][r] \in Nat /\ OneMore(p, r) \in Nat
    BY <2>1, PairRanges
  <2>2. UNCHANGED <<specsAge[p], gap, overdue, over[p][r], OneMore(p, r), Counted(p, r)>>
    BY <1>2, <1>4 DEF Stamping, Counted, OneMore
  <2>3. CASE Counted(p, r)
    <3>1. SummaryAsked(n, specsAge[p], specsAge[r], overdue)
      BY <1>1, <2>1, <2>3, Zenon DEF PairIsHeld, InHand
    <3>2. Within(n, specsAge[p], w, t, gap, overdue) /\ SpecsAsked(n, specsAge[p], t)
      BY <1>3, <2>1, <3>1, PairRanges, SummaryStamped
    <3>3. Waits(OneMore(p, r), p, r)' /\ SpecsAsked(OneMore(p, r), specsAge[p], summaryAge[r])'
      BY <2>2, <3>2, Zenon DEF Waits
    <3>4. InHand(p, r)'
      BY <1>2, <3>3, Zenon DEF InHand
    <3> QED  BY <2>2, <2>3, <3>4, Zenon DEF PairIsHeld
  <2>4. CASE ~Counted(p, r)
    <3>1. Waits(over[p][r], p, r)
      BY <2>1, <2>4, Zenon DEF PairIsHeld
    <3>2. Restamped(specsAge[r], w, Span) /\ Restamped(summaryAge[r], t, SummaryTtl - Backoff)
      BY <1>3 DEF Restamped
    <3>3. Within(over[p][r], specsAge[p], w, t, gap, overdue)
      BY <2>1, <2>r, <3>1, <3>2, WaitsOn, Zenon
    <3>4. Waits(over[p][r], p, r)'
      BY <2>2, <3>3, Zenon DEF Waits
    <3> QED  BY <2>2, <2>4, <3>4, Zenon DEF PairIsHeld
  <2> QED  BY <2>3, <2>4
<1> QED  BY <1>1, <1>2, <1>4, StampedStep

(* The specs were asked for.                                                 *)
LEMMA SpecsStep ==
  ASSUME QueueInv, QueueTypeOK', NEW r \in Players, SpecsRead(r) \/ SpecsFail(r)
  PROVE  QueueInv'
<1> DEFINE w == specsAge'[r]
<1>1. AtSpecs(r) /\ r \in Selected
  BY DEF SpecsRead, SpecsFail, AtSpecs, Selected
<1>2. Stamping(r) /\ (r \notin Selected)' /\ summaryAge' = summaryAge
  <2>1. Done(r) /\ UNCHANGED <<gap, overdue, over, summaryAge>>
    BY DEF SpecsRead, SpecsFail
  <2>2. \A q \in Players \ {r} : UNCHANGED <<specsAge[q], summaryAge[q]>>
    BY <2>1, QueueRanges DEF QueueInv, SpecsRead, SpecsFail
  <2> QED  BY <2>1, <2>2, Emptied
<1>3. w \in {0, Span}
  BY QueueRanges DEF QueueInv, SpecsRead, SpecsFail, Span
<1>4. ASSUME NEW p \in Players \ {r} PROVE PairIsHeld(p, r)'
  <2> DEFINE n == OneMore(p, r)
  <2>1. PairIsHeld(p, r) /\ QueueTypeOK
    BY DEF QueueInv
  <2>r. /\ specsAge[p] \in 0..Absent /\ specsAge[r] \in 0..Absent /\ summaryAge[r] \in 0..Absent
        /\ gap \in 0..LongestGap /\ overdue \in BOOLEAN
        /\ over[p][r] \in Nat /\ OneMore(p, r) \in Nat
    BY <2>1, PairRanges
  <2>2. UNCHANGED <<specsAge[p], gap, overdue, over[p][r], OneMore(p, r), Counted(p, r)>>
    BY <1>2, <1>4 DEF Stamping, Counted, OneMore
  <2>3. CASE Counted(p, r)
    <3>1. SpecsAsked(n, specsAge[p], summaryAge[r])
      BY <1>1, <2>1, <2>3, Zenon DEF PairIsHeld, InHand
    <3>2. Within(n, specsAge[p], w, summaryAge[r], gap, overdue)
      BY <1>3, <2>1, <3>1, PairRanges, SpecsStamped
    <3>3. Waits(OneMore(p, r), p, r)'
      BY <1>2, <2>2, <3>2, Zenon DEF Waits
    <3>4. InHand(p, r)'
      BY <1>2, <3>3 DEF InHand, Selected, AtSpecs
    <3> QED  BY <2>2, <2>3, <3>4, Zenon DEF PairIsHeld
  <2>4. CASE ~Counted(p, r)
    <3>1. Waits(over[p][r], p, r)
      BY <2>1, <2>4, Zenon DEF PairIsHeld
    <3>2. Restamped(specsAge[r], w, Span) /\ Restamped(summaryAge[r], summaryAge[r], SummaryTtl - Backoff)
      BY <1>3 DEF Restamped
    <3>3. Within(over[p][r], specsAge[p], w, summaryAge[r], gap, overdue)
      BY <2>1, <2>r, <3>1, <3>2, WaitsOn, Zenon
    <3>4. Waits(over[p][r], p, r)'
      BY <1>2, <2>2, <3>3, Zenon DEF Waits
    <3> QED  BY <2>2, <2>4, <3>4, Zenon DEF PairIsHeld
  <2> QED  BY <2>3, <2>4
<1> QED  BY <1>1, <1>2, <1>4, StampedStep

(* A push makes anew the wait of whoever is pushed, and puts it no further   *)
(* in front.                                                                 *)
LEMMA PushStep ==
  ASSUME QueueInv, QueueTypeOK', NEW r \in Players, Pushed(r)
  PROVE  QueueInv'
<1> DEFINE w == specsAge'[r]
           t == summaryAge'[r]
<1>1. /\ UNCHANGED <<gap, overdue, batch.on, batch.whole, batch.took, batch.summary, batch.specs>>
      /\ batch'.left = batch.left \ {r}
  BY DEF Pushed, QueueInv, QueueTypeOK
<1>2. /\ \A p \in Players \ {r} : UNCHANGED <<specsAge[p], summaryAge[p], over[p]>>
      /\ over'[r] = NotOver
      /\ w \in {specsAge[r], 0} /\ t \in {summaryAge[r], 0}
  BY QueueRanges DEF Pushed, QueueInv
<1>3. Selected' = Selected /\ (AtSpecs(r)' <=> AtSpecs(r))
  BY <1>1 DEF Selected, AtSpecs
<1>4. \A p \in Selected' : p \notin batch'.left /\ over'[p] = NotOver
  BY <1>1, <1>2, <1>3, QueueRanges DEF QueueInv, Selected
<1>5. ASSUME NEW p \in Players, NEW q \in Players PROVE PairIsHeld(p, q)'
  <2>0. PairIsHeld(p, q) /\ QueueTypeOK
    BY DEF QueueInv
  <2>r. /\ specsAge[p] \in 0..Absent /\ specsAge[r] \in 0..Absent /\ summaryAge[r] \in 0..Absent
        /\ gap \in 0..LongestGap /\ overdue \in BOOLEAN
        /\ over[p][r] \in Nat /\ OneMore(p, r) \in Nat
    BY <2>0, PairRanges
  <2>1. CASE p = r
    <3>1. over'[p][q] = 0 /\ ~Counted(p, q)'
      BY <1>1, <1>2, <2>1, AnewIsAnew DEF Counted, NotOver
    <3> QED  BY <3>1, NoneCountedNext
  <2>2. CASE p # r
    <3>1. UNCHANGED <<specsAge[p], gap, overdue, over[p][q], OneMore(p, q), Counted(p, q)>>
      BY <1>1, <1>2, <2>2 DEF Counted, OneMore
    <3>2. CASE q # r
      BY <1>1, <1>2, <2>0, <3>1, <3>2, PairStays DEF SamePair
    <3>3. CASE q = r /\ Counted(p, q)
      <4> DEFINE n == OneMore(p, r)
      <4>1. ASSUME r \in batch.summary PROVE SummaryAsked(n, specsAge[p], w, overdue)
        <5>1. SummaryAsked(n, specsAge[p], specsAge[r], overdue)
          BY <2>0, <3>3, <4>1, Zenon DEF PairIsHeld, InHand
        <5>2. 0 \in {0, SummaryTtl - Backoff}
          OBVIOUS
        <5> QED  BY <1>2, <2>0, <5>1, <5>2, PairRanges, SummaryStamped
      <4>2. ASSUME AtSpecs(r) PROVE SpecsAsked(n, specsAge[p], t)
        <5>1. SpecsAsked(n, specsAge[p], summaryAge[r])
          BY <2>0, <3>3, <4>2, Zenon DEF PairIsHeld, InHand
        <5> QED  BY <1>2, <2>0, <5>1, PairRanges, SpecsStamped
      <4>3. ASSUME r \notin Selected PROVE Within(n, specsAge[p], w, t, gap, overdue)
        <5>1. Waits(n, p, r)
          BY <2>0, <3>3, <4>3, Zenon DEF PairIsHeld, InHand
        <5>2. Restamped(specsAge[r], w, Span) /\ Restamped(summaryAge[r], t, SummaryTtl - Backoff)
          BY <1>2 DEF Restamped
        <5> QED  BY <2>0, <2>r, <5>1, <5>2, WaitsOn, Zenon
      <4>4. InHand(p, r)'
        BY <1>1, <1>3, <3>1, <3>3, <4>1, <4>2, <4>3, Zenon DEF InHand, Waits
      <4> QED  BY <3>1, <3>3, <4>4, Zenon DEF PairIsHeld
    <3>4. CASE q = r /\ ~Counted(p, q)
      <4>1. Waits(over[p][r], p, r)
        BY <2>0, <3>4, Zenon DEF PairIsHeld
      <4>2. Restamped(specsAge[r], w, Span) /\ Restamped(summaryAge[r], t, SummaryTtl - Backoff)
        BY <1>2 DEF Restamped
      <4>3. Within(over[p][r], specsAge[p], w, t, gap, overdue)
        BY <2>0, <2>r, <4>1, <4>2, WaitsOn, Zenon
      <4>4. Waits(over[p][r], p, r)'
        BY <3>1, <3>4, <4>3, Zenon DEF Waits
      <4> QED  BY <3>1, <3>4, <4>4, Zenon DEF PairIsHeld
    <3> QED  BY <3>2, <3>3, <3>4
  <2> QED  BY <2>1, <2>2
<1>6. overdue' => gap' <= UsualGap
  BY <1>1 DEF QueueInv
<1> QED  BY <1>4, <1>5, <1>6 DEF QueueInv

(* Where everyone waits anew nothing is counted that was.                    *)
LEMMA AnewStep ==
  ASSUME QueueTypeOK', over' = Anew, ~batch'.on \/ ~batch'.whole, overdue' => gap' <= UsualGap,
         Selected' \cap batch'.left = {}, Selected' \subseteq Players
  PROVE  QueueInv'
<1>1. \A p \in Selected' : p \notin batch'.left /\ over'[p] = NotOver
  BY AnewIsAnew
<1>2. \A p, q \in Players : PairIsHeld(p, q)'
  BY AnewIsAnew, NoneCountedNext DEF Counted
<1> QED  BY <1>1, <1>2 DEF QueueInv

(* Nothing is in progress while time passes.                                 *)
LEMMA TickStep ==
  ASSUME QueueInv, QueueTypeOK', TickPasses
  PROVE  QueueInv'
<1>1. /\ UNCHANGED <<batch, overdue, over>> /\ ~batch.on
      /\ gap < LongestGap /\ gap' = gap + 1 /\ (overdue => gap < UsualGap)
  BY QueueRanges DEF TickPasses, QueueInv
<1>2. overdue' => gap' <= UsualGap
  BY <1>1, QueueRanges DEF QueueInv
<1>3. Selected' = Selected
  BY <1>1 DEF Selected
<1>4. ASSUME NEW p \in Players, NEW q \in Players PROVE PairIsHeld(p, q)'
  <2> DEFINE n == over[p][q]
  <2>1. ~Counted(p, q) /\ ~Counted(p, q)'
    BY <1>1 DEF Counted
  <2>2. Within(n, specsAge[p], specsAge[q], summaryAge[q], gap, overdue)
    BY <2>1 DEF QueueInv, PairIsHeld, Waits
  <2>3. Within(n, Aged(specsAge[p]), Aged(specsAge[q]), Aged(summaryAge[q]), gap + 1, overdue)
    <3>1. /\ specsAge[p] \in 0..Absent /\ specsAge[q] \in 0..Absent /\ summaryAge[q] \in 0..Absent
          /\ gap \in 0..LongestGap /\ overdue \in BOOLEAN /\ n \in Nat
      BY PairRanges DEF QueueInv
    <3> QED  BY <1>1, <2>2, <3>1, TickKeeps, Zenon
  <2>4. /\ specsAge'[p] = Aged(specsAge[p]) /\ specsAge'[q] = Aged(specsAge[q])
        /\ summaryAge'[q] = Aged(summaryAge[q])
    BY DEF TickPasses
  <2>5. Waits(over[p][q], p, q)'
    BY <1>1, <2>3, <2>4, Zenon DEF Waits
  <2> QED  BY <2>1, <2>5, Zenon DEF PairIsHeld
<1> QED  BY <1>1, <1>2, <1>3, <1>4 DEF QueueInv

(* The end of a pass counts what was in hand.                                *)
LEMMA EndStep ==
  ASSUME QueueInv, QueueTypeOK', BatchEnds
  PROVE  QueueInv'
<1>1. /\ UNCHANGED <<specsAge, summaryAge, gap, overdue>> /\ batch' = NoBatch
      /\ batch.on /\ Selected = {}
      /\ \A p, q \in Players : over'[p][q] = IF Counted(p, q) THEN OneMore(p, q) ELSE over[p][q]
  BY DEF BatchEnds, stamps, Counted, OneMore
<1>2. ASSUME NEW p \in Players, NEW q \in Players PROVE PairIsHeld(p, q)'
  <2>1. ~Counted(p, q)'
    BY <1>1 DEF Counted, NoBatch
  <2>2. PairIsHeld(p, q)
    BY DEF QueueInv
  <2>3. Waits(over'[p][q], p, q)
    BY <1>1, <2>2 DEF PairIsHeld, InHand
  <2>4. Waits(over[p][q], p, q)'
    BY <1>1, <2>3, Zenon DEF Waits
  <2> QED  BY <2>1, <2>4, Zenon DEF PairIsHeld
<1>3. Selected' = {}
  BY <1>1 DEF Selected, NoBatch
<1> QED  BY <1>1, <1>2, <1>3 DEF QueueInv

(* Whoever is new or again in the ladders waits for nobody, nobody for it.   *)
LEMMA AddStep ==
  ASSUME QueueInv, QueueTypeOK', NEW r \in Players, Added(r)
  PROVE  QueueInv'
<1>1. /\ UNCHANGED <<gap, overdue, batch.on, batch.whole, batch.summary, batch.specs>>
      /\ batch'.left = batch.left \ {r} /\ batch'.took = batch.took \ {r} /\ r \notin Selected
  BY DEF Added, QueueInv, QueueTypeOK
<1>2. /\ \A p \in Players \ {r} : UNCHANGED <<specsAge[p], summaryAge[p]>>
      /\ \A p, q \in Players : over'[p][q] = IF r \in {p, q} THEN 0 ELSE over[p][q]
      /\ over' = [p \in Players |-> [q \in Players |-> IF r \in {p, q} THEN 0 ELSE over[p][q]]]
  BY QueueRanges DEF Added, QueueInv
<1>3. Selected' = Selected /\ Selected \subseteq Players
  BY <1>1, QueueRanges DEF Selected, QueueInv
<1>4. \A p \in Selected' : p \notin batch'.left /\ over'[p] = NotOver
  <2> SUFFICES ASSUME NEW p \in Selected PROVE p \notin batch'.left /\ over'[p] = NotOver
    BY <1>3
  <2>1. p \notin batch.left /\ over[p] = NotOver
    BY DEF QueueInv
  <2>2. \A q \in Players : over[p][q] = 0
    BY <2>1 DEF NotOver
  <2>3. over'[p] = [q \in Players |-> IF r \in {p, q} THEN 0 ELSE over[p][q]]
    BY <1>2, <1>3
  <2> QED  BY <1>1, <2>1, <2>2, <2>3 DEF NotOver
<1>5. ASSUME NEW p \in Players, NEW q \in Players PROVE PairIsHeld(p, q)'
  <2>1. CASE r \in {p, q}
    <3>1. over'[p][q] = 0 /\ ~Counted(p, q)'
      BY <1>1, <1>2, <2>1 DEF Counted
    <3> QED  BY <3>1, NoneCountedNext
  <2>2. CASE r \notin {p, q}
    <3>1. SamePair(p, q)
      BY <1>1, <1>2, <2>2 DEF SamePair, Counted
    <3> QED  BY <3>1, PairStays DEF QueueInv
  <2> QED  BY <2>1, <2>2
<1> QED  BY <1>1, <1>4, <1>5 DEF QueueInv

(* A pass begins: where q is taken and p, though due, is not, q is no younger.*)
LEMMA BeginStep ==
  ASSUME QueueInv, QueueTypeOK', NEW onlyNew \in BOOLEAN, BatchBegins(onlyNew)
  PROVE  QueueInv'
<1> DEFINE due == {p \in Players : IF onlyNew THEN New(p) ELSE Stale(p)}
<1>1. PICK some \in SUBSET due :
        /\ \A p \in some, q \in due \ some : specsAge[p] >= specsAge[q]
        /\ batch' = [on |-> TRUE, summary |-> {p \in some : SummaryDue(p)},
                     specs |-> {p \in some : SpecsDue(p)}, took |-> some, left |-> due \ some,
                     whole |-> ~onlyNew]
        /\ over' = [p \in Players |-> [q \in Players |->
              IF p \notin some /\ (onlyNew \/ (p \in due /\ q \in some)) THEN over[p][q] ELSE 0]]
  BY Zenon DEF BatchBegins, Selections, kSubset
<1>2. /\ UNCHANGED <<specsAge, summaryAge>> /\ ~batch.on
      /\ IF onlyNew THEN UNCHANGED <<gap, overdue>> ELSE gap' = 0 /\ overdue' = (gap > UsualGap)
  BY Zenon DEF BatchBegins, stamps
<1>3. \A p, q \in Players : over'[p][q] =
        IF p \notin some /\ (onlyNew \/ (p \in due /\ q \in some)) THEN over[p][q] ELSE 0
  BY <1>1
<1>4. Selected' \subseteq some
  BY <1>1 DEF Selected
<1>5. \A p \in Selected' : p \notin batch'.left /\ over'[p] = NotOver
  <2> SUFFICES ASSUME NEW p \in some PROVE p \notin batch'.left /\ over'[p] = NotOver
    BY <1>4
  <2>1. over'[p] = [q \in Players |->
                     IF p \notin some /\ (onlyNew \/ (p \in due /\ q \in some)) THEN over[p][q] ELSE 0]
    BY <1>1, Zenon
  <2> QED  BY <1>1, <2>1 DEF NotOver
<1>6. overdue' => gap' <= UsualGap
  <2>1. CASE onlyNew
    <3>1. UNCHANGED <<gap, overdue>>
      BY <1>2, <2>1, Zenon
    <3> QED  BY <3>1 DEF QueueInv
  <2>2. CASE ~onlyNew
    <3>1. gap' = 0
      BY <1>2, <2>2, Zenon
    <3> QED  BY <3>1
  <2> QED  BY <2>1, <2>2
<1>7. ASSUME NEW p \in Players, NEW q \in Players PROVE PairIsHeld(p, q)'
  <2> DEFINE n == over[p][q]
  <2>0. ~Counted(p, q) /\ QueueTypeOK
    BY <1>2 DEF Counted, QueueInv
  <2>1. Within(n, specsAge[p], specsAge[q], summaryAge[q], gap, overdue)
    BY <2>0 DEF QueueInv, PairIsHeld, Waits
  <2>r. /\ specsAge[p] \in 0..Absent /\ specsAge[q] \in 0..Absent /\ summaryAge[q] \in 0..Absent
        /\ gap \in 0..LongestGap /\ overdue \in BOOLEAN /\ n \in Nat
    BY <2>0, PairRanges
  <2>2. CASE onlyNew
    <3>1. ~Counted(p, q)'
      BY <1>1, <2>2 DEF Counted
    <3>2. CASE p \in some
      BY <1>3, <3>1, <3>2, NoneCountedNext
    <3>3. CASE p \notin some
      <4>1. over'[p][q] = n
        BY <1>3, <2>2, <3>3
      <4>2. Waits(over[p][q], p, q)'
        BY <1>2, <2>1, <2>2, <4>1, Zenon DEF Waits
      <4> QED  BY <3>1, <4>2, Zenon DEF PairIsHeld
    <3> QED  BY <3>2, <3>3
  <2>3. CASE ~onlyNew /\ ~(p \in due \ some /\ q \in some)
    <3>1. ~Counted(p, q)' /\ over'[p][q] = 0
      BY <1>1, <1>3, <2>3 DEF Counted
    <3> QED  BY <3>1, NoneCountedNext
  <2>4. CASE ~onlyNew /\ p \in due \ some /\ q \in some
    <3>1. Counted(p, q)' /\ over'[p][q] = n /\ OneMore(p, q)' = n + 1
      BY <1>1, <1>3, <2>4 DEF Counted, OneMore
    <3>2. specsAge[q] >= specsAge[p] /\ Stale(q)
      BY <1>1, <2>4
    <3>3. gap' = 0 /\ overdue' = (gap > UsualGap)
      BY <1>2, <2>4, Zenon
    <3>4. ASSUME SummaryDue(q) PROVE SummaryAsked(n + 1, specsAge[p], specsAge[q], gap > UsualGap)
      <4>1. summaryAge[q] >= SummaryTtl /\ (overdue => gap <= UsualGap)
        BY <3>4 DEF SummaryDue, QueueInv
      <4> QED  BY <2>1, <2>r, <3>2, <4>1, SummaryBegins, Zenon
    <3>5. ASSUME SpecsDue(q) PROVE SpecsAsked(n + 1, specsAge[p], summaryAge[q])
      <4>1. specsAge[q] >= SpecsTtl
        BY <3>5 DEF SpecsDue
      <4> QED  BY <2>1, <2>r, <3>2, <4>1, SpecsBegin, Zenon
    <3>6. SummaryDue(q) \/ SpecsDue(q)
      BY <2>r, <3>2 DEF Stale, SummaryDue, SpecsDue
    <3>7. /\ (q \in batch.summary)' <=> SummaryDue(q)
          /\ (q \in batch.specs)' <=> SpecsDue(q)
      BY <1>1, <2>4
    <3>8. (q \in batch.summary)' =>
            SummaryAsked(OneMore(p, q), specsAge[p], specsAge[q], overdue)'
      BY <1>2, <3>1, <3>3, <3>4, <3>7, Zenon
    <3>9. AtSpecs(q)' => SpecsAsked(OneMore(p, q), specsAge[p], summaryAge[q])'
      BY <1>2, <3>1, <3>5, <3>7 DEF AtSpecs
    <3>10. (q \in Selected)'
      BY <3>6, <3>7 DEF Selected
    <3> QED  BY <3>1, <3>8, <3>9, <3>10, Zenon DEF PairIsHeld, InHand
  <2> QED  BY <2>2, <2>3, <2>4
<1> QED  BY <1>5, <1>6, <1>7 DEF QueueInv

LEMMA QueueStep == QueueInv /\ QueueNext => QueueInv'
<1> SUFFICES ASSUME QueueInv, QueueNext PROVE QueueInv'
  OBVIOUS
<1>0. QueueTypeOK /\ QueueTypeOK'
  BY QueueTypes DEF QueueInv
<1>1. CASE TickPasses
  BY <1>0, <1>1, TickStep
<1>2. CASE NothingDue
  <2>1. /\ UNCHANGED batch /\ ~batch.on /\ over' = Anew /\ gap' = 0
    BY <1>2 DEF NothingDue
  <2>2. Selected' \cap batch'.left = {} /\ Selected' \subseteq Players
    BY <1>0, <2>1, QueueRanges DEF QueueInv, Selected
  <2> QED  BY <1>0, <2>1, <2>2, AnewStep
<1>3. CASE LeftAsItWas
  <2>1. /\ over' = Anew /\ UNCHANGED <<gap, overdue, batch.left>> /\ ~batch'.whole
        /\ batch'.summary \subseteq batch.summary /\ batch'.specs \subseteq batch.specs
    BY <1>0, <1>3 DEF LeftAsItWas, QueueTypeOK
  <2>2. Selected' \cap batch'.left = {} /\ Selected' \subseteq Players
    BY <1>0, <2>1, QueueRanges DEF QueueInv, Selected
  <2>3. overdue' => gap' <= UsualGap
    BY <2>1 DEF QueueInv
  <2> QED  BY <1>0, <2>1, <2>2, <2>3, AnewStep
<1>4. CASE BatchEnds
  BY <1>0, <1>4, EndStep
<1>5. ASSUME NEW onlyNew \in BOOLEAN, BatchBegins(onlyNew) PROVE QueueInv'
  BY <1>0, <1>5, BeginStep
<1>6. ASSUME NEW r \in Players, Added(r) PROVE QueueInv'
  BY <1>0, <1>6, AddStep
<1>7. ASSUME NEW r \in Players, Pushed(r) PROVE QueueInv'
  BY <1>0, <1>7, PushStep
<1>8. ASSUME NEW r \in Players, SummaryFails(r) \/ SummaryMissing(r) \/ SummaryRead(r) PROVE QueueInv'
  BY <1>0, <1>8, SummaryStep
<1>9. ASSUME NEW r \in Players, SpecsRead(r) \/ SpecsFail(r) PROVE QueueInv'
  BY <1>0, <1>9, SpecsStep
<1> QED  BY <1>1, <1>2, <1>3, <1>4, <1>5, <1>6, <1>7, <1>8, <1>9 DEF QueueNext

LEMMA QueueUnchanged == QueueInv /\ UNCHANGED queueVars => QueueInv'
BY DEF QueueInv, QueueTypeOK, queueVars, stamps, Selected, PairIsHeld, InHand, Waits, OneMore, Counted,
       AtSpecs

(* However its enrichment goes, no character is taken in more passes in a    *)
(* row that leave out another one that is due than come to two a backoff in  *)
(* the TTL of the specs, and three: for any number of characters, batches of *)
(* any size, and all times to live (enrichmentFilter, findProfilesToEnrich,  *)
(* recordFailure).                                                           *)
THEOREM NobodyHolds == QueueSpec => []NobodyHoldsTheQueue
<1>1. QueueInv => NobodyHoldsTheQueue
  <2> SUFFICES ASSUME QueueInv, NEW p \in Players, NEW q \in Players
               PROVE  Backoff * over[p][q] <= Most
    BY DEF QueueInv, NobodyHoldsTheQueue, Most, Span
  <2>1. QueueTypeOK /\ PairIsHeld(p, q)
    BY DEF QueueInv
  <2>2. /\ specsAge[p] \in 0..Absent /\ specsAge[q] \in 0..Absent /\ summaryAge[q] \in 0..Absent
        /\ gap \in 0..LongestGap /\ overdue \in BOOLEAN
        /\ over[p][q] \in Nat /\ OneMore(p, q) \in Nat
    BY <2>1, PairRanges
  <2>3. CASE Counted(p, q)
    <3>1. InHand(p, q)
      BY <2>1, <2>3, Zenon DEF PairIsHeld
    <3>2. Backoff * OneMore(p, q) <= Most
      <4>1. CASE q \in batch.summary
        BY <2>2, <3>1, <4>1, AskedMost, Zenon DEF InHand
      <4>2. CASE AtSpecs(q)
        BY <3>1, <4>2, Zenon DEF InHand, SpecsAsked
      <4>3. CASE q \notin Selected
        BY <2>2, <3>1, <4>3, WithinMost, Zenon DEF InHand, Waits
      <4> QED  BY <4>1, <4>2, <4>3 DEF Selected, AtSpecs
    <3> QED  BY <2>2, <3>2 DEF OneMore, Most, Span
  <2>4. CASE ~Counted(p, q)
    BY <2>1, <2>2, <2>4, WithinMost, Zenon DEF PairIsHeld, Waits
  <2> QED  BY <2>3, <2>4
<1> QED  BY <1>1, QueueStarts, QueueStep, QueueUnchanged, PTL DEF QueueSpec
===============================================================================
