------------------------- MODULE SeasonArchiveProofs -------------------------
(* The PvP archive believes its own records rightly, for every set of        *)
(* regions, seasons and ladders.                                             *)
EXTENDS SeasonArchive, TLAPS

(* A ladder is covered that was fetched or has rows.                         *)
Covered(p, b) == b \in fetched[p] \/ rows[p][b] # "none"

(* While the ladders of a season are in hand: what is written is all stored, *)
(* a ladder still to be recorded was not recorded before, one that is done   *)
(* is, and one that was not taken up had no need to be.                      *)
JobsAreTrue ==
  tick.at = "ladders" =>
    \A b \in Brackets :
      /\ job[b] = "written" => rows[tick.pair][b] = Full(b)
      /\ job[b] \in {"waiting", "answered", "written"} => b \notin fetched[tick.pair]
      /\ job[b] = "done" => b \in fetched[tick.pair]
      /\ job[b] = "none" /\ b \in Published[tick.pair] => Covered(tick.pair, b)

RowsAreTrue ==
  \A p \in Pairs : \A b \in Brackets :
    /\ b \in fetched[p] => rows[p][b] = Full(b)
    /\ b \in Empty => rows[p][b] = "none"

(* While no season is listed before it starts, the season in hand has ended. *)
HandEnded ==
  ~ListsAhead =>
    /\ \A r \in RegionSet : upstream[r].listed = upstream[r].season
    /\ \A p \in Pairs : tick.pair = p => IsOver(p[1], p[2])

ArchiveInv == TypeOK /\ RowsAreTrue /\ JobsAreTrue /\ CompleteMeansCovered /\ HandEnded

TickType == [at : {"idle", "backlog", "season", "ladders", "rewards"},
             pair : Pairs \cup {NoPair}, failed : SUBSET Pairs, awaiting : SUBSET Pairs]

LEMMA PairTypes ==
  \A p \in Pairs : p[1] \in RegionSet /\ p[2] \in 1..LastSeason[p[1]] /\ p # NoPair
<1> SUFFICES ASSUME NEW p \in Pairs PROVE p[1] \in RegionSet /\ p[2] \in 1..LastSeason[p[1]] /\ p # NoPair
  OBVIOUS
<1>1. PICK r \in RegionSet : p \in {r} \X (1..LastSeason[r])
  BY DEF Pairs
<1>2. PICK s \in 1..LastSeason[r] : p = <<r, s>>
  BY <1>1
<1> QED BY <1>2 DEF NoPair

LEMMA Starts == Init => ArchiveInv
<1> SUFFICES ASSUME Init PROVE ArchiveInv
  OBVIOUS
<1>1. TypeOK
  <2>1. \A b \in Brackets : Full(b) \in Amounts
    BY DEF Full, Amounts
  <2>2. rows \in [Pairs -> [Brackets -> Amounts]]
    BY <2>1 DEF Init, Amounts
  <2>3. marker \in [Pairs -> Markers]
    BY DEF Init, NoMarker, Markers, Rewards
  <2>4. /\ upstream \in [RegionSet -> [season : Seasons, phase : Phases, listed : Seasons]]
        /\ seen \in [RegionSet -> [season : Nat, dated : BOOLEAN]]
    BY ArchiveAssumption DEF Init, Phases
  <2>5. fetched \in [Pairs -> SUBSET Brackets] /\ tick = NoTick /\ NoTick \in TickType
        /\ job \in [Brackets -> Stages] /\ drops \in 0..MaxDrops /\ unlisted \subseteq Pairs /\ calm \in BOOLEAN
    <3>1. NoTick \in TickType
      BY DEF NoTick, TickType
    <3>2. fetched \in [Pairs -> SUBSET Brackets] /\ job \in [Brackets -> Stages]
      BY DEF Init, NoJobs, Stages
    <3>3. tick = NoTick /\ drops = 0 /\ unlisted = {} /\ calm = FALSE
      BY Zenon DEF Init
    <3>4. drops \in 0..MaxDrops
      BY <3>3, ArchiveAssumption
    <3>5. unlisted \subseteq Pairs /\ calm \in BOOLEAN
      BY <3>3
    <3> QED BY Zenon, <3>1, <3>2, <3>3, <3>4, <3>5
  <2>6. tick.at \notin {"season", "ladders"} /\ tick.pair = NoPair
    BY <2>5 DEF NoTick
  <2> QED BY <2>2, <2>3, <2>4, <2>5, <2>6 DEF TypeOK, TickType
<1>2. RowsAreTrue
  BY DEF Init, RowsAreTrue, Full
<1>3. JobsAreTrue /\ CompleteMeansCovered
  BY DEF Init, JobsAreTrue, NoTick, CompleteMeansCovered, Complete, NoMarker
<1>4. HandEnded
  BY PairTypes DEF Init, HandEnded, NoTick
<1> QED BY <1>1, <1>2, <1>3, <1>4 DEF ArchiveInv

(* Where the tick goes.                                                      *)
LEMMA TickGoes ==
  ASSUME TypeOK, Next
  PROVE  /\ tick' \in TickType
         /\ tick'.at \in {"season", "ladders"} <=> tick'.pair # NoPair
         /\ \/ tick'.pair = NoPair
            \/ tick'.pair = tick.pair /\ tick'.at = tick.at
            \/ TakeUp /\ tick'.pair = tick.pair
            \/ \E p \in Pairs : IsNext(p) /\ tick'.at = "season" /\ tick'.pair = p
<1> USE DEF TickType
<1>0. tick \in TickType /\ (tick.at \in {"season", "ladders"} <=> tick.pair # NoPair)
  BY DEF TypeOK
<1>1. CASE UNCHANGED tick
  BY <1>0, <1>1
<1>2. CASE tick' = NoTick \/ (tick = NoTick /\ tick' = [NoTick EXCEPT !.at = "backlog"])
  BY <1>2 DEF NoTick
<1>3. ASSUME NEW p \in Pairs, Choose(p) \/ Adopt(p) PROVE tick' = tick \/
         (IsNext(p) /\ tick' = [tick EXCEPT !.at = "season", !.pair = p])
  BY <1>3 DEF Choose, Adopt
<1>4. ASSUME NEW p \in Pairs, IsNext(p), tick' = [tick EXCEPT !.at = "season", !.pair = p]
      PROVE  tick' \in TickType /\ tick'.at = "season" /\ tick'.pair = p /\ p # NoPair
  BY <1>0, <1>4, PairTypes
<1>5. CASE TakeUp
  BY <1>0, <1>5 DEF TakeUp
<1>6. CASE SeasonFails \/ MarkUnarchivable \/ RecordSeason
  <2>1. tick.pair \in Pairs
    BY <1>0, <1>6 DEF SeasonFails, MarkUnarchivable, RecordSeason
  <2>2. tick' \in {NotAgain(tick.pair), [tick EXCEPT !.at = "backlog", !.pair = NoPair]}
    BY <1>6 DEF SeasonFails, MarkUnarchivable, RecordSeason
  <2>3. CASE tick' = [tick EXCEPT !.at = "backlog", !.pair = NoPair]
    BY <1>0, <2>3
  <2>4. CASE tick' = NotAgain(tick.pair)
    <3>1. tick' = [tick EXCEPT !.at = "backlog", !.pair = NoPair, !.failed = tick.failed \cup {tick.pair}]
      BY <2>4 DEF NotAgain
    <3> QED BY <1>0, <2>1, <3>1
  <2> QED BY <2>2, <2>3, <2>4
<1>7. CASE RewardsStart
  BY <1>0, <1>7 DEF RewardsStart, SeasonsAwaitingRewards
<1>8. ASSUME NEW p \in Pairs, AskRewards(p) PROVE tick' \in TickType /\ tick'.at = tick.at /\ tick'.pair = tick.pair
  BY <1>0, <1>8 DEF AskRewards
<1>9. \/ UNCHANGED tick \/ tick' = NoTick \/ (tick = NoTick /\ tick' = [NoTick EXCEPT !.at = "backlog"])
      \/ \E p \in Pairs : Choose(p) \/ Adopt(p) \/ AskRewards(p)
      \/ TakeUp \/ SeasonFails \/ MarkUnarchivable \/ RecordSeason \/ RewardsStart
  BY Zenon DEF Next, TickStep, SeasonTurns, Refresh, TickStarts, TickStops, TickEnds, BracketFails,
    GetLeaderboard,
    InsertSome, InsertEntries, RecordBracketFetch, MarkersDropped, Calms
<1> QED BY <1>0, <1>1, <1>2, <1>3, <1>4, <1>5, <1>6, <1>7, <1>8, <1>9

(* Where a ladder goes.                                                      *)
JobGoes(b) == BracketFails(b) \/ GetLeaderboard(b) \/ InsertEntries(b) \/ RecordBracketFetch(b)

LEMMA Effects ==
  ASSUME TypeOK, Next
  PROVE  /\ rows' = rows \/ \E b \in Brackets : InsertSome(b) \/ InsertEntries(b)
         /\ fetched' = fetched \/ \E b \in Brackets : RecordBracketFetch(b)
         /\ \/ job' = job \/ (job' = NoJobs /\ tick'.at # "ladders")
            \/ TakeUp \/ \E b \in Brackets : JobGoes(b)
         /\ \/ marker' = marker \/ MarkersDropped \/ MarkUnarchivable \/ RecordSeason
            \/ \E p \in Pairs : Adopt(p) \/ AskRewards(p)
         /\ upstream' = upstream \/ \E r \in RegionSet : SeasonTurns(r)
         /\ seen' = seen \/ \E r \in RegionSet : Refresh(r)
         /\ drops' = drops \/ MarkersDropped
         /\ unlisted' = unlisted \/ \E p \in Pairs : Adopt(p)
         /\ calm' = calm \/ Calms
<1>1. tick' = NoTick => tick'.at # "ladders"
  BY DEF NoTick
<1>2. SeasonFails \/ RecordSeason => tick'.at # "ladders"
  <2>1. SeasonFails \/ RecordSeason =>
          \/ tick' = [tick EXCEPT !.at = "backlog", !.pair = NoPair]
          \/ tick' = [tick EXCEPT !.at = "backlog", !.pair = NoPair, !.failed = tick.failed \cup {tick.pair}]
    BY DEF SeasonFails, RecordSeason, NotAgain
  <2> QED BY <2>1 DEF TypeOK
<1> QED BY Zenon, <1>1, <1>2
    DEF Next, TickStep, SeasonTurns, Refresh, TickStarts, TickStops, TickEnds, BracketFails,
      GetLeaderboard, JobGoes,
    InsertSome, InsertEntries, RecordBracketFetch, MarkersDropped, Calms, Choose, Adopt, AskRewards,
    TakeUp,
    SeasonFails, MarkUnarchivable, RecordSeason, RewardsStart, stored, world, rare

LEMMA TypeStep == TypeOK /\ [Next]_vars => TypeOK'
<1> SUFFICES ASSUME TypeOK, [Next]_vars PROVE TypeOK'
  OBVIOUS
<1>1. CASE UNCHANGED vars
  BY <1>1 DEF vars, TypeOK
<1>2. CASE Next
  <2>0. /\ rows \in [Pairs -> [Brackets -> Amounts]] /\ fetched \in [Pairs -> SUBSET Brackets]
        /\ marker \in [Pairs -> Markers] /\ job \in [Brackets -> Stages] /\ tick \in TickType
        /\ \A b \in Brackets : Full(b) \in Amounts
    BY DEF TypeOK, TickType, Full, Amounts
  <2>1. /\ tick' \in TickType
        /\ tick'.at \in {"season", "ladders"} <=> tick'.pair # NoPair
    BY <1>2, TickGoes
  <2>2. rows' \in [Pairs -> [Brackets -> Amounts]]
    <3>1. ASSUME NEW b \in Brackets, InsertSome(b) \/ InsertEntries(b)
          PROVE  rows' \in [Pairs -> [Brackets -> Amounts]]
      <4>1. tick.pair \in Pairs
        BY <2>0, <3>1 DEF InsertSome, InsertEntries, Goes, TypeOK, TickType
      <4>2. \E a \in Amounts : rows' = [rows EXCEPT ![tick.pair] = [rows[tick.pair] EXCEPT ![b] = a]]
        BY <2>0, <3>1 DEF InsertSome, InsertEntries, Amounts
      <4> QED BY <2>0, <4>1, <4>2
    <3> QED BY <1>2, <2>0, <3>1, Effects
  <2>3. fetched' \in [Pairs -> SUBSET Brackets]
    BY <1>2, <2>0, Effects DEF RecordBracketFetch
  <2>4. job' \in [Brackets -> Stages]
    <3>1. NoJobs \in [Brackets -> Stages] /\ (TakeUp => job' \in [Brackets -> Stages])
      BY DEF NoJobs, Stages, TakeUp
    <3>2. ASSUME NEW b \in Brackets, JobGoes(b) PROVE job' \in [Brackets -> Stages]
      BY <2>0, <3>2 DEF JobGoes, Goes, BracketFails, GetLeaderboard, InsertEntries, RecordBracketFetch,
        Stages
    <3> QED BY <1>2, <2>0, <3>1, <3>2, Effects
  <2>5. marker' \in [Pairs -> Markers]
    <3>1. ASSUME NEW p \in Pairs, NEW failed \in SUBSET Brackets, Record(p, failed)
          PROVE  marker' \in [Pairs -> Markers]
      BY <2>0, <3>1 DEF Record, Markers
    <3>2. MarkersDropped => marker' \in [Pairs -> Markers]
      BY DEF MarkersDropped, NoMarker, Markers, Rewards
    <3>3. ASSUME MarkUnarchivable PROVE marker' \in [Pairs -> Markers]
      <4>1. tick.pair \in Pairs
        BY <2>0, <3>3 DEF MarkUnarchivable, TypeOK, TickType
      <4>2. marker' = [marker EXCEPT ![tick.pair] = [marker[tick.pair] EXCEPT !.set = TRUE, !.gone = TRUE]]
        BY <2>0, <3>3, <4>1 DEF MarkUnarchivable
      <4>3. [marker[tick.pair] EXCEPT !.set = TRUE, !.gone = TRUE] \in Markers
        BY <2>0, <4>1 DEF Markers
      <4> QED BY <2>0, <4>2, <4>3
    <3>4. RecordSeason => marker' \in [Pairs -> Markers]
      <4>1. RecordSeason => tick.pair \in Pairs
        BY <2>0 DEF RecordSeason, TypeOK, TickType
      <4> QED BY <3>1, <4>1 DEF RecordSeason
    <3>5. ASSUME NEW p \in Pairs, Adopt(p) PROVE marker' \in [Pairs -> Markers]
      <4>1. \E failed \in SUBSET Brackets : Record(p, failed)
        BY <3>5, ArchiveAssumption DEF Adopt
      <4> QED BY <3>1, <4>1
    <3>6. ASSUME NEW p \in Pairs, AskRewards(p) PROVE marker' \in [Pairs -> Markers]
      <4>1. PICK answer \in Rewards : marker' = [marker EXCEPT ![p] = [marker[p] EXCEPT !.rewards = answer]]
        BY <2>0, <3>6 DEF AskRewards
      <4>2. [marker[p] EXCEPT !.rewards = answer] \in Markers
        BY <2>0 DEF Markers
      <4> QED BY <2>0, <4>1, <4>2
    <3> QED BY <1>2, <2>0, <3>2, <3>3, <3>4, <3>5, <3>6, Effects
  <2>6. upstream' \in [RegionSet -> [season : Seasons, phase : Phases, listed : Seasons]]
    <3>1. ASSUME NEW r \in RegionSet, SeasonTurns(r)
          PROVE  upstream' \in [RegionSet -> [season : Seasons, phase : Phases, listed : Seasons]]
      <4> DEFINE u == upstream[r]
      <4>1. /\ u \in [season : Seasons, phase : Phases, listed : Seasons]
            /\ u.season \in Nat /\ u.season + 1 \in Seasons /\ u.listed + 1 \in Seasons
        BY DEF TypeOK, Seasons
      <4>2. /\ [u EXCEPT !.phase = "dated"] \in [season : Seasons, phase : Phases, listed : Seasons]
            /\ [u EXCEPT !.phase = "ended"] \in [season : Seasons, phase : Phases, listed : Seasons]
            /\ [u EXCEPT !.listed = u.listed + 1] \in [season : Seasons, phase : Phases, listed : Seasons]
            /\ [season |-> u.season + 1, phase |-> "running", listed |-> u.season + 1]
                 \in [season : Seasons, phase : Phases, listed : Seasons]
        BY <4>1 DEF Phases
      <4>3. \E v \in [season : Seasons, phase : Phases, listed : Seasons] : upstream' = [upstream EXCEPT ![r] = v]
        BY <3>1, <4>2 DEF SeasonTurns
      <4> QED BY <4>3 DEF TypeOK
    <3> QED BY <1>2, <3>1, Effects DEF TypeOK
  <2>7. seen' \in [RegionSet -> [season : Nat, dated : BOOLEAN]]
    <3>1. ASSUME NEW r \in RegionSet, Refresh(r) PROVE seen' \in [RegionSet -> [season : Nat, dated : BOOLEAN]]
      BY <3>1 DEF Refresh, TypeOK, Seasons
    <3> QED BY <1>2, <3>1, Effects DEF TypeOK
  <2>8. drops' \in 0..MaxDrops
    BY <1>2, Effects, ArchiveAssumption DEF TypeOK, MarkersDropped
  <2>9. unlisted' \subseteq Pairs /\ calm' \in BOOLEAN
    BY <1>2, Effects DEF TypeOK, Adopt, Calms
  <2> QED BY <2>1, <2>2, <2>3, <2>4, <2>5, <2>6, <2>7, <2>8, <2>9 DEF TypeOK, TickType
<1> QED BY <1>1, <1>2

(* Only the ladder in hand is written or recorded.                           *)
LEMMA OnlyInHand ==
  ASSUME TypeOK, Next
  PROVE  /\ rows' = rows \/ \E b \in Brackets :
              /\ tick.at = "ladders" /\ tick.pair \in Pairs /\ job[b] = "answered"
              /\ \/ b \notin Empty /\ rows[tick.pair][b] = "none" /\ rows'[tick.pair][b] = "part" /\ job' = job
                 \/ rows'[tick.pair][b] = Full(b)
              /\ \A p \in Pairs : \A c \in Brackets : <<p, c>> # <<tick.pair, b>> => rows'[p][c] = rows[p][c]
         /\ fetched' = fetched \/ \E b \in Brackets :
              /\ tick.at = "ladders" /\ tick.pair \in Pairs /\ job[b] = "written" /\ rows' = rows
              /\ fetched'[tick.pair] = fetched[tick.pair] \cup {b}
              /\ \A p \in Pairs : p # tick.pair => fetched'[p] = fetched[p]
<1>1. ASSUME NEW b \in Brackets, InsertSome(b) \/ InsertEntries(b)
      PROVE  /\ tick.at = "ladders" /\ tick.pair \in Pairs /\ job[b] = "answered"
             /\ \/ b \notin Empty /\ rows[tick.pair][b] = "none" /\ rows'[tick.pair][b] = "part" /\ job' = job
                \/ rows'[tick.pair][b] = Full(b)
             /\ \A p \in Pairs : \A c \in Brackets : <<p, c>> # <<tick.pair, b>> => rows'[p][c] = rows[p][c]
  <2>1. tick.at = "ladders" /\ tick.pair \in Pairs /\ job[b] = "answered"
    BY <1>1 DEF InsertSome, InsertEntries, Goes, TypeOK
  <2>2. PICK a \in Amounts :
          /\ rows' = [rows EXCEPT ![tick.pair] = [rows[tick.pair] EXCEPT ![b] = a]]
          /\ \/ b \notin Empty /\ rows[tick.pair][b] = "none" /\ a = "part" /\ job' = job
             \/ a = Full(b)
    BY <1>1, <2>1 DEF InsertSome, InsertEntries, Amounts, TypeOK, Full
  <2>3. rows'[tick.pair] = [rows[tick.pair] EXCEPT ![b] = a] /\ \A p \in Pairs \ {tick.pair} : rows'[p] = rows[p]
    BY <2>1, <2>2 DEF TypeOK
  <2>4. rows'[tick.pair][b] = a /\ \A c \in Brackets \ {b} : rows'[tick.pair][c] = rows[tick.pair][c]
    BY <2>1, <2>3 DEF TypeOK
  <2> QED BY <2>1, <2>2, <2>3, <2>4
<1>2. ASSUME NEW b \in Brackets, RecordBracketFetch(b)
      PROVE  /\ tick.at = "ladders" /\ tick.pair \in Pairs /\ job[b] = "written" /\ rows' = rows
             /\ fetched'[tick.pair] = fetched[tick.pair] \cup {b}
             /\ \A p \in Pairs : p # tick.pair => fetched'[p] = fetched[p]
  BY <1>2 DEF RecordBracketFetch, Goes, TypeOK
<1> QED BY <1>1, <1>2, Effects

(* What is stored and recorded of the ladders stays so.                      *)
LEMMA CoveredStays ==
  ASSUME ArchiveInv, Next, NEW p \in Pairs, NEW b \in Brackets, Covered(p, b)
  PROVE  Covered(p, b)'
<1>1. fetched[p] \subseteq fetched'[p]
  BY OnlyInHand DEF ArchiveInv
<1>2. rows[p][b] # "none" => rows'[p][b] # "none"
  BY OnlyInHand DEF ArchiveInv, RowsAreTrue, Full
<1> QED BY <1>1, <1>2 DEF Covered

LEMMA RowsStep == ArchiveInv /\ Next => RowsAreTrue'
<1> SUFFICES ASSUME ArchiveInv, Next, NEW p \in Pairs, NEW b \in Brackets
             PROVE  /\ b \in fetched'[p] => rows'[p][b] = Full(b)
                    /\ b \in Empty => rows'[p][b] = "none"
  BY DEF RowsAreTrue
<1>1. b \in Empty => rows'[p][b] = "none"
  BY OnlyInHand DEF ArchiveInv, RowsAreTrue, Full
<1>2. b \in fetched[p] => rows'[p][b] = Full(b)
  BY OnlyInHand DEF ArchiveInv, RowsAreTrue, Full
<1>3. b \in fetched'[p] /\ b \notin fetched[p] => rows'[p][b] = Full(b)
  BY OnlyInHand DEF ArchiveInv, JobsAreTrue
<1> QED BY <1>1, <1>2, <1>3

LEMMA JobsStep == ArchiveInv /\ Next => JobsAreTrue'
<1> SUFFICES ASSUME ArchiveInv, Next, tick'.at = "ladders", NEW b \in Brackets
             PROVE  /\ job'[b] = "written" => rows'[tick'.pair][b] = Full(b)
                    /\ job'[b] \in {"waiting", "answered", "written"} => b \notin fetched'[tick'.pair]
                    /\ job'[b] = "done" => b \in fetched'[tick'.pair]
                    /\ job'[b] = "none" /\ b \in Published[tick'.pair] => Covered(tick.pair, b)'
  BY DEF JobsAreTrue
<1>0. TypeOK /\ job \in [Brackets -> Stages]
  BY DEF ArchiveInv, TypeOK
<1>1. tick'.pair = tick.pair /\ tick.pair \in Pairs /\ (TakeUp \/ tick.at = "ladders")
  BY <1>0, TickGoes DEF TypeOK, TakeUp
<1>2. CASE TakeUp
  BY <1>1, <1>2, CoveredStays DEF TakeUp, CoveredBrackets, Covered, stored
<1>3. CASE tick.at = "ladders" /\ ~TakeUp
  <2> DEFINE Rightly(c) == /\ job[c] = "written" => rows[tick.pair][c] = Full(c)
                           /\ job[c] \in {"waiting", "answered", "written"} => c \notin fetched[tick.pair]
                           /\ job[c] = "done" => c \in fetched[tick.pair]
                           /\ job[c] = "none" /\ c \in Published[tick.pair] => Covered(tick.pair, c)
  <2>1. \A c \in Brackets : Rightly(c)
    BY <1>3 DEF ArchiveInv, JobsAreTrue
  <2>2. Covered(tick.pair, b) => Covered(tick.pair, b)'
    BY <1>1, CoveredStays
  <2>3. CASE job' = job
    <3>1. fetched' = fetched
      <4>1. ASSUME NEW c \in Brackets, RecordBracketFetch(c) PROVE job'[c] # job[c]
        BY <1>0, <4>1 DEF RecordBracketFetch, Goes
      <4> QED BY <1>0, <2>3, <4>1, Effects
    <3>2. job[b] = "written" => rows'[tick.pair][b] = rows[tick.pair][b]
      BY <1>0, <1>1, OnlyInHand
    <3> QED BY <1>1, <2>1, <2>2, <2>3, <3>1, <3>2
  <2>4. ASSUME NEW c \in Brackets, NEW to \in Stages, job' = [job EXCEPT ![c] = to], to = "failed" \/ to = "answered",
               job[c] \in {"waiting", "answered", "written"}, rows' = rows, fetched' = fetched
        PROVE  /\ job'[b] = "written" => rows'[tick'.pair][b] = Full(b)
               /\ job'[b] \in {"waiting", "answered", "written"} => b \notin fetched'[tick'.pair]
               /\ job'[b] = "done" => b \in fetched'[tick'.pair]
               /\ job'[b] = "none" /\ b \in Published[tick'.pair] => Covered(tick.pair, b)'
    BY <1>0, <1>1, <2>1, <2>2, <2>4
  <2>5. ASSUME NEW c \in Brackets, InsertEntries(c)
        PROVE  /\ job'[b] = "written" => rows'[tick'.pair][b] = Full(b)
               /\ job'[b] \in {"waiting", "answered", "written"} => b \notin fetched'[tick'.pair]
               /\ job'[b] = "done" => b \in fetched'[tick'.pair]
               /\ job'[b] = "none" /\ b \in Published[tick'.pair] => Covered(tick.pair, b)'
    <3>1. /\ job[c] = "answered" /\ job' = [job EXCEPT ![c] = "written"] /\ fetched' = fetched
          /\ rows' = [rows EXCEPT ![tick.pair] = [rows[tick.pair] EXCEPT ![c] = Full(c)]]
      BY <2>5 DEF InsertEntries, Goes
    <3>2. rows'[tick.pair] = [rows[tick.pair] EXCEPT ![c] = Full(c)] /\ rows[tick.pair] \in [Brackets -> Amounts]
      BY <1>0, <1>1, <3>1 DEF TypeOK
    <3>3. rows'[tick.pair][c] = Full(c) /\ (b # c => rows'[tick.pair][b] = rows[tick.pair][b])
      BY <3>2
    <3> QED BY <1>0, <1>1, <2>1, <2>2, <3>1, <3>3
  <2>6. ASSUME NEW c \in Brackets, RecordBracketFetch(c)
        PROVE  /\ job'[b] = "written" => rows'[tick'.pair][b] = Full(b)
               /\ job'[b] \in {"waiting", "answered", "written"} => b \notin fetched'[tick'.pair]
               /\ job'[b] = "done" => b \in fetched'[tick'.pair]
               /\ job'[b] = "none" /\ b \in Published[tick'.pair] => Covered(tick.pair, b)'
    <3>1. /\ job[c] = "written" /\ job' = [job EXCEPT ![c] = "done"] /\ rows' = rows
          /\ fetched' = [fetched EXCEPT ![tick.pair] = fetched[tick.pair] \cup {c}]
      BY <2>6 DEF RecordBracketFetch, Goes
    <3>2. fetched'[tick.pair] = fetched[tick.pair] \cup {c}
      BY <1>0, <1>1, <3>1 DEF TypeOK
    <3> QED BY <1>0, <1>1, <2>1, <2>2, <3>1, <3>2
  <2>7. ASSUME NEW c \in Brackets, BracketFails(c) \/ GetLeaderboard(c)
        PROVE  /\ rows' = rows /\ fetched' = fetched
               /\ \E to \in {"failed", "answered"} :
                    job' = [job EXCEPT ![c] = to] /\ job[c] \in {"waiting", "answered", "written"}
    BY <2>7 DEF BracketFails, GetLeaderboard, Goes, stored
  <2> QED BY <1>0, <1>3, <2>3, <2>4, <2>5, <2>6, <2>7, Effects DEF Stages, JobGoes
<1> QED BY <1>1, <1>2, <1>3

(* The marker of a season is set whole only by RecordSeason, when none of its*)
(* ladders failed, and by Adopt, when none is missing.                       *)
LEMMA CoveredStep == ArchiveInv /\ Next => CompleteMeansCovered'
<1> SUFFICES ASSUME ArchiveInv, Next, NEW p \in Pairs, p \notin unlisted', Complete(p)', ~marker'[p].gone,
                    NEW b \in Published[p]
             PROVE  Covered(p, b)'
  BY DEF CompleteMeansCovered, Covered
<1>0. TypeOK /\ marker \in [Pairs -> Markers] /\ b \in Brackets /\ p \notin unlisted
  BY Effects, ArchiveAssumption DEF ArchiveInv, TypeOK, Adopt
<1>1. CASE Complete(p) /\ ~marker[p].gone
  BY <1>0, <1>1, CoveredStays DEF ArchiveInv, CompleteMeansCovered, Covered
<1>2. CASE MarkersDropped
  BY <1>0, <1>2 DEF MarkersDropped, Complete, NoMarker
<1>3. ASSUME NEW failed \in SUBSET Brackets, NEW q \in Pairs, Record(q, failed)
      PROVE  (q # p => Complete(p) /\ ~marker[p].gone) /\ (q = p => failed = {})
  <2>1. marker' = [marker EXCEPT ![q] = [marker[q] EXCEPT !.set = TRUE, !.failed = failed]]
    BY <1>0, <1>3 DEF Record
  <2>2. marker'[q] = [marker[q] EXCEPT !.set = TRUE, !.failed = failed]
        /\ (q # p => marker'[p] = marker[p])
    BY <1>0, <2>1
  <2> QED BY <1>0, <2>2 DEF Complete, Markers
<1>4. CASE RecordSeason
  <2>1. tick.pair \in Pairs /\ Record(tick.pair, {c \in Brackets : job[c] = "failed"})
        /\ tick.at = "ladders" /\ \A c \in Brackets : job[c] \in {"none", "done", "failed"}
    BY <1>0, <1>4 DEF RecordSeason, TypeOK
  <2>2. CASE tick.pair = p
    <3>1. job[b] \in {"none", "done"}
      BY <1>0, <1>3, <2>1, <2>2
    <3>2. Covered(p, b)
      BY <1>0, <2>1, <2>2, <3>1 DEF ArchiveInv, JobsAreTrue, Covered
    <3> QED BY <1>0, <3>2, CoveredStays
  <2> QED BY <1>1, <1>3, <2>1, <2>2
<1>5. ASSUME NEW q \in Pairs, Adopt(q) PROVE Covered(p, b)'
  <2>1. \E failed \in SUBSET Brackets : Record(q, failed) /\
          (failed = Published[q] \ CoveredBrackets(q) \/ unlisted' = unlisted \cup {q})
    BY <1>5, ArchiveAssumption DEF Adopt
  <2>2. CASE q = p
    <3>1. Published[p] \ CoveredBrackets(p) = {}
      BY <1>0, <1>3, <2>1, <2>2
    <3>2. Covered(p, b)
      BY <1>0, <3>1 DEF Covered, CoveredBrackets
    <3> QED BY <1>0, <3>2, CoveredStays
  <2> QED BY <1>1, <1>3, <2>1, <2>2
<1>6. CASE MarkUnarchivable
  <2>1. tick.pair \in Pairs
        /\ marker' = [marker EXCEPT ![tick.pair] = [marker[tick.pair] EXCEPT !.set = TRUE, !.gone = TRUE]]
    BY <1>0, <1>6 DEF MarkUnarchivable, TypeOK
  <2>2. marker'[tick.pair] = [marker[tick.pair] EXCEPT !.set = TRUE, !.gone = TRUE]
        /\ (tick.pair # p => marker'[p] = marker[p])
    BY <1>0, <2>1
  <2>3. tick.pair # p
    BY <1>0, <2>1, <2>2 DEF Markers
  <2> QED BY <1>1, <2>2, <2>3 DEF Complete
<1>7. ASSUME NEW q \in Pairs, AskRewards(q) PROVE Covered(p, b)'
  <2>1. PICK answer \in Rewards : marker' = [marker EXCEPT ![q] = [marker[q] EXCEPT !.rewards = answer]]
    BY <1>0, <1>7 DEF AskRewards
  <2>2. marker'[q] = [marker[q] EXCEPT !.rewards = answer] /\ (q # p => marker'[p] = marker[p])
    BY <1>0, <2>1
  <2>3. Complete(p) /\ ~marker[p].gone
    BY <1>0, <2>2 DEF Complete, Markers
  <2> QED BY <1>1, <2>3
<1>8. CASE marker' = marker
  BY <1>1, <1>8 DEF Complete
<1> QED BY <1>0, <1>2, <1>4, <1>5, <1>6, <1>7, <1>8, Effects

LEMMA OverStays ==
  ASSUME TypeOK, Next, NEW p \in Pairs, IsOver(p[1], p[2])
  PROVE  IsOver(p[1], p[2])'
<1>1. p[1] \in RegionSet /\ p[2] \in Int
  BY PairTypes, ArchiveAssumption DEF Seasons
<1> DEFINE u == upstream[p[1]]
<1>2. u.season \in Int /\ u \in [season : Seasons, phase : Phases, listed : Seasons]
  BY <1>1 DEF TypeOK, Seasons
<1>3. ASSUME NEW r \in RegionSet, SeasonTurns(r) PROVE IsOver(p[1], p[2])'
  <2>1. CASE r # p[1]
    BY <1>1, <1>3, <2>1 DEF SeasonTurns, IsOver, TypeOK
  <2>2. CASE r = p[1]
    <3>1. \/ u.phase # "ended" /\ upstream'[r].season = u.season
          \/ upstream'[r].season = u.season + 1
          \/ upstream'[r].season = u.season /\ upstream'[r].phase = u.phase
      <4>1. \/ /\ u.phase # "ended"
               /\ \E f \in {"dated", "ended"} : upstream' = [upstream EXCEPT ![r] = [u EXCEPT !.phase = f]]
            \/ upstream' = [upstream EXCEPT ![r] = [season |-> u.season + 1, phase |-> "running",
                                                    listed |-> u.season + 1]]
            \/ upstream' = [upstream EXCEPT ![r] = [u EXCEPT !.listed = u.listed + 1]]
        BY <1>2, <1>3, <2>2 DEF SeasonTurns, TypeOK
      <4>2. \A v : upstream' = [upstream EXCEPT ![r] = v] => upstream'[r] = v
        BY DEF TypeOK
      <4>3. CASE upstream' = [upstream EXCEPT ![r] = [season |-> u.season + 1, phase |-> "running",
                                                      listed |-> u.season + 1]]
        BY <4>2, <4>3
      <4> QED BY <1>2, <4>1, <4>2, <4>3
    <3> QED BY <1>1, <1>2, <2>2, <3>1 DEF IsOver
  <2> QED BY <2>1, <2>2
<1> QED BY <1>3, Effects DEF IsOver

(* Where no season is listed before it starts, what the backlog offers has   *)
(* ended.                                                                    *)
LEMMA HandStep == ArchiveInv /\ Next => HandEnded'
<1> SUFFICES ASSUME ArchiveInv, Next, ~ListsAhead
             PROVE  /\ \A r \in RegionSet : upstream'[r].listed = upstream'[r].season
                    /\ \A p \in Pairs : tick'.pair = p => IsOver(p[1], p[2])'
  BY DEF HandEnded
<1>0. TypeOK /\ \A r \in RegionSet : upstream[r].listed = upstream[r].season
  BY DEF ArchiveInv, HandEnded
<1>1. \A r \in RegionSet : upstream'[r].listed = upstream'[r].season
  <2>1. ASSUME NEW r \in RegionSet, SeasonTurns(r) PROVE \A q \in RegionSet : upstream'[q].listed = upstream'[q].season
    <3> DEFINE u == upstream[r]
    <3>1. u \in [season : Seasons, phase : Phases, listed : Seasons] /\ u.listed = u.season
      BY <1>0 DEF TypeOK
    <3>2. \E v \in [season : Seasons, phase : Phases, listed : Seasons] :
            v.listed = v.season /\ upstream' = [upstream EXCEPT ![r] = v]
      <4>1. CASE \E f \in {"dated", "ended"} : upstream' = [upstream EXCEPT ![r] = [u EXCEPT !.phase = f]]
        <5>1. \A f \in {"dated", "ended"} : [u EXCEPT !.phase = f] \in [season : Seasons, phase : Phases, listed : Seasons]
                                            /\ [u EXCEPT !.phase = f].listed = [u EXCEPT !.phase = f].season
          BY <3>1 DEF Phases
        <5> QED BY <4>1, <5>1
      <4>2. CASE upstream' = [upstream EXCEPT ![r] = [season |-> u.season + 1, phase |-> "running",
                                                      listed |-> u.season + 1]]
        <5>1. u.season + 1 \in Seasons
          BY <3>1 DEF Seasons
        <5> QED BY <4>2, <5>1 DEF Phases
      <4>3. \/ \E f \in {"dated", "ended"} : upstream' = [upstream EXCEPT ![r] = [u EXCEPT !.phase = f]]
            \/ upstream' = [upstream EXCEPT ![r] = [season |-> u.season + 1, phase |-> "running",
                                                    listed |-> u.season + 1]]
        BY <1>0, <2>1 DEF SeasonTurns, TypeOK
      <4> QED BY <4>1, <4>2, <4>3
    <3> QED BY <1>0, <3>2 DEF TypeOK
  <2> QED BY <1>0, <2>1, Effects
<1>2. ASSUME NEW p \in Pairs, tick'.pair = p PROVE IsOver(p[1], p[2])'
  <2>1. CASE tick.pair = p
    BY <1>0, <2>1, OverStays DEF ArchiveInv, HandEnded
  <2>2. CASE IsNext(p)
    <3>1. p[1] \in RegionSet /\ p[2] \in ArchivableSeasons(p[1])
      BY <2>2, PairTypes DEF IsNext, Waiting
    <3>2. IsOver(p[1], p[2])
      BY <1>0, <3>1 DEF ArchivableSeasons, HasEnded, IsOver
    <3> QED BY <1>0, <3>2, OverStays
  <2>3. p # NoPair
    BY PairTypes
  <2> QED BY <1>0, <1>2, <2>1, <2>2, <2>3, TickGoes
<1> QED BY <1>1, <1>2

(* The invariant of the archive: every step keeps it.                        *)
LEMMA ArchiveStep == ArchiveInv /\ [Next]_vars => ArchiveInv'
<1> SUFFICES ASSUME ArchiveInv, [Next]_vars PROVE ArchiveInv'
  OBVIOUS
<1>1. CASE Next
  BY <1>1, TypeStep, RowsStep, JobsStep, CoveredStep, HandStep DEF ArchiveInv
<1>2. CASE UNCHANGED vars
  <2>1. TypeOK' /\ UNCHANGED <<upstream, rows, fetched, marker, tick, job, unlisted>>
    BY <1>2, TypeStep DEF ArchiveInv, vars
  <2> QED BY Zenon, <2>1 DEF ArchiveInv, RowsAreTrue, JobsAreTrue, Covered, CompleteMeansCovered,
            Complete, HandEnded, IsOver
<1> QED BY <1>1, <1>2

LEMMA Archives == Spec => []ArchiveInv
  BY Starts, ArchiveStep, PTL DEF Spec

(* A ladder on the fetch record is stored whole, wherever a tick breaks off. *)
THEOREM FetchRecord == Spec => []FetchRecordIsTrue
<1>1. ArchiveInv => FetchRecordIsTrue
  BY DEF ArchiveInv, RowsAreTrue, FetchRecordIsTrue, TypeOK
<1> QED BY Archives, <1>1, PTL

(* A season that counts as complete has every ladder the upstream lists for  *)
(* it, but for one adopted while its ladders were not listed.                *)
THEOREM CompleteIsCovered == Spec => []CompleteMeansCovered
<1>1. ArchiveInv => CompleteMeansCovered
  BY DEF ArchiveInv
<1> QED BY Archives, <1>1, PTL

(* A ladder on the fetch record is never requested again.                    *)
THEOREM FetchedOnce == Spec => NoLadderTwice
<1>1. ArchiveInv /\ [Next]_vars =>
        [\A b \in Brackets : job[b] = "waiting" /\ job'[b] = "answered" => b \notin fetched[tick.pair]]_vars
  <2> SUFFICES ASSUME ArchiveInv, Next, NEW b \in Brackets, job[b] = "waiting", job'[b] = "answered"
               PROVE  b \notin fetched[tick.pair]
    OBVIOUS
  <2>1. job \in [Brackets -> Stages] /\ TypeOK
    BY DEF ArchiveInv, TypeOK
  <2>2. ~TakeUp /\ job' # NoJobs /\ job' # job
    BY DEF TakeUp, NoJobs
  <2>3. tick.at = "ladders"
    BY <2>1, <2>2, Effects DEF JobGoes, BracketFails, GetLeaderboard, InsertEntries,
      RecordBracketFetch, Goes
  <2> QED BY <2>3 DEF ArchiveInv, JobsAreTrue
<1> QED BY Archives, <1>1, PTL DEF Spec, NoLadderTwice

(* Where the upstream lists no season before it starts, standings are stored *)
(* only of a season that has ended.                                          *)
THEOREM FinishedOnly == ~ListsAhead => (Spec => OnlyFinishedSeasons)
<1> SUFFICES ASSUME ~ListsAhead PROVE Spec => OnlyFinishedSeasons
  OBVIOUS
<1>1. ArchiveInv /\ [Next]_vars => [\A p \in Pairs : rows'[p] # rows[p] => IsOver(p[1], p[2])]_vars
  <2> SUFFICES ASSUME ArchiveInv, Next, NEW p \in Pairs, rows'[p] # rows[p]
               PROVE  IsOver(p[1], p[2])
    OBVIOUS
  <2>1. p = tick.pair
    <3>1. PICK b \in Brackets : InsertSome(b) \/ InsertEntries(b)
      BY Effects DEF ArchiveInv
    <3> QED BY <3>1 DEF InsertSome, InsertEntries, ArchiveInv, TypeOK
  <2> QED BY <2>1, PairTypes DEF ArchiveInv, HandEnded
<1> QED BY Archives, <1>1, PTL DEF Spec, OnlyFinishedSeasons
===============================================================================
