------------------------- MODULE SeasonTransitionProofs -------------------------
(* A season leaves the live collections only when it is superseded where it  *)
(* is played and the archive has done with it, for every number of regions,  *)
(* seasons, families and interruptions.                                      *)
EXTENDS SeasonTransition, SequenceTheorems, TLAPS

TickType == [at : {"idle", "markers", "boards", "purging"}, stale : SUBSET Pairs,
             archived : SUBSET Pairs, unread : SUBSET Regions, candidates : SUBSET Pairs,
             target : Pairs \cup {<<>>}, step : 1..Len(Collections) + 1]

(* What may go: once it holds of a season it holds for good.                 *)
Retired(r, s) == s < playing[r] /\ (RequireArchive => Settled(r, s))

(* Whatever a tick has found out stays true while it deletes.                *)
TickSound ==
  /\ tick \in TickType
  /\ \A p \in tick.stale : p[2] < playing[p[1]]
  /\ \A p \in tick.archived : RequireArchive => Settled(p[1], p[2])
  /\ \A p \in tick.candidates : Retired(p[1], p[2])
  /\ tick.at = "purging" => Retired(tick.target[1], tick.target[2])

(* Rows without their characters are of a season that may go: the end of a   *)
(* sweep removes no others.                                                  *)
OrphansRetired ==
  /\ \A r \in Regions, c \in Ratings, s \in Seasons :
       s \in live[r][c] => s \in live[r]["characters"] \/ Retired(r, s)
  /\ sweep.at = "ranked" /\ sweep.season < MaxSeason =>
       sweep.season \in live[sweep.region]["characters"] \/ Retired(sweep.region, sweep.season)

PurgeInv == TypeOK /\ TickSound /\ OrphansRetired

LEMMA CollectionsInOrder ==
  /\ Len(Families) \in Nat /\ Len(Collections) = Len(Families) + 2
  /\ \A i \in 1..Len(Families) : Collections[i] = Families[i]
  /\ Collections[Len(Families) + 1] = "characters"
  /\ Collections[Len(Families) + 2] = "spec_representation"
<1> DEFINE rest == <<"characters", "spec_representation">>
<1> DEFINE S == STRING \cup {"characters", "spec_representation"}
<1>1. Families \in Seq(S) /\ rest \in Seq(S) /\ Len(rest) = 2
  <2>1. Families \in Seq(S)
    BY TransitionAssumption, SeqMonotonic
  <2>2. rest \in Seq(S) /\ Len(rest) = 2
    OBVIOUS
  <2> QED BY <2>1, <2>2
<1>2. /\ Len(Collections) = Len(Families) + Len(rest)
      /\ \A i \in 1..Len(Families) + Len(rest) :
           Collections[i] = IF i <= Len(Families) THEN Families[i] ELSE rest[i - Len(Families)]
  BY <1>1, ConcatProperties DEF Collections
<1>3. Len(Families) \in Nat
  BY <1>1, LenProperties
<1>4. rest[1] = "characters" /\ rest[2] = "spec_representation"
  OBVIOUS
<1> HIDE DEF rest
<1>5. Collections[Len(Families) + 1] = rest[1] /\ Collections[Len(Families) + 2] = rest[2]
  BY <1>1, <1>2, <1>3
<1> QED BY <1>1, <1>2, <1>3, <1>4, <1>5

LEMMA NamesApart ==
  /\ Ratings \subseteq Names /\ {"characters", "spec_representation"} \subseteq Names
  /\ "characters" \notin Ratings /\ "spec_representation" \notin Ratings
  /\ \A i \in 1..Len(Collections) : Collections[i] \in Names
<1>1. \A i \in 1..Len(Collections) : Collections[i] \in Names
  BY DEF Names
<1>2. Ratings \subseteq Names
  BY <1>1, CollectionsInOrder DEF Ratings
<1>3. {"characters", "spec_representation"} \subseteq Names
  BY <1>1, CollectionsInOrder
<1>4. "characters" \notin Ratings /\ "spec_representation" \notin Ratings
  BY TransitionAssumption, ElementOfSeq DEF Ratings
<1> QED BY <1>1, <1>2, <1>3, <1>4

LEMMA Bounds ==
  /\ MaxSeason \in Nat \ {0} /\ Seasons \subseteq Nat /\ 1 \in Seasons /\ None \notin Seasons
  /\ MaxInterruptions \in Nat
BY TransitionAssumption DEF Seasons, None

(* What may go may go after any step.                                        *)
LEMMA RetiredStays ==
  ASSUME TypeOK, [Next]_vars, NEW r \in Regions, NEW s \in Seasons
  PROVE  /\ s < playing[r] => s < playing'[r]
         /\ Settled(r, s) => Settled(r, s)'
         /\ Retired(r, s) => Retired(r, s)'
<1>1. s < playing[r] => s < playing'[r]
  <2>1. playing' = playing \/ \E q \in Regions : playing' = [playing EXCEPT ![q] = @ + 1]
    BY Zenon DEF Next, vars, upstream, ours, SeasonEnds, SeasonListed, SeasonStarts, Refresh, Snapshot,
       SweepStarts,
       ArchiveWhole, ArchivePart, MarkUnarchivable, Mark, SweepRanks, SweepRates, SweepEnds, TickStep,
       TickStarts, ReadMarkers, ReadBoard, Planned, DeleteNext, RecordPurge, TickInterrupted
  <2>2. playing[r] \in Nat /\ s \in Nat /\ playing \in [Regions -> Seasons]
    BY Bounds DEF TypeOK
  <2> QED BY <2>1, <2>2
<1>2. Settled(r, s) => Settled(r, s)'
  <2>1. \/ archive' = archive
        \/ \E q \in Regions, t \in Seasons, m \in Markers :
             ~Settled(q, t) /\ archive' = [archive EXCEPT ![q][t] = m]
    BY Zenon DEF Next, vars, upstream, ours, SeasonEnds, SeasonListed, SeasonStarts, Refresh, Snapshot,
       SweepStarts,
       ArchiveWhole, ArchivePart, MarkUnarchivable, Mark, Pending, Markers, SweepRanks, SweepRates,
       SweepEnds, TickStep,
       TickStarts, ReadMarkers, ReadBoard, Planned, DeleteNext, RecordPurge, TickInterrupted
  <2>2. ASSUME NEW q \in Regions, NEW t \in Seasons, NEW m \in Markers, ~Settled(q, t),
               archive' = [archive EXCEPT ![q][t] = m], Settled(r, s)
        PROVE  Settled(r, s)'
    <3>1. ~(q = r /\ t = s)
      BY <2>2
    <3>2. archive'[r][s] = archive[r][s]
      BY <2>2, <3>1 DEF TypeOK
    <3> QED BY <2>2, <3>2 DEF Settled
  <2> QED BY <2>1, <2>2 DEF Settled
<1> QED BY <1>1, <1>2 DEF Retired

LEMMA LiveTypes ==
  ASSUME TypeOK, NEW r \in Regions, NEW cs, NEW s \in Seasons
  PROVE  /\ Holding(r, cs, s) \in [Regions -> [Names -> SUBSET Seasons]]
         /\ Lacking(r, cs, s) \in [Regions -> [Names -> SUBSET Seasons]]
         /\ \A q \in Regions, c \in Names :
              /\ Holding(r, cs, s)[q][c] =
                   IF q = r /\ c \in cs /\ s < MaxSeason THEN live[q][c] \cup {s} ELSE live[q][c]
              /\ Lacking(r, cs, s)[q][c] = IF q = r /\ c \in cs THEN live[q][c] \ {s} ELSE live[q][c]
<1>1. live \in [Regions -> [Names -> SUBSET Seasons]]
  BY DEF TypeOK
<1> QED BY <1>1 DEF Holding, Lacking

LEMMA NoTickTyped ==
  /\ NoTick \in TickType /\ NoTick.at = "idle" /\ NoTick.stale = {} /\ NoTick.archived = {}
  /\ NoTick.candidates = {} /\ NoTick.unread = {} /\ NoTick.target = <<>> /\ NoTick.step = 1
BY CollectionsInOrder DEF NoTick, TickType

LEMMA PurgeStarts == Init => PurgeInv
<1> SUFFICES ASSUME Init PROVE PurgeInv
  OBVIOUS
<1>1. TypeOK
  BY Bounds, NoTickTyped DEF Init, TypeOK, TickType, Markers, NoSweep
<1>2. TickSound
  BY NoTickTyped DEF Init, TickSound
<1>3. OrphansRetired
  BY NamesApart DEF Init, OrphansRetired, NoSweep
<1> QED BY <1>1, <1>2, <1>3 DEF PurgeInv

(* PurgeNext goes on to a pair of its candidates, or ends the tick.          *)
LEMMA PurgeGoesOn ==
  ASSUME NEW cs \in SUBSET Pairs, PurgeNext(cs)
  PROVE  /\ tick' \in TickType
         /\ tick'.stale = {} /\ tick'.archived = {} /\ tick'.unread = {} /\ tick'.step = 1
         /\ tick'.candidates \subseteq cs
         /\ \/ tick' = NoTick
            \/ tick'.at = "purging" /\ tick'.target \in cs
<1>1. CASE cs = {} /\ tick' = NoTick
  BY <1>1, NoTickTyped
<1>2. ASSUME NEW p \in cs,
             tick' = [NoTick EXCEPT !.at = "purging", !.target = p, !.candidates = cs \ {p}]
      PROVE  /\ tick' \in TickType /\ tick'.at = "purging" /\ tick'.target = p
             /\ tick'.stale = {} /\ tick'.archived = {} /\ tick'.unread = {} /\ tick'.step = 1
             /\ tick'.candidates = cs \ {p}
  <2>1. tick' = [at |-> "purging", stale |-> {}, archived |-> {}, unread |-> {},
                 candidates |-> cs \ {p}, target |-> p, step |-> 1]
    BY <1>2 DEF NoTick
  <2>2. p \in Pairs /\ cs \ {p} \in SUBSET Pairs /\ 1 \in 1..Len(Collections) + 1
    BY CollectionsInOrder
  <2> QED BY <2>1, <2>2 DEF TickType
<1> QED BY <1>1, <1>2 DEF PurgeNext

LEMMA NoPairEmpty == \A p \in Pairs : p # <<>> /\ p[1] \in Regions /\ p[2] \in Seasons
BY DEF Pairs

(* What a step of the tick does to the tick.                                 *)
LEMMA TickStepSound ==
  ASSUME PurgeInv, TickStep \/ TickInterrupted
  PROVE  TickSound' /\ (tick'.at = "purging" <=> tick'.target # <<>>)
<1>0. /\ TypeOK /\ TickSound /\ tick \in TickType /\ playing' = playing /\ archive' = archive
      /\ \A r, s : Retired(r, s)' <=> Retired(r, s)
  <2>1. playing' = playing /\ archive' = archive
    BY Zenon DEF TickStep, upstream, TickStarts, ReadMarkers, ReadBoard, Planned, DeleteNext,
       RecordPurge, TickInterrupted
  <2> QED BY <2>1 DEF PurgeInv, TickSound, Retired, Settled
<1> DEFINE Goal == TickSound' /\ (tick'.at = "purging" <=> tick'.target # <<>>)
<1>1. ASSUME tick' = NoTick PROVE Goal
  BY <1>1, NoTickTyped DEF TickSound
<1>2. CASE TickStarts
  <2> DEFINE stale == {p \in Pairs : p[2] \in Superseded(p[1])}
  <2>1. \A p \in stale : p[2] < playing[p[1]]
    <3> SUFFICES ASSUME NEW p \in stale PROVE p[2] < playing[p[1]]
      OBVIOUS
    <3>1. p[2] \in Seasons /\ p[1] \in Regions /\ p[2] < observed[p[1]] /\ playing[p[1]] >= observed[p[1]]
      BY NoPairEmpty DEF Superseded
    <3>2. observed[p[1]] \in Int /\ playing[p[1]] \in Int /\ p[2] \in Int
      <4>1. observed[p[1]] \in Seasons \cup {None} /\ playing[p[1]] \in Seasons
        BY <1>0, <3>1 DEF TypeOK
      <4>2. \A n \in Seasons \cup {None} : n \in Int
        BY Bounds DEF None
      <4> QED BY <3>1, <4>1, <4>2
    <3> QED BY <3>1, <3>2
  <2>2. tick' = [NoTick EXCEPT !.at = "markers", !.stale = stale] /\ stale \subseteq Pairs
    BY <1>2 DEF TickStarts
  <2> HIDE DEF stale
  <2>3. /\ tick' \in TickType /\ tick'.at = "markers" /\ tick'.stale = stale /\ tick'.archived = {}
        /\ tick'.candidates = {} /\ tick'.target = <<>>
    BY <2>2, NoTickTyped DEF TickType
  <2> QED BY <1>0, <2>1, <2>3 DEF TickSound
<1>3. CASE ReadMarkers
  <2> DEFINE held == IF RequireArchive THEN CompletedArchives ELSE Pairs
             let == {p \in held : p[2] \notin purged[p[1]]}
  <2>1. let \subseteq Pairs /\ \A p \in let : RequireArchive => Settled(p[1], p[2])
    BY DEF CompletedArchives, Settled
  <2>2. tick' = [tick EXCEPT !.at = "boards", !.unread = Regions, !.archived = let]
    BY <1>3 DEF ReadMarkers
  <2> HIDE DEF let
  <2>3. /\ tick' \in TickType /\ tick'.at = "boards" /\ tick'.stale = tick.stale /\ tick'.archived = let
        /\ tick'.candidates = tick.candidates /\ tick'.target = tick.target
    BY <1>0, <2>1, <2>2 DEF TickType
  <2>4. tick.at = "markers" /\ tick.target = <<>>
    BY <1>0, <1>3 DEF ReadMarkers, TypeOK
  <2> QED BY <1>0, <2>1, <2>3, <2>4 DEF TickSound, Settled
<1>4. ASSUME NEW r \in Regions, ReadBoard(r) PROVE Goal
  <2> DEFINE found == ({r} \X live[r]["characters"]) \cap tick.stale \cap tick.archived
  <2>1. found \subseteq Pairs /\ \A p \in found : Retired(p[1], p[2])
    BY <1>0 DEF TickSound, TickType, Retired
  <2>2. tick' = [tick EXCEPT !.unread = @ \ {r}, !.candidates = @ \cup found]
    BY <1>4 DEF ReadBoard
  <2> HIDE DEF found
  <2>3. /\ tick' \in TickType /\ tick'.at = tick.at /\ tick'.stale = tick.stale
        /\ tick'.archived = tick.archived /\ tick'.candidates = tick.candidates \cup found
        /\ tick'.target = tick.target
    BY <1>0, <2>1, <2>2 DEF TickType
  <2>4. tick.at = "boards" /\ tick.target = <<>>
    BY <1>0, <1>4 DEF ReadBoard, TypeOK
  <2> QED BY <1>0, <2>1, <2>3, <2>4 DEF TickSound, Settled
<1>5. ASSUME PurgeNext(tick.candidates) PROVE Goal
  <2>1. tick.candidates \in SUBSET Pairs /\ \A p \in tick.candidates : Retired(p[1], p[2])
    BY <1>0 DEF TickSound, TickType
  <2>2. /\ tick' \in TickType /\ tick'.stale = {} /\ tick'.archived = {}
        /\ tick'.candidates \subseteq tick.candidates
        /\ tick' = NoTick \/ (tick'.at = "purging" /\ tick'.target \in tick.candidates)
    BY <1>5, <2>1, PurgeGoesOn
  <2> QED BY <1>0, <1>1, <2>1, <2>2, NoPairEmpty DEF TickSound
<1>6. CASE DeleteNext
  <2>1. tick' = [tick EXCEPT !.step = @ + 1] /\ tick.at = "purging" /\ tick.step <= Len(Collections)
    BY <1>6 DEF DeleteNext
  <2>2. tick.step + 1 \in 1..Len(Collections) + 1
    BY <1>0, <2>1, CollectionsInOrder DEF TickType
  <2>3. /\ tick' \in TickType /\ tick'.at = tick.at /\ tick'.stale = tick.stale
        /\ tick'.archived = tick.archived /\ tick'.candidates = tick.candidates
        /\ tick'.target = tick.target
    BY <1>0, <2>1, <2>2 DEF TickType
  <2> QED BY <1>0, <2>1, <2>3 DEF TickSound, TypeOK, Settled
<1> QED BY <1>1, <1>2, <1>3, <1>4, <1>5, <1>6
     DEF TickStep, Planned, RecordPurge, TickInterrupted

LEMMA PurgeTypeStep == PurgeInv /\ [Next]_vars => TypeOK'
<1> SUFFICES ASSUME PurgeInv, [Next]_vars PROVE TypeOK'
  OBVIOUS
<1>0. /\ TypeOK /\ tick \in TickType
      /\ live \in [Regions -> [Names -> SUBSET Seasons]]
  BY DEF PurgeInv, TickSound, TypeOK
<1>1. CASE UNCHANGED vars
  BY <1>0, <1>1 DEF vars, TypeOK
<1>2. ASSUME NEW r \in Regions, SeasonEnds(r) \/ SeasonListed(r) \/ SeasonStarts(r) PROVE TypeOK'
  <2>1. \A n \in Seasons : n < MaxSeason => n + 1 \in Seasons
    BY Bounds DEF Seasons
  <2>2. /\ listed' \in [Regions -> Seasons] /\ playing' \in [Regions -> Seasons]
        /\ over' \in [Regions -> BOOLEAN]
    <3>1. /\ listed \in [Regions -> Seasons] /\ playing \in [Regions -> Seasons]
          /\ over \in [Regions -> BOOLEAN]
      BY <1>0 DEF TypeOK
    <3>2. CASE SeasonEnds(r)
      BY <3>1, <3>2 DEF SeasonEnds
    <3>3. CASE SeasonListed(r)
      BY <2>1, <3>1, <3>3 DEF SeasonListed
    <3>4. CASE SeasonStarts(r)
      BY <2>1, <3>1, <3>4 DEF SeasonStarts
    <3> QED BY <1>2, <3>2, <3>3, <3>4
  <2>3. UNCHANGED ours
    BY <1>2 DEF SeasonEnds, SeasonListed, SeasonStarts
  <2> QED BY <1>0, <2>2, <2>3 DEF ours, TypeOK
<1>3. ASSUME NEW r \in Regions, Refresh(r) PROVE TypeOK'
  BY <1>0, <1>3 DEF Refresh, upstream, TypeOK
<1>4. ASSUME NEW r \in Regions, SweepStarts(r) PROVE TypeOK'
  BY <1>0, <1>4 DEF SweepStarts, upstream, TypeOK
<1>5. ASSUME NEW r \in Regions, Snapshot(r) PROVE TypeOK'
  <2>1. PICK s \in {listed[r], observed[r]} \ {None} :
          /\ observed' = IF s = listed[r] THEN [observed EXCEPT ![r] = s] ELSE observed
          /\ live' = Holding(r, {"spec_representation"}, s)
    BY <1>5 DEF Snapshot
  <2>2. s \in Seasons
    BY <1>0, <2>1, Bounds DEF TypeOK
  <2>3. live' \in [Regions -> [Names -> SUBSET Seasons]]
    BY <1>0, <2>1, <2>2, LiveTypes
  <2>4. observed' \in [Regions -> Seasons \cup {None}]
    BY <1>0, <2>1, <2>2 DEF TypeOK
  <2> QED BY <1>0, <1>5, <2>3, <2>4 DEF Snapshot, upstream, TypeOK
<1>6. ASSUME NEW r \in Regions, NEW s \in Seasons,
             ArchiveWhole(r, s) \/ ArchivePart(r, s) \/ MarkUnarchivable(r, s)
      PROVE  TypeOK'
  <2>1. PICK m \in Markers : Mark(r, s, m)
    BY <1>6 DEF ArchiveWhole, ArchivePart, MarkUnarchivable, Markers
  <2>2. archive' \in [Regions -> [Seasons -> Markers]]
    BY <1>0, <2>1 DEF Mark, TypeOK
  <2> QED BY <1>0, <2>1, <2>2 DEF Mark, upstream, TypeOK
<1>7. CASE SweepRanks \/ SweepRates \/ SweepEnds
  <2>1. sweep \in [at : {"fetched", "ranked"}, region : Regions, season : Seasons]
    BY <1>0, <1>7 DEF SweepRanks, SweepRates, SweepEnds, TypeOK, NoSweep
  <2>2. sweep' \in {NoSweep} \cup [at : {"fetched", "ranked"}, region : Regions, season : Seasons]
    BY <1>7, <2>1 DEF SweepRanks, SweepRates, SweepEnds
  <2>3. sweep.region \in Regions /\ sweep.season \in Seasons
    BY <2>1
  <2>4. \/ live' = Holding(sweep.region, {"characters"}, sweep.season)
        \/ live' = Holding(sweep.region, Ratings, sweep.season)
        \/ live' = Lacking(sweep.region, Ratings, sweep.season)
        \/ live' = live
    BY <1>7 DEF SweepRanks, SweepRates, SweepEnds
  <2>5. live' \in [Regions -> [Names -> SUBSET Seasons]]
    BY <1>0, <2>3, <2>4, LiveTypes
  <2> QED BY <1>0, <1>7, <2>2, <2>5 DEF SweepRanks, SweepRates, SweepEnds, upstream, TypeOK
<1>8. CASE TickStep \/ TickInterrupted
  <2>1. tick' \in TickType /\ (tick'.at = "purging" <=> tick'.target # <<>>)
    BY <1>8, TickStepSound DEF TickSound
  <2>2. UNCHANGED upstream /\ UNCHANGED <<observed, sweep, archive>>
    BY <1>8, Zenon DEF TickStep, TickStarts, ReadMarkers, ReadBoard, Planned, DeleteNext, RecordPurge,
       TickInterrupted
  <2>3. tick.at = "purging" => tick.target \in Pairs
    BY <1>0 DEF TypeOK
  <2>4. live' \in [Regions -> [Names -> SUBSET Seasons]]
    <3>1. CASE DeleteNext
      BY <1>0, <2>3, <3>1, LiveTypes, NoPairEmpty DEF DeleteNext
    <3> QED BY <1>0, <1>8, <3>1 DEF TickStep, TickStarts, ReadMarkers, ReadBoard, Planned, RecordPurge,
       TickInterrupted
  <2>5. purged' \in [Regions -> SUBSET Seasons]
    <3>1. CASE RecordPurge
      <4>1. tick.target[1] \in Regions /\ tick.target[2] \in Seasons
        BY <2>3, <3>1, NoPairEmpty DEF RecordPurge
      <4> QED BY <1>0, <3>1, <4>1 DEF RecordPurge, TypeOK
    <3>2. purged \in [Regions -> SUBSET Seasons]
      BY <1>0 DEF TypeOK
    <3> QED BY <1>8, <3>1, <3>2 DEF TickStep, TickStarts, ReadMarkers, ReadBoard, Planned, DeleteNext,
       TickInterrupted
  <2>6. interruptions' \in 0..MaxInterruptions
    <3>1. interruptions \in 0..MaxInterruptions
      BY <1>0 DEF TypeOK
    <3>2. CASE TickInterrupted
      BY <3>1, <3>2, Bounds DEF TickInterrupted
    <3> QED BY <1>8, <3>1, <3>2 DEF TickStep, TickStarts, ReadMarkers, ReadBoard, Planned, DeleteNext,
       RecordPurge
  <2>8. disturbed' \subseteq Pairs
    <3>1. disturbed \subseteq Pairs
      BY <1>0 DEF TypeOK
    <3>2. CASE DeleteNext
      BY <2>3, <3>1, <3>2 DEF DeleteNext
    <3> QED BY <1>8, <3>1, <3>2 DEF TickStep, TickStarts, ReadMarkers, ReadBoard, Planned, RecordPurge,
       TickInterrupted
  <2>7. /\ {tick'.stale, tick'.archived, tick'.candidates} \subseteq SUBSET Pairs
        /\ tick'.unread \subseteq Regions /\ tick'.target \in Pairs \cup {<<>>}
        /\ tick'.step \in 1..Len(Collections) + 1
        /\ tick'.at \in {"idle", "markers", "boards", "purging"}
    BY <2>1 DEF TickType
  <2> QED BY <1>0, <2>1, <2>2, <2>4, <2>5, <2>6, <2>7, <2>8 DEF upstream, TypeOK
<1> QED BY <1>1, <1>2, <1>3, <1>4, <1>5, <1>6, <1>7, <1>8 DEF Next

LEMMA TickSoundStep == PurgeInv /\ [Next]_vars => TickSound'
<1> SUFFICES ASSUME PurgeInv, [Next]_vars PROVE TickSound'
  OBVIOUS
<1>0. TypeOK /\ TickSound /\ tick \in TickType
  BY DEF PurgeInv, TickSound
<1>1. CASE TickStep \/ TickInterrupted
  BY <1>1, TickStepSound
<1>2. CASE UNCHANGED tick
  <2>1. \A p \in Pairs : /\ p[2] < playing[p[1]] => p[2] < playing'[p[1]]
                         /\ Settled(p[1], p[2]) => Settled(p[1], p[2])'
                         /\ Retired(p[1], p[2]) => Retired(p[1], p[2])'
    BY <1>0, RetiredStays, NoPairEmpty
  <2>2. /\ tick.stale \subseteq Pairs /\ tick.archived \subseteq Pairs /\ tick.candidates \subseteq Pairs
        /\ tick.at = "purging" => tick.target \in Pairs
    BY <1>0 DEF TickType, TypeOK
  <2> QED BY <1>0, <1>2, <2>1, <2>2 DEF TickSound
<1>3. TickStep \/ TickInterrupted \/ UNCHANGED tick
  BY Zenon DEF Next, vars, ours, SeasonEnds, SeasonListed, SeasonStarts, Refresh, Snapshot, SweepStarts,
     ArchiveWhole, ArchivePart, MarkUnarchivable, Mark, SweepRanks, SweepRates, SweepEnds
<1> QED BY <1>1, <1>2, <1>3

(* The places of a purge and of a sweep that change the collections.         *)
LEMMA PlacesKnown ==
  ASSUME PurgeInv
  PROVE  /\ sweep # NoSweep => sweep.region \in Regions /\ sweep.season \in Seasons
         /\ sweep.at \in {"fetched", "ranked"} => sweep # NoSweep
         /\ tick.at = "purging" => /\ tick.target[1] \in Regions /\ tick.target[2] \in Seasons
                                   /\ Retired(tick.target[1], tick.target[2])
<1>1. TypeOK /\ TickSound
  BY DEF PurgeInv
<1>2. sweep # NoSweep => sweep.region \in Regions /\ sweep.season \in Seasons
  BY <1>1 DEF TypeOK
<1>3. sweep.at \in {"fetched", "ranked"} => sweep # NoSweep
  BY DEF NoSweep
<1>4. tick.at = "purging" => tick.target \in Pairs
  BY <1>1 DEF TypeOK
<1> QED BY <1>1, <1>2, <1>3, <1>4, NoPairEmpty DEF TickSound

(* What a step takes away or adds, and when.  The end of a sweep takes away  *)
(* only rows that have no characters.                                        *)
LEMMA RowsMove ==
  ASSUME PurgeInv, [Next]_vars, NEW r \in Regions, NEW c \in Names, NEW s \in Seasons
  PROVE  /\ Removes(r, c, s) =>
              \/ DeleteNext /\ <<r, s>> = tick.target /\ c = Collections[tick.step] /\ Retired(r, s)
              \/ SweepEnds /\ c \in Ratings /\ s \notin live[r]["characters"]
         /\ s \notin live[r][c] /\ s \in live'[r][c] =>
              \/ SweepRanks /\ c = "characters"
              \/ SweepRates /\ c \in Ratings /\ r = sweep.region /\ s = sweep.season /\ s < MaxSeason
              \/ c = "spec_representation"
<1> DEFINE Goal ==
      /\ Removes(r, c, s) =>
           \/ DeleteNext /\ <<r, s>> = tick.target /\ c = Collections[tick.step] /\ Retired(r, s)
           \/ SweepEnds /\ c \in Ratings /\ s \notin live[r]["characters"]
      /\ s \notin live[r][c] /\ s \in live'[r][c] =>
           \/ SweepRanks /\ c = "characters"
           \/ SweepRates /\ c \in Ratings /\ r = sweep.region /\ s = sweep.season /\ s < MaxSeason
           \/ c = "spec_representation"
<1>0. TypeOK
  BY DEF PurgeInv
<1>8. live \in [Regions -> [Names -> SUBSET Seasons]]
  BY <1>0 DEF TypeOK
<1>1. ASSUME live' = live PROVE Goal
  BY <1>1 DEF Removes
<1>2. ASSUME NEW q \in Regions, Snapshot(q) PROVE Goal
  <2>1. PICK t \in {listed[q], observed[q]} \ {None} : live' = Holding(q, {"spec_representation"}, t)
    BY <1>2 DEF Snapshot
  <2>2. t \in Seasons
    BY <1>0, <2>1, Bounds DEF TypeOK
  <2>3. live'[r][c] = IF r = q /\ c \in {"spec_representation"} /\ t < MaxSeason
                        THEN live[r][c] \cup {t} ELSE live[r][c]
    BY <1>8, <2>1, <2>2 DEF Holding
  <2> QED BY <2>3 DEF Removes
<1>3. CASE SweepRanks
  <2>1. sweep.region \in Regions /\ sweep.season \in Seasons
        /\ live' = Holding(sweep.region, {"characters"}, sweep.season)
    BY <1>3, PlacesKnown DEF SweepRanks
  <2>2. live'[r][c] = IF r = sweep.region /\ c \in {"characters"} /\ sweep.season < MaxSeason
                        THEN live[r][c] \cup {sweep.season} ELSE live[r][c]
    BY <1>8, <2>1 DEF Holding, Lacking
  <2> QED BY <1>3, <2>2 DEF Removes
<1>4. CASE SweepRates
  <2>1. sweep.region \in Regions /\ sweep.season \in Seasons
        /\ live' = Holding(sweep.region, Ratings, sweep.season)
    BY <1>4, PlacesKnown DEF SweepRates
  <2>2. live'[r][c] = IF r = sweep.region /\ c \in Ratings /\ sweep.season < MaxSeason
                        THEN live[r][c] \cup {sweep.season} ELSE live[r][c]
    BY <1>8, <2>1 DEF Holding, Lacking
  <2> QED BY <1>4, <2>2 DEF Removes
<1>5. ASSUME SweepEnds, live' # live PROVE Goal
  <2>1. sweep.region \in Regions /\ sweep.season \in Seasons
        /\ live' = Lacking(sweep.region, Ratings, sweep.season)
        /\ sweep.season \notin live[sweep.region]["characters"]
    BY <1>5, PlacesKnown DEF SweepEnds
  <2>2. live'[r][c] = IF r = sweep.region /\ c \in Ratings THEN live[r][c] \ {sweep.season} ELSE live[r][c]
    BY <1>8, <2>1 DEF Holding, Lacking
  <2> QED BY <1>5, <2>1, <2>2 DEF Removes
<1>6. ASSUME DeleteNext, live' # live PROVE Goal
  <2> DEFINE q == tick.target[1]
             t == tick.target[2]
  <2>1. /\ q \in Regions /\ t \in Seasons /\ Retired(q, t) /\ <<q, t>> = tick.target
        /\ live' = Lacking(q, {Collections[tick.step]}, t)
    <3>1. tick.target \in Pairs
      BY <1>0, <1>6 DEF DeleteNext, TypeOK
    <3>2. <<q, t>> = tick.target
      BY <3>1 DEF Pairs
    <3> QED BY <1>6, <3>2, PlacesKnown DEF DeleteNext
  <2> HIDE DEF q, t
  <2>2. live'[r][c] = IF r = q /\ c \in {Collections[tick.step]} THEN live[r][c] \ {t} ELSE live[r][c]
    BY <1>8, <2>1 DEF Holding, Lacking
  <2> QED BY <1>6, <2>1, <2>2 DEF Removes
<1>7. \/ live' = live \/ (\E q \in Regions : Snapshot(q)) \/ SweepEnds \/ DeleteNext \/ SweepRanks \/ SweepRates
  BY Zenon DEF Next, vars, ours, SeasonEnds, SeasonListed, SeasonStarts, Refresh, SweepStarts,
     ArchiveWhole, ArchivePart, MarkUnarchivable, Mark, TickStep, TickStarts, ReadMarkers, ReadBoard,
     Planned, RecordPurge, TickInterrupted
<1> QED BY <1>1, <1>2, <1>3, <1>4, <1>5, <1>6, <1>7

(* The characters of a season stay until it may go.                          *)
Kept(r, s) == s \in live[r]["characters"] \/ Retired(r, s)

LEMMA KeptStays ==
  ASSUME PurgeInv, [Next]_vars, NEW r \in Regions, NEW s \in Seasons, Kept(r, s)
  PROVE  Kept(r, s)'
<1>1. TypeOK /\ "characters" \in Names /\ "characters" \notin Ratings
  BY NamesApart DEF PurgeInv
<1>2. Retired(r, s) => Retired(r, s)'
  BY <1>1, RetiredStays
<1>3. Removes(r, "characters", s) => Retired(r, s)
  BY <1>1, RowsMove
<1> QED BY <1>2, <1>3 DEF Kept, Removes

LEMMA OrphansStep == PurgeInv /\ [Next]_vars => OrphansRetired'
<1> SUFFICES ASSUME PurgeInv, [Next]_vars PROVE OrphansRetired'
  OBVIOUS
<1>0. /\ TypeOK /\ OrphansRetired /\ Ratings \subseteq Names
      /\ \A c \in Ratings : c # "characters" /\ c # "spec_representation"
  BY NamesApart DEF PurgeInv
<1>1. ASSUME NEW r \in Regions, NEW c \in Ratings, NEW s \in Seasons, s \in live'[r][c]
      PROVE  Kept(r, s)'
  <2>1. CASE s \in live[r][c]
    BY <1>0, <2>1, KeptStays DEF OrphansRetired, Kept
  <2>2. CASE s \notin live[r][c]
    <3>1. SweepRates /\ r = sweep.region /\ s = sweep.season /\ s < MaxSeason
      BY <1>0, <1>1, <2>2, RowsMove
    <3>2. Kept(r, s)
      BY <1>0, <3>1 DEF SweepRates, OrphansRetired, Kept
    <3> QED BY <3>2, KeptStays
  <2> QED BY <2>1, <2>2
<1>2. ASSUME sweep'.at = "ranked", sweep'.season < MaxSeason
      PROVE  Kept(sweep.region, sweep.season)' /\ sweep'.region = sweep.region /\ sweep'.season = sweep.season
  <2>1. CASE SweepRanks
    <3> DEFINE q == sweep.region
               t == sweep.season
    <3>1. q \in Regions /\ t \in Seasons /\ live' = Holding(q, {"characters"}, t)
      BY <2>1, PlacesKnown DEF SweepRanks
    <3>2. sweep'.region = q /\ sweep'.season = t
      BY <1>0, <2>1 DEF TypeOK, SweepRanks, NoSweep
    <3>3. live'[q]["characters"] = live[q]["characters"] \cup {t}
      BY <1>0, <1>2, <3>1, <3>2, NamesApart DEF Holding, TypeOK
    <3> QED BY <3>2, <3>3 DEF Kept
  <2>2. CASE sweep' = sweep
    <3>1. sweep.region \in Regions /\ sweep.season \in Seasons /\ Kept(sweep.region, sweep.season)
      BY <1>0, <1>2, <2>2, PlacesKnown DEF OrphansRetired, Kept
    <3> QED BY <2>2, <3>1, KeptStays
  <2>3. CASE SweepEnds \/ \E r \in Regions : SweepStarts(r)
    <3>1. sweep' \in {NoSweep} \cup [at : {"fetched"}, region : Regions, season : Seasons]
      BY <1>0, <2>3 DEF SweepEnds, SweepStarts, TypeOK, NoSweep
    <3> QED BY <1>2, <3>1 DEF NoSweep
  <2> QED BY <2>1, <2>2, <2>3, Zenon DEF Next, vars, ours, SeasonEnds, SeasonListed, SeasonStarts,
     Refresh, Snapshot, SweepRates,
       ArchiveWhole, ArchivePart, MarkUnarchivable, Mark, TickStep, TickStarts, ReadMarkers, ReadBoard,
       Planned, DeleteNext, RecordPurge, TickInterrupted
<1> QED BY <1>1, <1>2 DEF OrphansRetired, Kept

(* The invariant the theorems below rest on holds at every moment.          *)
THEOREM PurgeInvHolds == Spec => []PurgeInv
<1>1. PurgeInv /\ [Next]_vars => PurgeInv'
  BY PurgeTypeStep, TickSoundStep, OrphansStep DEF PurgeInv
<1> QED BY PurgeStarts, <1>1, PTL DEF Spec

LEMMA OnlyRetiredGoes ==
  ASSUME PurgeInv, [Next]_vars, NEW r \in Regions, NEW c \in Names, NEW s \in Seasons, Removes(r, c, s)
  PROVE  Retired(r, s)
<1>1. CASE SweepEnds /\ c \in Ratings /\ s \notin live[r]["characters"]
  BY <1>1 DEF Removes, PurgeInv, OrphansRetired
<1> QED BY <1>1, RowsMove

(* A board stays until the next season has started where it is played: no    *)
(* tick, however often broken off, and no end of a sweep takes it away       *)
(* before.                                                                   *)
THEOREM BoardsStayUntilSuperseded == Spec => LiveBoardKept
<1>1. PurgeInv /\ [Next]_vars =>
        \A r \in Regions, c \in Names, s \in Seasons : Removes(r, c, s) => s < playing[r]
  BY OnlyRetiredGoes DEF Retired
<1> QED BY PurgeInvHolds, <1>1, PTL DEF Spec, LiveBoardKept

(* With the interlock on, nothing leaves the live collections that the       *)
(* archive has not done with, although the markers are read long before the  *)
(* deletes.                                                                  *)
THEOREM ArchiveComesFirst == Spec => NothingRetiredUnsettled
<1>1. PurgeInv /\ [Next]_vars =>
        (RequireArchive => \A r \in Regions, c \in Names, s \in Seasons :
                             Removes(r, c, s) => Settled(r, s))
  BY OnlyRetiredGoes DEF Retired
<1> QED BY PurgeInvHolds, <1>1, PTL DEF Spec, NothingRetiredUnsettled

-----------------------------------------------------------------------------
(* The order of the deletes.                                                 *)

(* No index falls behind the season that is played: so a sweep that starts   *)
(* during a purge is not of its target, and one that is of it was there      *)
(* before the first delete.                                                  *)
IndexKeepsUp == \A r \in Regions : playing[r] <= listed[r]

(* Behind the step of a purge the target has no rows; a dry run deletes      *)
(* nothing, the characters included.                                         *)
DeletedInOrder ==
  tick.at = "purging" /\ ~DryRun /\ tick.target \notin disturbed =>
    \A i \in 1..Len(Families) : i < tick.step => tick.target[2] \notin live[tick.target[1]][Families[i]]

(* A sweep of the target has been noticed by the first delete.               *)
SweepNoticed == tick.at = "purging" /\ tick.step > 1 => {tick.target} \cap Swept \subseteq disturbed

RanksFirst ==
  sweep.at = "ranked" /\ sweep.season < MaxSeason /\ <<sweep.region, sweep.season>> \notin disturbed =>
    sweep.season \in live[sweep.region]["characters"]

RowsHaveCharacters ==
  \A r \in Regions, c \in Ratings, s \in Seasons :
    s \in live[r][c] => s \in live[r]["characters"] \/ <<r, s>> \in disturbed

OrderInv == IndexKeepsUp /\ DeletedInOrder /\ SweepNoticed /\ RanksFirst /\ RowsHaveCharacters

LEMMA IndexStep == TypeOK /\ IndexKeepsUp /\ [Next]_vars => IndexKeepsUp'
<1> SUFFICES ASSUME TypeOK, IndexKeepsUp, [Next]_vars, NEW r \in Regions PROVE playing'[r] <= listed'[r]
  BY DEF IndexKeepsUp
<1>1. /\ listed \in [Regions -> Seasons] /\ playing \in [Regions -> Seasons] /\ playing[r] <= listed[r]
      /\ playing[r] \in Nat /\ listed[r] \in Nat
  BY Bounds DEF TypeOK, IndexKeepsUp
<1>2. \/ playing' = playing /\ listed' = listed
      \/ \E q \in Regions : SeasonListed(q) \/ SeasonStarts(q)
  BY Zenon DEF Next, vars, upstream, SeasonEnds, Refresh, Snapshot, SweepStarts, ArchiveWhole,
     ArchivePart, MarkUnarchivable, Mark, SweepRanks, SweepRates, SweepEnds, TickStep, TickStarts,
     ReadMarkers, ReadBoard, Planned, DeleteNext, RecordPurge, TickInterrupted
<1>3. ASSUME NEW q \in Regions, SeasonListed(q) PROVE playing'[r] <= listed'[r]
  BY <1>1, <1>3 DEF SeasonListed
<1>4. ASSUME NEW q \in Regions, SeasonStarts(q) PROVE playing'[r] <= listed'[r]
  BY <1>1, <1>4 DEF SeasonStarts
<1> QED BY <1>1, <1>2, <1>3, <1>4

(* What a step does to the sweep, to the place of a purge and to the history. *)
LEMMA PlacesMove ==
  ASSUME PurgeInv, [Next]_vars
  PROVE  /\ \/ sweep' = sweep
            \/ sweep' = NoSweep
            \/ SweepRanks
            \/ tick' = tick /\ \E r \in Regions : SweepStarts(r)
         /\ \/ tick' = tick
            \/ DeleteNext
            \/ sweep' = sweep /\ (tick'.at = "purging" => tick'.step = 1)
         /\ DeleteNext \/ disturbed' = disturbed
<1>1. TypeOK /\ TickSound /\ tick.candidates \in SUBSET Pairs
  BY DEF PurgeInv, TickSound, TickType
<1>2. \/ sweep' = sweep
      \/ sweep' = NoSweep
      \/ SweepRanks
      \/ tick' = tick /\ \E r \in Regions : SweepStarts(r)
  BY Zenon DEF Next, vars, ours, SeasonEnds, SeasonListed, SeasonStarts, Refresh, Snapshot, SweepStarts,
     ArchiveWhole, ArchivePart, MarkUnarchivable, Mark, SweepRates, SweepEnds, TickStep, TickStarts,
     ReadMarkers, ReadBoard, Planned, DeleteNext, RecordPurge, TickInterrupted
<1>3. DeleteNext \/ disturbed' = disturbed
  BY Zenon DEF Next, vars, ours, SeasonEnds, SeasonListed, SeasonStarts, Refresh, Snapshot, SweepStarts,
     ArchiveWhole, ArchivePart, MarkUnarchivable, Mark, SweepRanks, SweepRates, SweepEnds, TickStep,
     TickStarts, ReadMarkers, ReadBoard, Planned, RecordPurge, TickInterrupted
<1>4. \/ tick' = tick
      \/ DeleteNext
      \/ sweep' = sweep /\ PurgeNext(tick.candidates)
      \/ /\ sweep' = sweep
         /\ TickStarts \/ ReadMarkers \/ (\E r \in Regions : ReadBoard(r)) \/ TickInterrupted
  BY Zenon DEF Next, vars, ours, SeasonEnds, SeasonListed, SeasonStarts, Refresh, Snapshot, SweepStarts,
     ArchiveWhole, ArchivePart, MarkUnarchivable, Mark, SweepRanks, SweepRates, SweepEnds, TickStep,
     TickStarts, ReadMarkers, ReadBoard, Planned, RecordPurge, TickInterrupted
<1>5. PurgeNext(tick.candidates) => tick'.step = 1
  BY <1>1, PurgeGoesOn
<1>6. TickStarts \/ ReadMarkers \/ (\E r \in Regions : ReadBoard(r)) \/ TickInterrupted
        => tick'.at # "purging"
  BY <1>1, NoTickTyped DEF TickStarts, ReadMarkers, ReadBoard, TickInterrupted, TickSound, TickType,
     NoTick
<1> QED BY <1>2, <1>3, <1>4, <1>5, <1>6

(* A sweep that starts is of no season that may go.                          *)
LEMMA SweepsSpareTheRetired ==
  ASSUME PurgeInv, IndexKeepsUp, NEW r \in Regions, SweepStarts(r), tick.at = "purging"
  PROVE  tick.target \notin Swept'
<1>1. sweep' = [at |-> "fetched", region |-> r, season |-> listed[r]]
  BY DEF SweepStarts
<1>2. Swept' \subseteq {<<r, listed[r]>>}
  BY <1>1 DEF Swept
<1>3. playing[r] <= listed[r] /\ playing[r] \in Nat /\ listed[r] \in Nat
  BY Bounds DEF PurgeInv, TypeOK, IndexKeepsUp
<1>4. tick.target[1] = r => tick.target[2] < playing[r] /\ tick.target[2] \in Nat
  BY PlacesKnown, Bounds DEF Retired
<1> QED BY <1>2, <1>3, <1>4

LEMMA SweepNoticedStep == PurgeInv /\ OrderInv /\ [Next]_vars => SweepNoticed'
<1> SUFFICES ASSUME PurgeInv, OrderInv, [Next]_vars, tick'.at = "purging", tick'.step > 1
             PROVE  {tick'.target} \cap Swept' \subseteq disturbed'
  BY DEF SweepNoticed
<1>1. disturbed \subseteq disturbed'
  BY PlacesMove DEF DeleteNext
<1>2. Swept' \subseteq Swept \/ (tick' = tick /\ \E r \in Regions : SweepStarts(r))
  <2>1. SweepRanks => Swept' = Swept
    <3> SUFFICES ASSUME SweepRanks PROVE Swept' = Swept
      OBVIOUS
    <3>1. sweep # NoSweep /\ sweep' = [sweep EXCEPT !.at = "ranked"]
      BY DEF SweepRanks
    <3>2. sweep \in [at : {"fetched", "ranked"}, region : Regions, season : Seasons]
      BY <3>1 DEF PurgeInv, TypeOK
    <3>3. sweep'.region = sweep.region /\ sweep'.season = sweep.season /\ sweep'.at = "ranked"
      BY <3>1, <3>2
    <3>4. sweep' # NoSweep
      BY <3>3 DEF NoSweep
    <3> QED BY <3>1, <3>3, <3>4 DEF Swept
  <2>2. sweep' = NoSweep => Swept' = {}
    BY DEF Swept
  <2>3. sweep' = sweep => Swept' = Swept
    BY DEF Swept
  <2> QED BY <2>1, <2>2, <2>3, PlacesMove
<1>3. CASE tick' = tick
  <2>1. {tick.target} \cap Swept \subseteq disturbed
    BY <1>3 DEF OrderInv, SweepNoticed
  <2>2. ASSUME NEW r \in Regions, SweepStarts(r) PROVE tick.target \notin Swept'
    BY <1>3, <2>2, SweepsSpareTheRetired DEF OrderInv
  <2> QED BY <1>1, <1>2, <1>3, <2>1, <2>2
<1>4. CASE DeleteNext
  <2>1. tick' = [tick EXCEPT !.step = @ + 1] /\ sweep' = sweep
    BY <1>4 DEF DeleteNext
  <2>2. tick'.target = tick.target
    BY <2>1 DEF PurgeInv, TickSound, TickType
  <2>3. Swept' = Swept
    BY <2>1 DEF Swept
  <2> QED BY <1>4, <2>2, <2>3 DEF DeleteNext
<1> QED BY <1>3, <1>4, PlacesMove

(* A season whose characters go is the target of a purge, and its rows are   *)
(* gone before unless a sweep of it was noticed.                             *)
LEMMA CharactersGoLast ==
  ASSUME PurgeInv, DeletedInOrder,
         [Next]_vars, NEW r \in Regions, NEW s \in Seasons, Removes(r, "characters", s)
  PROVE  /\ DeleteNext /\ <<r, s>> = tick.target
         /\ <<r, s>> \notin disturbed => \A c \in Ratings : s \notin live[r][c]
<1>1. /\ DeleteNext /\ <<r, s>> = tick.target /\ "characters" = Collections[tick.step]
  BY RowsMove, NamesApart
<1>2. live' # live /\ ~DryRun
  BY <1>1 DEF Removes, DeleteNext
<1>3. tick.at = "purging" /\ tick.step \in 1..Len(Collections)
  BY <1>1, CollectionsInOrder DEF DeleteNext, PurgeInv, TickSound, TickType
<1>4. tick.step = Len(Families) + 1
  <2>1. ASSUME tick.step \in 1..Len(Families) PROVE FALSE
    BY <1>1, <2>1, CollectionsInOrder, NamesApart DEF Ratings
  <2>2. tick.step # Len(Families) + 2
    BY <1>1, CollectionsInOrder
  <2> QED BY <1>3, <2>1, <2>2, CollectionsInOrder
<1>5. ASSUME <<r, s>> \notin disturbed, NEW i \in 1..Len(Families) PROVE s \notin live[r][Families[i]]
  <2>1. i < tick.step /\ tick.target[1] = r /\ tick.target[2] = s
    BY <1>1, <1>4, CollectionsInOrder
  <2> QED BY <1>1, <1>2, <1>3, <1>5, <2>1 DEF DeletedInOrder
<1> QED BY <1>1, <1>5 DEF Ratings

LEMMA DeletedInOrderStep == PurgeInv /\ OrderInv /\ [Next]_vars => DeletedInOrder'
<1> SUFFICES ASSUME PurgeInv, OrderInv, [Next]_vars, tick'.at = "purging", ~DryRun,
                    tick'.target \notin disturbed', NEW i \in 1..Len(Families), i < tick'.step
             PROVE  tick'.target[2] \notin live'[tick'.target[1]][Families[i]]
  BY DEF DeletedInOrder
<1>1. Families[i] \in Ratings /\ Families[i] \in Names /\ Families[i] # "characters"
      /\ Families[i] # "spec_representation" /\ Collections[i] = Families[i] /\ i \in Nat /\ i >= 1
  BY NamesApart, CollectionsInOrder DEF Ratings
<1>2. TypeOK /\ TickSound /\ disturbed \subseteq disturbed'
  BY PlacesMove DEF PurgeInv, DeleteNext
<1>3. ASSUME tick'.at = tick.at, tick'.target = tick.target, i < tick.step
      PROVE  tick'.target[2] \notin live'[tick'.target[1]][Families[i]]
  <2>1. tick.target[1] \in Regions /\ tick.target[2] \in Seasons /\ tick.target \in Pairs
    BY <1>2, <1>3, PlacesKnown DEF TypeOK
  <2>2. tick.target[2] \notin live[tick.target[1]][Families[i]] /\ tick.target \notin disturbed
    BY <1>2, <1>3 DEF OrderInv, DeletedInOrder
  <2>3. tick.step > 1
    BY <1>1, <1>2, <1>3, CollectionsInOrder DEF TickSound, TickType
  <2>4. tick.target \notin Swept
    BY <1>3, <2>2, <2>3 DEF OrderInv, SweepNoticed
  <2>5. ~(SweepRates /\ tick.target[1] = sweep.region /\ tick.target[2] = sweep.season)
    <3> SUFFICES ASSUME SweepRates, tick.target[1] = sweep.region, tick.target[2] = sweep.season
                 PROVE  FALSE
      OBVIOUS
    <3>1. Swept = {<<sweep.region, sweep.season>>}
      BY PlacesKnown DEF SweepRates, Swept
    <3>2. tick.target = <<tick.target[1], tick.target[2]>>
      BY <2>1 DEF Pairs
    <3> QED BY <2>4, <3>1, <3>2
  <2> QED BY <1>1, <1>3, <2>1, <2>2, <2>5, RowsMove
<1>4. CASE tick' = tick
  BY <1>3, <1>4
<1>5. CASE DeleteNext
  <2>1. tick'.at = tick.at /\ tick'.target = tick.target /\ tick'.step = tick.step + 1 /\ tick.step \in Nat
    BY <1>2, <1>5, CollectionsInOrder DEF DeleteNext, TickSound, TickType
  <2>2. CASE i < tick.step
    BY <1>3, <2>1, <2>2
  <2>3. CASE i = tick.step
    <3> DEFINE q == tick.target[1]
               t == tick.target[2]
    <3>1. live' = Lacking(q, {Families[i]}, t)
      BY <1>1, <1>5, <2>3 DEF DeleteNext
    <3>2. q \in Regions /\ t \in Seasons
      BY <1>5, PlacesKnown DEF DeleteNext
    <3>3. live'[q][Families[i]] = live[q][Families[i]] \ {t}
      <4> HIDE DEF q, t
      <4> QED BY <1>1, <1>2, <3>1, <3>2 DEF Lacking, TypeOK
    <3> QED BY <2>1, <3>3
  <2> QED BY <1>1, <2>1, <2>2, <2>3
<1>6. tick'.step # 1
  BY <1>1
<1> QED BY <1>4, <1>5, <1>6, PlacesMove

LEMMA RowsStep == PurgeInv /\ OrderInv /\ [Next]_vars => RanksFirst' /\ RowsHaveCharacters'
<1> SUFFICES ASSUME PurgeInv, OrderInv, [Next]_vars PROVE RanksFirst' /\ RowsHaveCharacters'
  OBVIOUS
<1>0. /\ TypeOK /\ Ratings \subseteq Names /\ "characters" \in Names
      /\ \A c \in Ratings : c # "characters" /\ c # "spec_representation"
      /\ DeletedInOrder /\ disturbed \subseteq disturbed'
  BY NamesApart, PlacesMove DEF PurgeInv, OrderInv, DeleteNext
<1>1. ASSUME NEW r \in Regions, NEW c \in Ratings, NEW s \in Seasons, s \in live'[r][c],
             <<r, s>> \notin disturbed'
      PROVE  s \in live'[r]["characters"]
  <2>1. CASE s \in live[r][c]
    <3>1. s \in live[r]["characters"]
      BY <1>0, <1>1, <2>1 DEF OrderInv, RowsHaveCharacters
    <3> QED BY <1>0, <1>1, <2>1, <3>1, CharactersGoLast DEF Removes
  <2>2. CASE s \notin live[r][c]
    <3>1. SweepRates /\ r = sweep.region /\ s = sweep.season /\ s < MaxSeason
      BY <1>0, <1>1, <2>2, RowsMove
    <3>2. s \in live[r]["characters"]
      BY <1>0, <1>1, <3>1 DEF SweepRates, OrderInv, RanksFirst
    <3>3. Swept = {<<r, s>>}
      BY <3>1, PlacesKnown DEF SweepRates, Swept
    <3>4. DeleteNext => tick.target # <<r, s>>
      BY <1>1, <3>3 DEF DeleteNext
    <3> QED BY <1>0, <3>2, <3>4, CharactersGoLast DEF Removes
  <2> QED BY <2>1, <2>2
<1>2. ASSUME sweep'.at = "ranked", sweep'.season < MaxSeason,
             <<sweep'.region, sweep'.season>> \notin disturbed'
      PROVE  sweep'.season \in live'[sweep'.region]["characters"]
  <2>1. CASE SweepRanks
    <3> DEFINE q == sweep.region
               t == sweep.season
    <3>1. q \in Regions /\ t \in Seasons /\ live' = Holding(q, {"characters"}, t)
      BY <2>1, PlacesKnown DEF SweepRanks
    <3>2. sweep'.region = q /\ sweep'.season = t
      BY <1>0, <2>1 DEF TypeOK, SweepRanks, NoSweep
    <3>3. live'[q]["characters"] = live[q]["characters"] \cup {t}
      BY <1>0, <1>2, <3>1, <3>2 DEF Holding, TypeOK
    <3> QED BY <3>2, <3>3
  <2>2. CASE sweep' = sweep
    <3>1. sweep.region \in Regions /\ sweep.season \in Seasons /\ sweep # NoSweep
      BY <1>2, <2>2, PlacesKnown
    <3>2. sweep.season \in live[sweep.region]["characters"]
      BY <1>0, <1>2, <2>2 DEF OrderInv, RanksFirst
    <3>3. DeleteNext => tick.target # <<sweep.region, sweep.season>>
      BY <1>2, <2>2, <3>1 DEF DeleteNext, Swept
    <3>4. ~Removes(sweep.region, "characters", sweep.season)
      BY <1>0, <3>1, <3>3, CharactersGoLast
    <3> QED BY <2>2, <3>1, <3>2, <3>4 DEF Removes
  <2>3. CASE sweep' = NoSweep \/ \E r \in Regions : SweepStarts(r)
    BY <1>2, <2>3 DEF SweepStarts, NoSweep
  <2> QED BY <2>1, <2>2, <2>3, PlacesMove
<1> QED BY <1>1, <1>2 DEF RanksFirst, RowsHaveCharacters

(* No rating rows outlive their characters, at every moment of a purge and   *)
(* wherever it breaks off, unless a sweep of the very season was in progress *)
(* at one of the deletes.                                                    *)
THEOREM RowsGoFirst == Spec => []OrphansAreDisturbed
<1>1. Init => OrderInv
  <2>1. Init => IndexKeepsUp
    BY DEF Init, IndexKeepsUp
  <2>2. Init => DeletedInOrder /\ SweepNoticed /\ RanksFirst /\ RowsHaveCharacters
    BY NamesApart, NoTickTyped DEF Init, DeletedInOrder, SweepNoticed, RanksFirst, RowsHaveCharacters,
       NoSweep
  <2> QED BY <2>1, <2>2 DEF OrderInv
<1>2. PurgeInv /\ OrderInv /\ [Next]_vars => OrderInv'
  BY IndexStep, DeletedInOrderStep, SweepNoticedStep, RowsStep DEF OrderInv, PurgeInv
<1>3. PurgeInv /\ OrderInv => OrphansAreDisturbed
  BY DEF PurgeInv, OrderInv, RowsHaveCharacters, OrphansAreDisturbed
<1> QED BY PurgeInvHolds, <1>1, <1>2, <1>3, PTL DEF Spec

=============================================================================
