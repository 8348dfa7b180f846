-------------------------- MODULE MplusSeasonsProofs --------------------------
(* The course of a Mythic+ season, for every list of regions, every number of*)
(* seasons and every board.                                                  *)
EXTENDS MplusSeasons, WellFoundedInduction, TLAPS

-----------------------------------------------------------------------------
(* The archive.                                                              *)

(* What an entry of a marker, or of a tick, says of the rows of its pair.    *)
Says(entry, p) ==
  /\ entry = "fetched" => stored[p] = [runs |-> "all", characters |-> "all"]
  /\ entry = "adopted" => stored[p].runs = "all"

MarkersAreTrue == \A s \in Seasons, r \in Regions : Says(marker[s].regions[r], <<s, r>>)

(* A tick that reads a season: the season is over and may be archived, the   *)
(* regions still owed are not held, and what the marker holds is kept.       *)
TickIsTrue ==
  /\ tick.at \in {"region", "characters"} =>
       /\ tick.season \in Seasons /\ marker[tick.season].status # "unarchivable"
       /\ \A r \in Regions :
            /\ Ended(tick.season, r)
            /\ Says(tick.held[r], <<tick.season, r>>)
            /\ r \in tick.owed => ~Held(tick.held[r])
            /\ Held(marker[tick.season].regions[r]) =>
                 r \notin tick.owed /\ tick.held[r] = marker[tick.season].regions[r]
  /\ tick.at = "characters" => tick.owed # {} /\ (tick.whole => stored[Pair].runs = "all")

ArchiveInv == TypeOK /\ MarkersAreTrue /\ TickIsTrue

-----------------------------------------------------------------------------
(* The purge.                                                                *)

(* A season has opened since in the region.                                  *)
Over(p) == \E s \in Listed : p[1] < s /\ Opened(s, p[2])

Retiring(p) == p \in purge.todo \/ p = purge.pair \/ p \in retired

(* What is retired, or about to be, is over and in the archive; a pass is of *)
(* another pair; and the characters of a pair go before its runs do.         *)
PurgeIsSound ==
  /\ \A p \in Pairs : Retiring(p) => Over(p)
  /\ \A p \in Pairs : RequireArchive /\ p \in purge.todo \cup {purge.pair} => IsArchiveSettled(p[1], p[2])
  /\ purge.pair \notin live.characters

PassIsSound ==
  /\ \A p \in Pairs : HasRows(p) => p[1] \in Listed
  /\ pass # NoPass => pass.pair[1] \in Listed /\ ~Retiring(pass.pair)
  /\ pass.at = "characters" => pass.pair \in live.runs

PurgeInv == PurgeIsSound /\ PassIsSound /\ OnlyNamedCharacters /\ RetiredForGood

-----------------------------------------------------------------------------
(* Numbers.                                                                  *)

(* A set of naturals has a least one.                                        *)
LEMMA LeastExists ==
  ASSUME NEW S, S # {}, S \subseteq Nat
  PROVE  Min(S) \in S
<1>1. PICK t \in S : \A u \in S : ~(<<u, t>> \in OpToRel(<, Nat))
  BY NatLessThanWellFounded, WFMin
<1>2. \A u \in S : t =< u
  <2> SUFFICES ASSUME NEW u \in S PROVE t =< u
    OBVIOUS
  <2>1. ~(u < t) /\ u \in Nat /\ t \in Nat
    BY <1>1 DEF OpToRel
  <2> QED BY <2>1
<1> QED BY <1>1, <1>2 DEF Min

(* A bounded set of naturals has a greatest one.                             *)
LEMMA GreatestExists ==
  ASSUME NEW N \in Nat, NEW S, S # {}, S \subseteq 0..N
  PROVE  Max(S) \in S /\ \A y \in S : y <= Max(S)
<1> DEFINE Below == {n \in Nat : N - n \in S}
<1>1. \A x \in S : x \in Int /\ N - x \in Below
  OBVIOUS
<1>2. PICK t \in Below : \A u \in Below : ~(<<u, t>> \in OpToRel(<, Nat))
  BY <1>1, NatLessThanWellFounded, WFMin
<1>3. \A y \in S : N - t >= y
  <2> SUFFICES ASSUME NEW y \in S PROVE N - t >= y
    OBVIOUS
  <2>1. ~(N - y < t) /\ t \in Nat
    BY <1>1, <1>2 DEF OpToRel
  <2> QED BY <1>1, <2>1
<1>4. N - t \in S
  BY <1>2
<1>5. \A x, y \in S : x >= y <=> y <= x
  BY <1>1
<1> QED BY <1>3, <1>4, <1>5 DEF Max

TickType == [at : {"head", "region", "characters"}, season : Seasons \cup {None}, owed : SUBSET Regions,
             whole : BOOLEAN, held : [Regions -> Entries], skip : SUBSET Seasons]
MarkerType == [status : {"none", "partial", "incomplete", "complete", "unarchivable"},
               regions : [Regions -> Entries]]
RowsType == [runs : Amounts, characters : Amounts]
PassType == [at : {"runs", "characters"}, pair : Pairs]
PurgeType == [at : {"pairs"}, todo : SUBSET Pairs, pair : Pairs \cup {NoPair}]

LEMMA Types ==
  ASSUME TypeOK
  PROVE  /\ tick \in TickType \cup {NoTick} /\ (tick.at # "idle" => tick \in TickType)
         /\ marker \in [Seasons -> MarkerType] /\ stored \in [Pairs -> RowsType]
         /\ pass \in PassType \cup {NoPass} /\ (pass.at # "idle" => pass \in PassType)
         /\ purge \in PurgeType \cup {NoPurge}
         /\ purge.todo \subseteq Pairs /\ purge.pair \in Pairs \cup {NoPair}
         /\ NoEntries \in [Regions -> Entries] /\ NoTick.at = "idle" /\ NoPass.at = "idle"
  BY DEF TypeOK, TickType, MarkerType, RowsType, PassType, PurgeType, NoTick, NoPass, NoPurge,
    NoEntries, Entries

LEMMA PairTypes ==
  \A p \in Pairs : p[1] \in Seasons /\ p[2] \in Regions /\ p # NoPair /\ p = <<p[1], p[2]>>
  BY DEF Pairs, NoPair

(* The region in hand is one that is owed.                                   *)
LEMMA InHand ==
  ASSUME TypeOK, tick \in TickType, tick.owed # {}
  PROVE  Region \in tick.owed /\ Region \in Regions /\ (tick.season \in Seasons => Pair \in Pairs)
<1> DEFINE S == {i \in 1..Len(Order) : Order[i] \in tick.owed}
<1>1. S # {} /\ S \subseteq Nat
  BY DEF TickType, Regions
<1>2. Min(S) \in S
  BY <1>1, LeastExists
<1> QED BY <1>2 DEF Region, Pair, Pairs, TickType

(* What each variable changes by.                                            *)
LEMMA Effects ==
  ASSUME Next
  PROVE  /\ board' = board
         /\ phase' = phase \/ \E r \in Regions : TimePasses(r)
         /\ catalogue' = catalogue \/ \E s \in Seasons : Walk(s)
         /\ live' = live \/ PassRuns \/ PassCharacters \/ PurgeCompletes \/ \E p \in Pairs : PurgeBegins(p)
         /\ pass' = pass \/ pass' = NoPass \/ PassRuns \/ \E r \in Regions : PassStarts(r)
         /\ marker' = marker \/ NotFound \/ RecordArchive \/ TickYields
         /\ stored' = stored \/ UpsertCharacters \/ TickYields \/ TickFails
            \/ \E whole \in BOOLEAN : UpsertRuns(whole)
         /\ tick' = tick \/ tick' = NoTick \/ TickStarts \/ ArchiveSeason \/ AdoptStoredRegion \/ NotFound
            \/ UpsertCharacters \/ RecordArchive \/ \E whole \in BOOLEAN : UpsertRuns(whole)
         /\ (purge' = purge /\ retired' = retired) \/ (purge' = NoPurge /\ retired' = retired)
            \/ PlanPurge \/ PurgeCompletes \/ \E p \in Pairs : PurgeBegins(p)
         /\ calm' = calm \/ Calms
BY Zenon
DEF Next, TimePasses, PassStarts, Walk, Catalogued, PassRuns, PassCharacters, PassFails, TickStarts,
  ArchiveSeason, TickEnds,
  AdoptStoredRegion, NotFound, UpsertRuns, UpsertCharacters, RecordArchive, TickYields, TickFails,
  PlanPurge,
  PurgeBegins, PurgeCompletes, PurgeFails, Calms, world, archive, retiring

(* A season that is over stays so, and time only passes.                     *)
LEMMA TimeGoesOn ==
  ASSUME TypeOK, Next
  PROVE  /\ phase' \in [Regions -> 0..LastPhase] /\ \A r \in Regions : phase[r] <= phase'[r]
         /\ catalogue' \in [listed : 0..MaxSeason, dated : SUBSET Seasons]
         /\ catalogue.listed <= catalogue'.listed /\ Listed \subseteq Listed'
         /\ \A s \in Seasons, r \in Regions : /\ Ended(s, r) => Ended(s, r)'
                                              /\ Opened(s, r) => Opened(s, r)'
<1>1. /\ LastPhase \in Nat /\ phase \in [Regions -> 0..LastPhase] /\ MaxSeason \in Nat \ {0}
      /\ catalogue \in [listed : 0..MaxSeason, dated : SUBSET Seasons]
  BY SeasonsAssumption DEF TypeOK
<1>2. phase' \in [Regions -> 0..LastPhase] /\ \A r \in Regions : phase[r] <= phase'[r]
  <2>1. ASSUME NEW r \in Regions, TimePasses(r)
        PROVE  phase' \in [Regions -> 0..LastPhase] /\ \A q \in Regions : phase[q] <= phase'[q]
    BY <1>1, <2>1 DEF TimePasses
  <2> QED BY <1>1, <2>1, Effects
<1>3. /\ catalogue' \in [listed : 0..MaxSeason, dated : SUBSET Seasons]
      /\ catalogue.listed <= catalogue'.listed
  <2>1. ASSUME NEW s \in Seasons, Walk(s)
        PROVE  /\ catalogue' \in [listed : 0..MaxSeason, dated : SUBSET Seasons]
               /\ catalogue.listed <= catalogue'.listed
    <3>1. Max({s, catalogue.listed}) \in {s, catalogue.listed} /\ catalogue.listed <= Max({s, catalogue.listed})
      BY <1>1, GreatestExists DEF Seasons
    <3>2. catalogue'.listed = Max({s, catalogue.listed}) /\ catalogue'.dated \subseteq Seasons
          /\ catalogue' = [listed |-> catalogue'.listed, dated |-> catalogue'.dated]
      BY <1>1, <2>1 DEF Walk, Catalogued
    <3>3. Max({s, catalogue.listed}) \in 0..MaxSeason
      BY <1>1, <3>1 DEF Seasons
    <3> QED BY <3>1, <3>2, <3>3
  <2> QED BY <1>1, <2>1, Effects
<1>4. Listed \subseteq Listed'
  BY <1>1, <1>3 DEF Listed
<1>5. \A s \in Seasons, r \in Regions : (Ended(s, r) => Ended(s, r)') /\ (Opened(s, r) => Opened(s, r)')
  <2> SUFFICES ASSUME NEW s \in Seasons, NEW r \in Regions
               PROVE  (Ended(s, r) => Ended(s, r)') /\ (Opened(s, r) => Opened(s, r)')
    OBVIOUS
  <2>1. phase[r] \in Int /\ phase'[r] \in Int /\ phase[r] <= phase'[r] /\ s \in Int
    BY <1>1, <1>2 DEF Seasons
  <2> QED BY <2>1 DEF Ended, Opened
<1> QED BY <1>2, <1>3, <1>4, <1>5

(* The region in hand is done with.                                          *)
LEMMA Settles ==
  ASSUME TypeOK, tick \in TickType, tick.owed # {}, NEW entry \in Entries
  PROVE  /\ Settle(entry) \in TickType /\ Settle(entry).at = "region" /\ Settle(entry).season = tick.season
         /\ Settle(entry).owed = tick.owed \ {Region}
         /\ Settle(entry).held[Region] = entry
         /\ \A r \in Regions \ {Region} : Settle(entry).held[r] = tick.held[r]
<1>1. Region \in tick.owed /\ Region \in Regions /\ tick.held \in [Regions -> Entries]
  BY InHand DEF TickType
<1> DEFINE h == [tick.held EXCEPT ![Region] = entry]
<1>2. h \in [Regions -> Entries] /\ h[Region] = entry /\ \A r \in Regions \ {Region} : h[r] = tick.held[r]
  BY <1>1
<1>3. Settle(entry) = [tick EXCEPT !.at = "region", !.owed = tick.owed \ {Region}, !.held = h]
  BY <1>1 DEF Settle, TickType
<1> HIDE DEF h
<1>4. Settle(entry) \in TickType
  BY <1>1, <1>2, <1>3 DEF TickType
<1>5. /\ Settle(entry).at = "region" /\ Settle(entry).season = tick.season
      /\ Settle(entry).owed = tick.owed \ {Region} /\ Settle(entry).held = h
  BY <1>1, <1>2, <1>3 DEF TickType
<1> QED BY Zenon, <1>2, <1>4, <1>5

(* Where the tick goes.                                                      *)
TickMoves ==
  \/ tick' = tick
  \/ tick' = NoTick
  \/ tick' \in TickType /\ tick'.at = "head"
  \/ /\ ArchiveSeason /\ tick' \in TickType /\ tick'.at = "region"
     /\ tick'.season \in PendingSeasons /\ tick'.season \in Seasons
     /\ tick'.owed = RegionsOwed(tick'.season) /\ tick'.held = marker[tick'.season].regions
  \/ /\ tick.at = "region" /\ tick.owed # {} /\ \E whole \in BOOLEAN : UpsertRuns(whole)
     /\ tick' \in TickType /\ tick'.at = "characters" /\ tick'.season = tick.season /\ tick'.owed = tick.owed
     /\ tick'.held = tick.held
  \/ /\ tick.at \in {"region", "characters"} /\ tick.owed # {}
     /\ \E entry \in Entries :
          /\ tick' = Settle(entry)
          /\ entry = "adopted" => AdoptStoredRegion
          /\ entry = "fetched" => UpsertCharacters /\ tick.whole

LEMMA TickMove ==
  ASSUME TypeOK, TickIsTrue, Next
  PROVE  TickMoves
<1>0. /\ tick \in TickType \cup {NoTick} /\ (tick.at # "idle" => tick \in TickType)
      /\ marker \in [Seasons -> MarkerType] /\ NoTick.at = "idle" /\ NoEntries \in [Regions -> Entries]
  BY Types
<1>1. [NoTick EXCEPT !.at = "head"] \in TickType /\ [NoTick EXCEPT !.at = "head"].at = "head"
  BY <1>0 DEF NoTick, TickType
<1>2. \A skip \in SUBSET Seasons : /\ [NoTick EXCEPT !.at = "head", !.skip = skip] \in TickType
                                   /\ [NoTick EXCEPT !.at = "head", !.skip = skip].at = "head"
  BY <1>0 DEF NoTick, TickType
<1>3. CASE TickStarts
  BY <1>1, <1>3 DEF TickStarts, TickMoves
<1>4. CASE ArchiveSeason
  <2> DEFINE s == Max(PendingSeasons \ tick.skip)
  <2>1. PendingSeasons \ tick.skip # {} /\ tick \in TickType
    BY <1>0, <1>4 DEF ArchiveSeason
  <2>2. PendingSeasons \subseteq 0..catalogue.listed /\ catalogue.listed \in Nat /\ PendingSeasons \subseteq Seasons
    BY SeasonsAssumption DEF PendingSeasons, Listed, TypeOK, Seasons
  <2>3. s \in PendingSeasons /\ s \in Seasons
    BY <2>1, <2>2, GreatestExists
  <2>4. tick' = [tick EXCEPT !.at = "region", !.season = s, !.owed = RegionsOwed(s), !.held = marker[s].regions]
    BY <1>4 DEF ArchiveSeason
  <2>5. RegionsOwed(s) \subseteq Regions /\ marker[s].regions \in [Regions -> Entries]
    BY <1>0, <2>3 DEF RegionsOwed, MarkerType
  <2> HIDE DEF s
  <2>6. tick' \in TickType /\ tick'.at = "region" /\ tick'.season = s /\ tick'.owed = RegionsOwed(s)
        /\ tick'.held = marker[s].regions
    BY <2>1, <2>3, <2>4, <2>5 DEF TickType
  <2> QED BY <1>4, <2>3, <2>6 DEF TickMoves
<1>5. ASSUME NEW whole \in BOOLEAN, UpsertRuns(whole) PROVE TickMoves
  <2>1. tick \in TickType /\ tick.at = "region" /\ tick.owed # {}
        /\ tick' = [tick EXCEPT !.at = "characters", !.whole = whole]
    BY <1>0, <1>5 DEF UpsertRuns, MayFetch
  <2>2. tick' \in TickType /\ tick'.at = "characters" /\ tick'.season = tick.season /\ tick'.owed = tick.owed
        /\ tick'.held = tick.held
    BY <2>1 DEF TickType
  <2> QED BY <1>5, <2>1, <2>2 DEF TickMoves
<1>6. CASE AdoptStoredRegion
  BY <1>6 DEF AdoptStoredRegion, TickMoves, Entries
<1>7. CASE NotFound
  BY <1>0, <1>2, <1>7 DEF NotFound, MayFetch, TickMoves, Entries, TickType
<1>8. CASE UpsertCharacters
  BY <1>8 DEF UpsertCharacters, TickMoves, Entries, TickIsTrue
<1>9. CASE RecordArchive
  <2>1. tick \in TickType /\ tick.season \in Seasons
    BY <1>0, <1>9 DEF RecordArchive, TickIsTrue
  <2>2. tick.skip \in SUBSET Seasons /\ tick.skip \cup {tick.season} \in SUBSET Seasons
    BY <2>1 DEF TickType
  <2>3. \E skip \in SUBSET Seasons : tick' = [NoTick EXCEPT !.at = "head", !.skip = skip]
    BY <1>9, <2>2 DEF RecordArchive
  <2> QED BY <1>2, <2>3 DEF TickMoves
<1> QED BY <1>3, <1>4, <1>5, <1>6, <1>7, <1>8, <1>9, Effects DEF TickMoves

(* Where a marker goes: only that of the season in hand, to what the tick    *)
(* holds, or to a season that is not to be had.                              *)
MarkerMoves ==
  \/ marker' = marker
  \/ /\ tick.at = "region" /\ \A s \in Seasons \ {tick.season} : marker'[s] = marker[s]
     /\ marker'[tick.season] \in MarkerType
     /\ \/ \E interrupted \in BOOLEAN : marker'[tick.season] = MarkerOf(tick.held, interrupted)
        \/ ~HoldsAnything /\ marker'[tick.season] = [NoMarker EXCEPT !.status = "unarchivable"]

LEMMA MarkerMove ==
  ASSUME TypeOK, TickIsTrue, Next
  PROVE  MarkerMoves
<1>0. /\ tick \in TickType \cup {NoTick} /\ (tick.at # "idle" => tick \in TickType)
      /\ marker \in [Seasons -> MarkerType] /\ NoEntries \in [Regions -> Entries]
  BY Types
<1>1. \A interrupted \in BOOLEAN, held \in [Regions -> Entries] : MarkerOf(held, interrupted) \in MarkerType
  BY DEF MarkerOf, MarkerType
<1>2. [NoMarker EXCEPT !.status = "unarchivable"] \in MarkerType
  BY <1>0 DEF NoMarker, MarkerType
<1>3. ASSUME NEW m \in MarkerType, tick.at = "region", marker' = [marker EXCEPT ![tick.season] = m]
      PROVE  marker'[tick.season] = m /\ \A s \in Seasons \ {tick.season} : marker'[s] = marker[s]
  BY <1>0, <1>3 DEF TickIsTrue
<1>4. tick.at = "region" => tick.held \in [Regions -> Entries]
  BY <1>0 DEF TickType
<1>5. CASE RecordArchive
  BY <1>1, <1>3, <1>4, <1>5 DEF RecordArchive, MarkerMoves
<1>6. CASE NotFound
  BY <1>2, <1>3, <1>6 DEF NotFound, MayFetch, MarkerMoves
<1>7. CASE TickYields
  BY <1>1, <1>3, <1>4, <1>7 DEF TickYields, MarkerMoves
<1> QED BY <1>5, <1>6, <1>7, Effects DEF MarkerMoves

(* Where the rows go: only those of the pair in hand are written.            *)
RowsMove ==
  \/ stored' = stored
  \/ /\ tick.at \in {"region", "characters"} /\ tick.owed # {} /\ Pair \in Pairs
     /\ \A p \in Pairs \ {Pair} : stored'[p] = stored[p]
     /\ stored'[Pair] \in RowsType
     /\ \/ tick.at = "region"
        \/ stored'[Pair].runs = stored[Pair].runs

LEMMA RowMove ==
  ASSUME TypeOK, TickIsTrue, Next
  PROVE  RowsMove
<1>0. /\ (tick.at # "idle" => tick \in TickType) /\ stored \in [Pairs -> RowsType]
      /\ tick.at \in {"region", "characters"} => tick.season \in Seasons
      /\ tick.at = "characters" => tick.owed # {}
  BY Types DEF TickIsTrue
<1>1. tick.at \in {"region", "characters"} /\ tick.owed # {} => Pair \in Pairs
  BY <1>0, InHand
<1>2. ASSUME tick.at = "region", tick.owed # {}, NEW a \in Amounts, stored' = [stored EXCEPT ![Pair].runs = a]
      PROVE  /\ \A p \in Pairs \ {Pair} : stored'[p] = stored[p]
             /\ stored'[Pair] \in RowsType /\ stored'[Pair].runs = a
  <2>1. stored' = [stored EXCEPT ![Pair] = [stored[Pair] EXCEPT !.runs = a]] /\ Pair \in Pairs
    BY <1>0, <1>1, <1>2
  <2>2. stored'[Pair] = [stored[Pair] EXCEPT !.runs = a] /\ \A p \in Pairs \ {Pair} : stored'[p] = stored[p]
    BY <1>0, <2>1
  <2> QED BY <1>0, <2>1, <2>2 DEF RowsType
<1>3. ASSUME tick.at = "characters", NEW a \in Amounts, stored' = [stored EXCEPT ![Pair].characters = a]
      PROVE  /\ \A p \in Pairs \ {Pair} : stored'[p] = stored[p]
             /\ stored'[Pair] \in RowsType /\ stored'[Pair].characters = a /\ stored'[Pair].runs = stored[Pair].runs
  <2>1. stored' = [stored EXCEPT ![Pair] = [stored[Pair] EXCEPT !.characters = a]] /\ Pair \in Pairs
    BY <1>0, <1>1, <1>3
  <2>2. stored'[Pair] = [stored[Pair] EXCEPT !.characters = a] /\ \A p \in Pairs \ {Pair} : stored'[p] = stored[p]
    BY <1>0, <2>1
  <2> QED BY <1>0, <2>1, <2>2 DEF RowsType
<1>4. \A a \in Amounts : More(a) \subseteq Amounts
  BY DEF More, Amounts
<1>5. ASSUME NEW whole \in BOOLEAN, UpsertRuns(whole) PROVE RowsMove
  <2>1. tick.at = "region" /\ tick.owed # {}
    BY <1>5 DEF UpsertRuns, MayFetch
  <2>2. PICK a \in Amounts : stored' = [stored EXCEPT ![Pair].runs = a]
    BY <1>0, <1>1, <1>4, <1>5, <2>1 DEF UpsertRuns, RowsType, Amounts
  <2> QED BY <1>1, <1>2, <2>1, <2>2 DEF RowsMove
<1>6. CASE UpsertCharacters
  <2>1. tick.at = "characters" /\ Pair \in Pairs
    BY <1>0, <1>1, <1>6 DEF UpsertCharacters
  <2>2. PICK a \in Amounts : stored' = [stored EXCEPT ![Pair].characters = a]
    BY <1>0, <1>1, <1>6, <2>1 DEF UpsertCharacters, RowsType, Amounts
  <2> QED BY <1>0, <1>1, <1>3, <2>1, <2>2 DEF RowsMove
<1>7. CASE TickYields \/ TickFails
  <2>1. CASE stored' = stored
    BY <2>1 DEF RowsMove
  <2>2. CASE MayFetch /\ \E amount \in More(stored[Pair].runs) : stored' = [stored EXCEPT ![Pair].runs = amount]
    <3>1. tick.at = "region" /\ tick.owed # {}
      BY <2>2 DEF MayFetch
    <3>2. \E a \in Amounts : stored' = [stored EXCEPT ![Pair].runs = a]
      BY <1>0, <1>1, <1>4, <2>2, <3>1 DEF RowsType
    <3> QED BY <1>1, <1>2, <3>1, <3>2 DEF RowsMove
  <2>3. CASE tick.at = "characters" /\ stored' = [stored EXCEPT ![Pair].characters = "some"]
    BY <1>0, <1>1, <1>3, <2>3 DEF RowsMove, Amounts
  <2> QED BY <1>7, <2>1, <2>2, <2>3 DEF TickYields, TickFails, Begun
<1> QED BY <1>5, <1>6, <1>7, Effects DEF RowsMove

(* What a region read whole leaves stored.                                   *)
LEMMA ReadWhole ==
  ASSUME TypeOK, TickIsTrue
  PROVE  /\ \A whole \in BOOLEAN : UpsertRuns(whole) /\ tick'.whole => stored'[Pair].runs = "all" /\ Pair' = Pair
         /\ UpsertCharacters /\ tick.whole => stored'[Pair] = [runs |-> "all", characters |-> "all"]
<1>0. /\ (tick.at # "idle" => tick \in TickType) /\ stored \in [Pairs -> RowsType]
      /\ (tick.at \in {"region", "characters"} => tick.season \in Seasons)
      /\ (tick.at = "characters" => tick.owed # {})
  BY Types DEF TickIsTrue
<1>1. tick.at \in {"region", "characters"} /\ tick.owed # {} => Pair \in Pairs
  BY <1>0, InHand
<1>2. ASSUME NEW whole \in BOOLEAN, UpsertRuns(whole), tick'.whole
      PROVE  stored'[Pair].runs = "all" /\ Pair' = Pair
  <2>1. tick \in TickType /\ tick.at = "region" /\ tick.owed # {}
        /\ tick' = [tick EXCEPT !.at = "characters", !.whole = whole]
    BY <1>0, <1>2 DEF UpsertRuns, MayFetch
  <2>2. tick'.whole = whole /\ tick'.owed = tick.owed /\ tick'.season = tick.season
    BY <2>1 DEF TickType
  <2>3. stored' = [stored EXCEPT ![Pair] = [stored[Pair] EXCEPT !.runs = "all"]]
    BY <1>0, <1>1, <1>2, <2>1, <2>2 DEF UpsertRuns
  <2>4. stored'[Pair] = [stored[Pair] EXCEPT !.runs = "all"]
    BY <1>0, <1>1, <2>1, <2>3
  <2> QED BY <1>0, <1>1, <2>1, <2>2, <2>4 DEF Pair, Region, RowsType
<1>3. ASSUME UpsertCharacters, tick.whole
      PROVE  stored'[Pair] = [runs |-> "all", characters |-> "all"]
  <2>1. tick.at = "characters" /\ Pair \in Pairs /\ stored[Pair].runs = "all"
    BY <1>0, <1>1, <1>3 DEF UpsertCharacters, TickIsTrue
  <2>2. stored' = [stored EXCEPT ![Pair] = [stored[Pair] EXCEPT !.characters = "all"]]
    BY <1>0, <1>3, <2>1 DEF UpsertCharacters
  <2>3. stored'[Pair] = [stored[Pair] EXCEPT !.characters = "all"]
    BY <1>0, <2>1, <2>2
  <2> QED BY <1>0, <2>1, <2>3 DEF RowsType
<1> QED BY <1>2, <1>3

(* The current season of a region is the latest listed that has opened.      *)
LEMMA Current ==
  ASSUME TypeOK, NEW r \in Regions
  PROVE  /\ Listed \subseteq Seasons
         /\ CurrentSeasonIn(r) # None => CurrentSeasonIn(r) \in Listed /\ Opened(CurrentSeasonIn(r), r)
         /\ \A s \in Listed : Opened(s, r) => s <= CurrentSeasonIn(r)
         /\ r \in DOMAIN Resolution <=> CurrentSeasonIn(r) # None
         /\ r \in DOMAIN Resolution => Resolution[r] = CurrentSeasonIn(r)
<1> DEFINE S == {s \in Listed : Opened(s, r)} \cup {None}
<1>1. catalogue.listed \in Nat /\ Listed \subseteq Seasons /\ S # {} /\ S \subseteq 0..catalogue.listed
  BY SeasonsAssumption DEF TypeOK, Listed, Seasons, None
<1>2. Max(S) \in S /\ \A y \in S : y <= Max(S)
  <2> HIDE DEF S
  <2> QED BY <1>1, GreatestExists
<1>3. CurrentSeasonIn(r) = Max(S)
  BY DEF CurrentSeasonIn
<1>4. /\ r \in DOMAIN Resolution <=> CurrentSeasonIn(r) # None
      /\ r \in DOMAIN Resolution => Resolution[r] = CurrentSeasonIn(r)
  BY DEF Resolution
<1> QED BY <1>1, <1>2, <1>3, <1>4

(* The purge takes pairs.                                                    *)
LEMMA PurgeTypes ==
  ASSUME TypeOK, Next
  PROVE  purge' \in PurgeType \cup {NoPurge} /\ retired' \subseteq Pairs
<1>0. purge \in PurgeType \cup {NoPurge} /\ retired \subseteq Pairs
  BY DEF TypeOK, PurgeType
<1>1. CASE PlanPurge
  <2>1. purge' = [NoPurge EXCEPT !.at = "pairs", !.todo = {p \in Candidates : HasRows(p)}] /\ retired' = retired
    BY <1>1 DEF PlanPurge
  <2>2. {p \in Candidates : HasRows(p)} \subseteq Pairs
    BY DEF Candidates
  <2>3. \A T \in SUBSET Pairs : [NoPurge EXCEPT !.at = "pairs", !.todo = T] \in PurgeType
    BY DEF NoPurge, PurgeType
  <2> QED BY <1>0, <2>1, <2>2, <2>3
<1>2. ASSUME NEW p \in Pairs, PurgeBegins(p) PROVE purge' \in PurgeType \cup {NoPurge} /\ retired' \subseteq Pairs
  <2>1. purge' = [purge EXCEPT !.pair = p, !.todo = purge.todo \ {p}] /\ p \in purge.todo /\ retired' = retired
    BY <1>2 DEF PurgeBegins
  <2>2. purge \in PurgeType
    BY <1>0, <2>1 DEF NoPurge
  <2> QED BY <1>0, <2>1, <2>2 DEF PurgeType
<1>3. CASE PurgeCompletes
  <2>1. purge \in PurgeType /\ purge.pair \in Pairs /\ retired' = retired \cup {purge.pair}
    BY <1>0, <1>3 DEF PurgeCompletes, NoPurge, PurgeType
  <2>2. purge' \in {NoPurge, [purge EXCEPT !.pair = NoPair]}
    BY <1>3 DEF PurgeCompletes
  <2> QED BY <1>0, <2>1, <2>2 DEF PurgeType
<1> QED BY <1>0, <1>1, <1>2, <1>3, Effects

LEMMA TypeStep == TypeOK /\ TickIsTrue /\ [Next]_vars => TypeOK'
<1> SUFFICES ASSUME TypeOK, TickIsTrue, [Next]_vars PROVE TypeOK'
  OBVIOUS
<1>1. CASE UNCHANGED vars
  BY <1>1 DEF vars, world, archive, retiring, TypeOK
<1>2. CASE Next
  <2>0. /\ tick \in TickType \cup {NoTick} /\ (tick.at # "idle" => tick \in TickType)
        /\ marker \in [Seasons -> MarkerType] /\ stored \in [Pairs -> RowsType]
        /\ pass \in PassType \cup {NoPass} /\ (pass.at # "idle" => pass \in PassType)
        /\ NoTick.at = "idle" /\ NoPass.at = "idle"
    BY Types
  <2>1. board' \in Boards /\ phase' \in [Regions -> 0..LastPhase]
        /\ catalogue' \in [listed : 0..MaxSeason, dated : SUBSET Seasons] /\ calm' \in BOOLEAN
    BY <1>2, Effects, TimeGoesOn DEF TypeOK, Calms
  <2>2. tick' \in TickType \cup {NoTick}
    <3>1. TickMoves
      BY <1>2, TickMove
    <3>2. tick.at \in {"region", "characters"} /\ tick.owed # {} =>
            \A entry \in Entries : Settle(entry) \in TickType
      BY <2>0, Settles
    <3> QED BY <2>0, <3>1, <3>2 DEF TickMoves
  <2>3. marker' \in [Seasons -> MarkerType]
    <3>1. DOMAIN marker' = Seasons /\ marker' = [s \in Seasons |-> marker'[s]]
      BY <1>2, <2>0, Effects DEF NotFound, RecordArchive, TickYields
    <3>2. \A s \in Seasons : marker'[s] \in MarkerType
      BY <1>2, <2>0, MarkerMove DEF MarkerMoves
    <3> QED BY <3>1, <3>2
  <2>4. stored' \in [Pairs -> RowsType]
    <3>1. stored' = [p \in Pairs |-> stored'[p]]
      BY <1>2, <2>0, Effects DEF UpsertRuns, UpsertCharacters, TickYields, TickFails, Begun
    <3>2. \A p \in Pairs : stored'[p] \in RowsType
      BY <1>2, <2>0, RowMove DEF RowsMove
    <3> QED BY <3>1, <3>2
  <2>5. pass' \in PassType \cup {NoPass}
    <3>1. ASSUME NEW r \in Regions, PassStarts(r) PROVE pass' \in PassType
      BY <3>1, Current DEF PassStarts, PassType, Pairs
    <3>2. PassRuns => pass' \in PassType
      BY <2>0 DEF PassRuns, PassType
    <3> QED BY <1>2, <2>0, <3>1, <3>2, Effects
  <2>6. live' \in [runs : SUBSET Pairs, characters : SUBSET Pairs]
    <3>1. live \in [runs : SUBSET Pairs, characters : SUBSET Pairs]
      BY DEF TypeOK
    <3>2. PassRuns \/ PassCharacters => live' \in [runs : SUBSET Pairs, characters : SUBSET Pairs]
      BY <2>0, <3>1 DEF PassRuns, PassCharacters, PassType
    <3>3. \A p \in Pairs : PurgeBegins(p) => live' \in [runs : SUBSET Pairs, characters : SUBSET Pairs]
      BY <3>1 DEF PurgeBegins, Collections
    <3>4. PurgeCompletes => live' \in [runs : SUBSET Pairs, characters : SUBSET Pairs]
      BY <3>1 DEF PurgeCompletes, Collections
    <3> QED BY <1>2, <3>1, <3>2, <3>3, <3>4, Effects
  <2>7. purge' \in PurgeType \cup {NoPurge} /\ retired' \subseteq Pairs
    BY <1>2, PurgeTypes
  <2> QED BY <2>1, <2>2, <2>3, <2>4, <2>5, <2>6, <2>7
          DEF TypeOK, TickType, MarkerType, RowsType, PassType, PurgeType
<1> QED BY <1>1, <1>2

(* What is held is not written any more, nor forgotten.                      *)
LEMMA HeldStays ==
  ASSUME ArchiveInv, Next, NEW s \in Seasons, NEW r \in Regions
  PROVE  /\ Held(marker[s].regions[r]) =>
              stored'[<<s, r>>] = stored[<<s, r>>] /\ marker'[s].regions[r] = marker[s].regions[r]
         /\ tick.at \in {"region", "characters"} /\ s = tick.season /\ Held(tick.held[r]) =>
              stored'[<<s, r>>] = stored[<<s, r>>]
         /\ marker[s].status = "unarchivable" => marker'[s].status = "unarchivable"
<1>0. /\ TypeOK /\ TickIsTrue /\ <<s, r>> \in Pairs
      /\ (tick.at # "idle" => tick \in TickType) /\ marker \in [Seasons -> MarkerType]
  BY Types DEF ArchiveInv, Pairs
<1>1. RowsMove /\ MarkerMoves
  BY <1>0, RowMove, MarkerMove
<1>2. tick.at \in {"region", "characters"} /\ tick.owed # {} => Region \in tick.owed /\ Region \in Regions
  BY <1>0, InHand
<1>3. ASSUME stored'[<<s, r>>] # stored[<<s, r>>]
      PROVE  /\ tick.at \in {"region", "characters"} /\ s = tick.season /\ r = Region /\ r \in tick.owed
  BY <1>0, <1>1, <1>2, <1>3 DEF RowsMove, Pair
<1>4. stored'[<<s, r>>] # stored[<<s, r>>] => ~Held(marker[s].regions[r]) /\ ~Held(tick.held[r])
  BY <1>0, <1>3 DEF TickIsTrue
<1>5. ASSUME Held(marker[s].regions[r]) PROVE marker'[s].regions[r] = marker[s].regions[r]
  <2>1. CASE marker'[s] = marker[s]
    BY <2>1
  <2>2. CASE tick.at = "region" /\ s = tick.season
    <3>1. tick.held[r] = marker[s].regions[r]
      BY <1>0, <1>5, <2>2 DEF TickIsTrue
    <3>2. HoldsAnything
      BY <1>5, <3>1 DEF HoldsAnything, Held
    <3>3. \A interrupted \in BOOLEAN : MarkerOf(tick.held, interrupted).regions = tick.held
      BY DEF MarkerOf
    <3>4. marker'[s] = marker[s] \/ marker'[s].regions = tick.held
      BY <1>1, <2>2, <3>2, <3>3 DEF MarkerMoves
    <3> QED BY <3>1, <3>4
  <2> QED BY <1>1, <2>1, <2>2 DEF MarkerMoves
<1>6. marker[s].status = "unarchivable" => marker'[s].status = "unarchivable"
  BY <1>0, <1>1 DEF MarkerMoves, TickIsTrue
<1> QED BY <1>4, <1>5, <1>6

LEMMA MarkersStep == ArchiveInv /\ Next => MarkersAreTrue'
<1> SUFFICES ASSUME ArchiveInv, Next, NEW s \in Seasons, NEW r \in Regions
             PROVE  Says(marker[s].regions[r], <<s, r>>)'
  BY DEF MarkersAreTrue
<1>0. TypeOK /\ TickIsTrue /\ MarkersAreTrue /\ MarkerMoves /\ NoMarker.regions[r] = "absent"
  BY MarkerMove DEF ArchiveInv, NoMarker, NoEntries
<1>1. CASE marker'[s] = marker[s]
  BY <1>0, <1>1, HeldStays DEF MarkersAreTrue, Says, Held
<1>2. CASE tick.at = "region" /\ s = tick.season
  <2>1. CASE \E interrupted \in BOOLEAN : marker'[s] = MarkerOf(tick.held, interrupted)
    <3>1. marker'[s].regions[r] = tick.held[r]
      BY <2>1 DEF MarkerOf
    <3>2. Says(tick.held[r], <<s, r>>)
      BY <1>0, <1>2 DEF TickIsTrue
    <3> QED BY <1>2, <3>1, <3>2, HeldStays DEF Says, Held
  <2>2. CASE marker'[s] = [NoMarker EXCEPT !.status = "unarchivable"]
    <3>1. marker'[s].regions[r] = "absent"
      BY <1>0, <2>2 DEF NoMarker
    <3> QED BY <3>1 DEF Says
  <2> QED BY <1>0, <1>1, <1>2, <2>1, <2>2 DEF MarkerMoves
<1> QED BY <1>0, <1>1, <1>2 DEF MarkerMoves

LEMMA TickStep == ArchiveInv /\ Next => TickIsTrue'
<1> SUFFICES ASSUME ArchiveInv, Next PROVE TickIsTrue'
  OBVIOUS
<1>0. /\ TypeOK /\ TickIsTrue /\ MarkersAreTrue /\ TickMoves
      /\ tick \in TickType \cup {NoTick} /\ (tick.at # "idle" => tick \in TickType)
      /\ NoTick.at = "idle"
  BY Types, TickMove DEF ArchiveInv
<1>1. CASE tick'.at \notin {"region", "characters"}
  BY <1>1 DEF TickIsTrue
<1>2. CASE tick'.at \in {"region", "characters"}
  <2>1. \A skip : [NoTick EXCEPT !.at = "head", !.skip = skip].at = "head"
    BY DEF NoTick
  <2>2. marker' = marker
    BY <1>0, <1>2, <2>1, Effects DEF NotFound, RecordArchive, TickYields
  <2>3. \A s \in Seasons, r \in Regions : Ended(s, r) => Ended(s, r)'
    BY <1>0, TimeGoesOn
  <2>4. \/ ArchiveSeason /\ tick'.season \in Seasons
        \/ /\ tick.at \in {"region", "characters"} /\ tick'.season = tick.season /\ tick.season \in Seasons
           /\ \/ tick'.held = tick.held /\ tick'.owed = tick.owed
              \/ tick.owed # {} /\ \E entry \in Entries :
                   /\ tick' = Settle(entry)
                   /\ entry = "adopted" => AdoptStoredRegion
                   /\ entry = "fetched" => UpsertCharacters /\ tick.whole
    <3>1. tick.at \in {"region", "characters"} => tick \in TickType /\ tick.season \in Seasons
      BY <1>0 DEF TickIsTrue
    <3>2. tick.at \in {"region", "characters"} /\ tick.owed # {} =>
            \A entry \in Entries : Settle(entry).season = tick.season
      BY <1>0, <3>1, Settles
    <3> QED BY <1>0, <1>2, <3>1, <3>2 DEF TickMoves
  <2>5. PICK s \in Seasons : tick'.season = s
    BY <2>4
  <2>6. SUFFICES /\ marker[s].status # "unarchivable"
                 /\ \A r \in Regions :
                      /\ Ended(s, r)
                      /\ tick'.held[r] = "fetched" => stored'[<<s, r>>] = [runs |-> "all", characters |-> "all"]
                      /\ tick'.held[r] = "adopted" => stored'[<<s, r>>].runs = "all"
                      /\ r \in tick'.owed => ~Held(tick'.held[r])
                      /\ Held(marker[s].regions[r]) => r \notin tick'.owed /\ tick'.held[r] = marker[s].regions[r]
                 /\ tick'.at = "characters" => tick'.owed # {} /\ (tick'.whole => stored'[Pair'].runs = "all")
    <3>1. \A r \in Regions : Ended(s, r) => phase'[r] >= 2 * s - 1
      BY <2>3 DEF Ended
    <3> QED BY <1>2, <2>2, <2>5, <3>1 DEF TickIsTrue, Says, Ended
  <2>7. CASE ArchiveSeason
    <3>1. /\ s \in PendingSeasons /\ tick'.at = "region" /\ tick'.owed = RegionsOwed(s)
          /\ tick'.held = marker[s].regions /\ stored' = stored
      <4>1. tick.at = "head" /\ stored' = stored
        BY <2>7 DEF ArchiveSeason, archive
      <4>2. tick'.at = "region" /\ tick'.owed = RegionsOwed(s) /\ tick'.held = marker[s].regions
            /\ s \in PendingSeasons
        <5>1. \A entry \in Entries : tick' # Settle(entry) \/ tick.at = "head"
          BY <4>1
        <5>2. tick' # tick
          BY <1>2, <4>1
        <5> QED BY <1>0, <1>2, <2>5, <4>1, <5>2 DEF TickMoves
      <4> QED BY <4>1, <4>2
    <3>2. \A r \in Regions : Says(marker[s].regions[r], <<s, r>>)
      BY <1>0 DEF MarkersAreTrue
    <3> QED BY <3>1, <3>2 DEF PendingSeasons, IsFinished, RegionsOwed, Says
  <2>8. CASE tick.at \in {"region", "characters"} /\ tick.season = s
    <3>0. /\ tick \in TickType /\ marker[s].status # "unarchivable"
          /\ \A r \in Regions :
               /\ Ended(s, r)
               /\ Says(tick.held[r], <<s, r>>)
               /\ r \in tick.owed => ~Held(tick.held[r])
               /\ Held(marker[s].regions[r]) => r \notin tick.owed /\ tick.held[r] = marker[s].regions[r]
      BY <1>0, <2>8 DEF TickIsTrue
    <3>1. \A r \in Regions : Held(tick.held[r]) => stored'[<<s, r>>] = stored[<<s, r>>]
      BY <2>8, HeldStays
    <3>2. CASE tick'.held = tick.held /\ tick'.owed = tick.owed
      <4>1. tick'.at = "characters" => tick'.owed # {} /\ (tick'.whole => stored'[Pair'].runs = "all")
        <5> SUFFICES ASSUME tick'.at = "characters"
                     PROVE  tick'.owed # {} /\ (tick'.whole => stored'[Pair'].runs = "all")
          OBVIOUS
        <5>1. CASE tick' = tick
          <6>1. stored' = stored
            <7>1. ~UpsertCharacters
              BY <1>0, <3>0, <5>1, Settles DEF UpsertCharacters, Entries, TickIsTrue
            <7>2. \A whole \in BOOLEAN : ~UpsertRuns(whole)
              BY <5>1 DEF UpsertRuns, MayFetch
            <7>3. tick' # NoTick
              BY <1>0, <1>2
            <7> QED BY <7>1, <7>2, <7>3, Effects DEF TickYields, TickFails
          <6>2. Pair' = Pair
            BY <5>1 DEF Pair, Region
          <6> QED BY <1>0, <5>1, <6>1, <6>2 DEF TickIsTrue
        <5>2. CASE \E whole \in BOOLEAN : UpsertRuns(whole)
          <6>1. tick.owed # {}
            BY <5>2 DEF UpsertRuns, MayFetch
          <6> QED BY <1>0, <3>2, <5>2, <6>1, ReadWhole
        <5> QED BY <1>0, <1>2, <2>8, <3>0, <5>1, <5>2, Settles DEF TickMoves, ArchiveSeason
      <4> QED BY <3>0, <3>1, <3>2, <4>1 DEF Says, Held
    <3>3. ASSUME tick.owed # {}, NEW entry \in Entries, tick' = Settle(entry),
                 entry = "adopted" => AdoptStoredRegion, entry = "fetched" => UpsertCharacters /\ tick.whole
          PROVE  /\ tick'.at = "region" /\ tick'.owed = tick.owed \ {Region} /\ Region \in tick.owed
                 /\ tick'.held[Region] = entry /\ \A r \in Regions \ {Region} : tick'.held[r] = tick.held[r]
                 /\ entry = "fetched" => stored'[<<s, Region>>] = [runs |-> "all", characters |-> "all"]
                 /\ entry = "adopted" => stored'[<<s, Region>>].runs = "all"
      <4>1. Pair = <<s, Region>> /\ Region \in tick.owed
        BY <1>0, <2>8, <3>0, <3>3, InHand DEF Pair
      <4>2. entry = "fetched" => stored'[Pair] = [runs |-> "all", characters |-> "all"]
        BY <1>0, <3>3, ReadWhole
      <4>3. entry = "adopted" => stored'[Pair].runs = "all"
        BY <3>3 DEF AdoptStoredRegion, Adopted
      <4> QED BY <1>0, <3>0, <3>3, <4>1, <4>2, <4>3, Settles
    <3>4. CASE tick.owed # {} /\ \E entry \in Entries :
                 /\ tick' = Settle(entry)
                 /\ entry = "adopted" => AdoptStoredRegion
                 /\ entry = "fetched" => UpsertCharacters /\ tick.whole
      <4>1. PICK entry \in Entries :
              /\ tick'.at = "region" /\ tick'.owed = tick.owed \ {Region} /\ Region \in tick.owed
              /\ tick'.held[Region] = entry /\ \A r \in Regions \ {Region} : tick'.held[r] = tick.held[r]
              /\ entry = "fetched" => stored'[<<s, Region>>] = [runs |-> "all", characters |-> "all"]
              /\ entry = "adopted" => stored'[<<s, Region>>].runs = "all"
        BY <3>3, <3>4
      <4>2. ASSUME NEW r \in Regions
            PROVE  /\ tick'.held[r] = "fetched" => stored'[<<s, r>>] = [runs |-> "all", characters |-> "all"]
                   /\ tick'.held[r] = "adopted" => stored'[<<s, r>>].runs = "all"
                   /\ r \in tick'.owed => ~Held(tick'.held[r])
                   /\ Held(marker[s].regions[r]) => r \notin tick'.owed /\ tick'.held[r] = marker[s].regions[r]
        <5>1. CASE r = Region
          BY <3>0, <4>1, <5>1
        <5>2. CASE r # Region
          BY <3>0, <3>1, <4>1, <5>2 DEF Says, Held
        <5> QED BY <5>1, <5>2
      <4> QED BY <3>0, <4>1, <4>2
    <3> QED BY <2>4, <2>8, <3>2, <3>4 DEF ArchiveSeason
  <2> QED BY <2>4, <2>5, <2>7, <2>8
<1> QED BY <1>1, <1>2

LEMMA Archives == Spec => []ArchiveInv
<1>1. Init => ArchiveInv
  <2> SUFFICES ASSUME Init PROVE ArchiveInv
    OBVIOUS
  <2>1. NoEntries \in [Regions -> Entries] /\ MaxSeason \in Nat /\ LastPhase \in Nat
    BY SeasonsAssumption DEF NoEntries, Entries
  <2>2. marker \in [Seasons -> MarkerType] /\ stored \in [Pairs -> RowsType]
    BY <2>1 DEF Init, NoMarker, NoRows, MarkerType, RowsType, Amounts
  <2>3. /\ phase \in [Regions -> 0..LastPhase] /\ catalogue \in [listed : 0..MaxSeason, dated : SUBSET Seasons]
        /\ live \in [runs : SUBSET Pairs, characters : SUBSET Pairs]
    BY <2>1 DEF Init
  <2>7. TypeOK
    BY Zenon, <2>2, <2>3 DEF Init, TypeOK, MarkerType, RowsType
  <2>4. \A s \in Seasons, r \in Regions : marker[s].regions[r] = "absent"
    BY DEF Init, NoMarker, NoEntries
  <2>5. MarkersAreTrue
    BY <2>4 DEF MarkersAreTrue, Says
  <2>6. TickIsTrue
    BY DEF Init, NoTick, TickIsTrue
  <2> QED BY <2>5, <2>6, <2>7 DEF ArchiveInv
<1>2. ArchiveInv /\ [Next]_vars => ArchiveInv'
  <2>1. ArchiveInv /\ Next => ArchiveInv'
    BY TypeStep, MarkersStep, TickStep DEF ArchiveInv
  <2>2. ArchiveInv /\ UNCHANGED vars => ArchiveInv'
    BY DEF vars, world, archive, retiring, ArchiveInv, TypeOK, MarkersAreTrue, TickIsTrue, Says, Ended,
      Pair, Region
  <2> QED BY <2>1, <2>2
<1> QED BY <1>1, <1>2, PTL DEF Spec

(* What the archive's marker says of a region is true of the rows stored.    *)
THEOREM MarkersTrue == Spec => []MarkerIsTrue
<1>1. ArchiveInv => MarkerIsTrue
  BY DEF ArchiveInv, MarkersAreTrue, Says, MarkerIsTrue
<1> QED BY Archives, <1>1, PTL

(* A season is archived when every region is done with it, and what is held  *)
(* of a region is neither read again nor forgotten.                          *)
THEOREM ReadOnce == Spec => ReadOnceWhenOver
<1>1. ArchiveInv /\ [Next]_vars =>
        [\A p \in Pairs : LET entry == marker[p[1]].regions[p[2]] IN
           /\ stored'[p] # stored[p] => \A r \in Regions : Ended(p[1], r)
           /\ Held(entry) => stored'[p] = stored[p] /\ marker'[p[1]].regions[p[2]] = entry]_vars
  <2> SUFFICES ASSUME ArchiveInv, Next, NEW p \in Pairs
               PROVE  /\ stored'[p] # stored[p] => \A r \in Regions : Ended(p[1], r)
                      /\ Held(marker[p[1]].regions[p[2]]) =>
                           /\ stored'[p] = stored[p]
                           /\ marker'[p[1]].regions[p[2]] = marker[p[1]].regions[p[2]]
    OBVIOUS
  <2>1. p[1] \in Seasons /\ p[2] \in Regions /\ p = <<p[1], p[2]>>
    BY PairTypes
  <2>2. stored'[p] # stored[p] => \A r \in Regions : Ended(p[1], r)
    BY <2>1, RowMove DEF ArchiveInv, RowsMove, Pair, TickIsTrue
  <2> QED BY <2>1, <2>2, HeldStays
<1> QED BY Archives, <1>1, PTL DEF Spec, ReadOnceWhenOver

-----------------------------------------------------------------------------
(* The purge.                                                                *)

(* Once over, always over.                                                   *)
LEMMA OverStays ==
  ASSUME TypeOK, Next, NEW p \in Pairs, Over(p)
  PROVE  Over(p)'
<1>1. PICK s \in Listed : p[1] < s /\ Opened(s, p[2])
  BY DEF Over
<1>2. s \in Listed' /\ Opened(s, p[2])'
  BY <1>1, PairTypes, TimeGoesOn, Current
<1> QED BY <1>1, <1>2 DEF Over

(* The current season of a region is not over there.                         *)
LEMMA CurrentIsNotOver ==
  ASSUME TypeOK, NEW r \in DOMAIN Resolution
  PROVE  r \in Regions /\ Resolution[r] \in Listed /\ ~Over(<<Resolution[r], r>>)
<1>1. r \in Regions
  BY DEF Resolution
<1>2. Resolution[r] \in Listed /\ \A s \in Listed : Opened(s, r) => s <= Resolution[r]
  BY <1>1, Current
<1>3. \A s \in Listed : s \in Nat
  BY <1>1, Current DEF Seasons
<1> QED BY <1>1, <1>2, <1>3 DEF Over

(* What may be retired is over, and in the archive.                          *)
LEMMA CandidatesAreOver ==
  ASSUME TypeOK, NEW p \in Candidates, p[1] \in Listed
  PROVE  p \in Pairs /\ Over(p) /\ (RequireArchive => IsArchiveSettled(p[1], p[2]))
<1>1. p \in Pairs /\ Superseded(p[1], p[2]) /\ p[1] \in Listed
      /\ (RequireArchive => IsArchiveSettled(p[1], p[2]))
  BY DEF Candidates
<1>2. p[2] \in DOMAIN Resolution /\ p[1] < Resolution[p[2]]
  BY <1>1 DEF Superseded
<1>3. Resolution[p[2]] \in Listed /\ Opened(Resolution[p[2]], p[2])
  BY <1>1, <1>2, PairTypes, Current
<1> QED BY <1>1, <1>2, <1>3 DEF Over

LEMMA SettledStays ==
  ASSUME ArchiveInv, Next, NEW p \in Pairs, IsArchiveSettled(p[1], p[2])
  PROVE  marker'[p[1]].status = "unarchivable" \/ Held(marker'[p[1]].regions[p[2]])
  BY PairTypes, HeldStays DEF IsArchiveSettled

(* What a step plans to retire, retires and takes.                           *)
PurgeMoves ==
  /\ \A p \in Pairs : Retiring(p)' => Retiring(p) \/ (PlanPurge /\ p \in Candidates /\ HasRows(p))
  /\ \A p \in Pairs : p \in purge'.todo \cup {purge'.pair} =>
       p \in purge.todo \cup {purge.pair} \/ (PlanPurge /\ p \in Candidates /\ HasRows(p))
  /\ purge'.pair = purge.pair \/ purge'.pair = NoPair \/ PurgeBegins(purge'.pair)
  /\ retired' = retired \/ (PurgeCompletes /\ retired' = retired \cup {purge.pair})

LEMMA PurgeMove ==
  ASSUME TypeOK, Next
  PROVE  PurgeMoves
<1>0. /\ purge \in PurgeType \cup {NoPurge} /\ NoPurge.todo = {} /\ NoPurge.pair = NoPair
      /\ \A p \in Pairs : p # NoPair
  BY Types, PairTypes DEF NoPurge
<1>1. CASE PlanPurge
  <2>1. purge'.todo = {p \in Candidates : HasRows(p)} /\ purge'.pair = NoPair /\ retired' = retired
    BY <1>0, <1>1 DEF PlanPurge, NoPurge
  <2> QED BY <1>0, <1>1, <2>1 DEF PurgeMoves, Retiring
<1>2. ASSUME NEW q \in Pairs, PurgeBegins(q) PROVE PurgeMoves
  <2>1. purge'.todo = purge.todo \ {q} /\ purge'.pair = q /\ retired' = retired /\ q \in purge.todo
    BY <1>0, <1>2 DEF PurgeBegins, PurgeType, NoPurge
  <2> QED BY <1>0, <1>2, <2>1 DEF PurgeMoves, Retiring
<1>3. CASE PurgeCompletes
  <2>1. purge'.todo \subseteq purge.todo /\ purge'.pair = NoPair /\ retired' = retired \cup {purge.pair}
    BY <1>0, <1>3 DEF PurgeCompletes, PurgeType, NoPurge
  <2> QED BY <1>0, <1>3, <2>1 DEF PurgeMoves, Retiring
<1>4. CASE purge' = purge /\ retired' = retired
  BY <1>4 DEF PurgeMoves, Retiring
<1>5. CASE purge' = NoPurge /\ retired' = retired
  BY <1>0, <1>5 DEF PurgeMoves, Retiring
<1> QED BY <1>1, <1>2, <1>3, <1>4, <1>5, Effects

(* How the live rows change.                                                 *)
LiveMoves ==
  \/ live' = live /\ \A p \in Pairs : ~PurgeBegins(p)
  \/ PassRuns /\ live'.runs = live.runs \cup {pass.pair} /\ live'.characters = live.characters
  \/ PassCharacters /\ live'.runs = live.runs /\ live'.characters = live.characters \cup {pass.pair}
  \/ \E p \in Pairs : /\ PurgeBegins(p) /\ purge'.pair = p
                      /\ live'.runs = live.runs /\ live'.characters = live.characters \ {p}
  \/ PurgeCompletes /\ live'.runs = live.runs \ {purge.pair} /\ live'.characters = live.characters

LEMMA LiveMove ==
  ASSUME TypeOK, Next
  PROVE  LiveMoves
<1>0. live \in [runs : SUBSET Pairs, characters : SUBSET Pairs] /\ purge \in PurgeType \cup {NoPurge}
  BY Types DEF TypeOK
<1>1. CASE PassRuns
  BY <1>0, <1>1 DEF PassRuns, LiveMoves
<1>2. CASE PassCharacters
  BY <1>0, <1>2 DEF PassCharacters, LiveMoves
<1>3. ASSUME NEW p \in Pairs, PurgeBegins(p) PROVE LiveMoves
  <2>1. purge'.pair = p /\ live'.runs = live.runs /\ live'.characters = live.characters \ {p}
    BY <1>0, <1>3 DEF PurgeBegins, PurgeType, NoPurge, Collections
  <2> QED BY <1>3, <2>1 DEF LiveMoves
<1>4. CASE PurgeCompletes
  BY <1>0, <1>4 DEF PurgeCompletes, LiveMoves, Collections
<1> QED BY <1>1, <1>2, <1>3, <1>4, Effects DEF LiveMoves

LEMMA PurgeStep == ArchiveInv /\ ArchiveInv' /\ PurgeInv /\ Next => PurgeInv'
<1> SUFFICES ASSUME ArchiveInv, ArchiveInv', PurgeInv, Next PROVE PurgeInv'
  OBVIOUS
<1>0. /\ TypeOK /\ PurgeMoves /\ LiveMoves /\ PurgeIsSound /\ PassIsSound
      /\ OnlyNamedCharacters /\ RetiredForGood
      /\ pass \in PassType \cup {NoPass} /\ (pass.at # "idle" => pass \in PassType) /\ NoPass.at = "idle"
      /\ live \in [runs : SUBSET Pairs, characters : SUBSET Pairs]
      /\ live'.characters \subseteq Pairs /\ NoPair \notin Pairs /\ retired \subseteq Pairs
  BY PurgeMove, LiveMove, Types, PairTypes DEF ArchiveInv, PurgeInv, TypeOK
<1>1. ASSUME NEW p \in Pairs PROVE Retiring(p)' => Over(p)'
  BY <1>0, OverStays, CandidatesAreOver DEF PurgeMoves, PurgeIsSound, PassIsSound
<1>2. ASSUME NEW p \in Pairs, RequireArchive, p \in purge'.todo \cup {purge'.pair}
      PROVE  marker'[p[1]].status = "unarchivable" \/ Held(marker'[p[1]].regions[p[2]])
  BY <1>0, <1>2, SettledStays, CandidatesAreOver DEF PurgeMoves, PurgeIsSound, PassIsSound
<1>3. pass # NoPass =>
        /\ pass \in PassType /\ pass.pair \in Pairs /\ pass.pair[1] \in Listed
        /\ pass.pair \notin purge.todo /\ pass.pair # purge.pair /\ pass.pair \notin retired
  BY <1>0 DEF PassIsSound, PassType, Retiring
<1>4. (PassRuns \/ PassCharacters) => pass # NoPass /\ purge' = purge /\ retired' = retired
  BY <1>0 DEF PassRuns, PassCharacters, retiring
<1>5. PurgeCompletes => purge.pair \in Pairs /\ purge.pair \notin live.characters /\ purge'.pair = NoPair
                        /\ retired' = retired \cup {purge.pair} /\ pass' = pass
                        /\ live'.runs = live.runs \ {purge.pair} /\ live'.characters = live.characters
  BY <1>0, Types DEF PurgeCompletes, PurgeIsSound, NoPurge, PurgeType, Collections
<1>6. ASSUME NEW p \in Pairs, PurgeBegins(p)
      PROVE  purge'.pair = p /\ pass' = pass /\ retired' = retired /\ p \in purge.todo
  BY <1>0, <1>6, Types DEF PurgeBegins, NoPurge, PurgeType
<1>7. purge'.pair \notin live'.characters
  BY <1>0, <1>3, <1>4, <1>5, <1>6 DEF PurgeMoves, LiveMoves, PurgeIsSound
<1>8. \A p \in Pairs : p \in live'.runs \cup live'.characters => p[1] \in Listed'
  BY <1>0, <1>3, <1>4, TimeGoesOn DEF LiveMoves, PassIsSound, HasRows
<1>9. pass' # NoPass =>
        /\ pass'.pair[1] \in Listed'
        /\ pass'.pair \notin purge'.todo /\ pass'.pair # purge'.pair /\ pass'.pair \notin retired'
  <2>1. CASE pass # NoPass /\ pass'.pair = pass.pair
    <3>1. ~PlanPurge
      BY <2>1 DEF PlanPurge, Permitted
    <3>2. pass.pair \in Pairs /\ ~Retiring(pass.pair)
      BY <1>3, <2>1 DEF Retiring
    <3>3. \A p \in Pairs : Retiring(p)' => Retiring(p)
      BY <1>0, <3>1 DEF PurgeMoves
    <3>4. pass.pair \notin purge'.todo /\ pass.pair # purge'.pair /\ pass.pair \notin retired'
      BY <3>2, <3>3 DEF Retiring
    <3> QED BY <1>0, <1>3, <2>1, <3>4, TimeGoesOn
  <2>2. ASSUME NEW r \in Regions, PassStarts(r)
        PROVE  /\ pass'.pair[1] \in Listed'
               /\ pass'.pair \notin purge'.todo /\ pass'.pair # purge'.pair /\ pass'.pair \notin retired'
    <3>1. r \in DOMAIN Resolution /\ pass'.pair = <<Resolution[r], r>> /\ purge' = purge /\ retired' = retired
      BY <2>2 DEF PassStarts, retiring
    <3>2. Resolution[r] \in Listed /\ ~Over(<<Resolution[r], r>>) /\ <<Resolution[r], r>> \in Pairs
      BY <1>0, <3>1, CurrentIsNotOver, Current DEF Pairs
    <3>3. ~Retiring(<<Resolution[r], r>>)
      BY <1>0, <3>2 DEF PurgeIsSound
    <3> QED BY <1>0, <3>1, <3>2, <3>3, TimeGoesOn DEF Retiring
  <2>3. PassRuns => pass # NoPass /\ pass'.pair = pass.pair
    BY <1>0, <1>3, <1>4 DEF PassRuns, PassType
  <2> QED BY <2>1, <2>2, <2>3, Effects
<1>10. pass'.at = "characters" => pass'.pair \in live'.runs
  <2>1. CASE pass' = pass /\ pass.at = "characters"
    BY <1>0, <1>3, <1>5, <2>1 DEF LiveMoves, PassIsSound
  <2>2. CASE PassRuns
    <3>1. pass'.pair = pass.pair /\ pass.pair \in Pairs
      BY <1>0, <1>3, <1>4, <2>2 DEF PassRuns, PassType
    <3> QED BY <1>0, <2>2, <3>1 DEF PassRuns
  <2>3. \A r \in Regions : PassStarts(r) => pass'.at = "runs"
    BY DEF PassStarts
  <2> QED BY <1>0, <2>1, <2>2, <2>3, Effects
<1>11. OnlyNamedCharacters'
  BY <1>0, <1>3, <1>4, <1>5 DEF LiveMoves, OnlyNamedCharacters, PassIsSound, PassCharacters
<1>12. RetiredForGood'
  <2> SUFFICES ASSUME NEW p \in retired' PROVE p \notin live'.runs \cup live'.characters
    BY DEF RetiredForGood, HasRows
  <2>1. CASE p \in retired
    BY <1>0, <1>3, <1>4, <2>1 DEF LiveMoves, RetiredForGood, HasRows
  <2>2. CASE PurgeCompletes /\ p = purge.pair
    BY <1>5, <2>2
  <2> QED BY <1>0, <2>1, <2>2 DEF PurgeMoves
<1> QED BY <1>1, <1>2, <1>7, <1>8, <1>9, <1>10, <1>11, <1>12
        DEF PurgeInv, PurgeIsSound, PassIsSound, IsArchiveSettled, HasRows, Retiring

LEMMA Purges == Spec => [](ArchiveInv /\ PurgeInv)
<1>1. Init => PurgeInv
  BY PairTypes DEF Init, PurgeInv, PurgeIsSound, PassIsSound, OnlyNamedCharacters, RetiredForGood,
    Retiring, HasRows,
    NoPass, NoPurge
<1>2. ArchiveInv /\ ArchiveInv' /\ PurgeInv /\ [Next]_vars => PurgeInv'
  <2>1. PurgeInv /\ UNCHANGED vars => PurgeInv'
    BY DEF vars, world, archive, retiring, PurgeInv, PurgeIsSound, PassIsSound, OnlyNamedCharacters,
      RetiredForGood,
      Retiring, HasRows, IsArchiveSettled, Over, Listed, Opened
  <2> QED BY <2>1, PurgeStep
<1> QED BY <1>1, <1>2, Archives, PTL DEF Spec

(* Every live character is of a pair with live runs, at every moment of a    *)
(* pass and of a purge, and after either has been cut short.                 *)
THEOREM NamedCharacters == Spec => []OnlyNamedCharacters
<1>1. PurgeInv => OnlyNamedCharacters
  BY DEF PurgeInv
<1> QED BY Purges, <1>1, PTL

(* A board that has been retired does not come back.                         *)
THEOREM GoneForGood == Spec => []RetiredForGood
<1>1. PurgeInv => RetiredForGood
  BY DEF PurgeInv
<1> QED BY Purges, <1>1, PTL

(* A purge takes a board only where its successor has opened, and only with  *)
(* its runs in the archive, unless they are not to be had.                   *)
THEOREM ArchivedBeforeRetired == Spec => RetiredIsArchived
<1>1. ArchiveInv /\ PurgeInv /\ [Next]_vars =>
        [\A p \in Pairs : p \in live.runs /\ p \notin live'.runs =>
           /\ Opened(p[1] + 1, p[2])
           /\ \/ stored[p].runs = "all" \/ ~RequireArchive
              \/ marker[p[1]].regions[p[2]] = "unserved" \/ marker[p[1]].status = "unarchivable"]_vars
  <2> SUFFICES ASSUME ArchiveInv, PurgeInv, Next, NEW p \in Pairs, p \in live.runs, p \notin live'.runs
               PROVE  /\ Opened(p[1] + 1, p[2])
                      /\ \/ stored[p].runs = "all" \/ ~RequireArchive
                         \/ marker[p[1]].regions[p[2]] = "unserved" \/ marker[p[1]].status = "unarchivable"
    OBVIOUS
  <2>1. p = purge.pair
    BY LiveMove DEF ArchiveInv, LiveMoves
  <2>2. Over(p) /\ (RequireArchive => IsArchiveSettled(p[1], p[2]))
    BY <2>1 DEF PurgeInv, PurgeIsSound, Retiring
  <2>3. Opened(p[1] + 1, p[2])
    <3>1. PICK s \in Listed : p[1] < s /\ Opened(s, p[2])
      BY <2>2 DEF Over
    <3>2. p[1] \in Nat /\ s \in Nat /\ p[2] \in Regions /\ phase[p[2]] \in Int
      BY PairTypes, Current, SeasonsAssumption DEF Seasons, ArchiveInv, TypeOK
    <3> QED BY <3>1, <3>2 DEF Opened
  <2>4. IsArchiveSettled(p[1], p[2]) =>
          \/ stored[p].runs = "all"
          \/ marker[p[1]].regions[p[2]] = "unserved" \/ marker[p[1]].status = "unarchivable"
    <3>1. Says(marker[p[1]].regions[p[2]], p)
      BY PairTypes DEF ArchiveInv, MarkersAreTrue
    <3> QED BY <3>1 DEF IsArchiveSettled, Held, Says
  <2> QED BY <2>2, <2>3, <2>4
<1> QED BY Purges, <1>1, PTL DEF Spec, RetiredIsArchived
===============================================================================
