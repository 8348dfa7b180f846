---------------------------- MODULE MCSeasonArchive ----------------------------
(* A region whose finished season is not served, before one that plays its   *)
(* second season to the end and holds its first from before fetches were     *)
(* recorded; in its second, nobody is on one of the ladders.                                  *)
EXTENDS SeasonArchive

MCRegions == <<"kr", "us">>
PerRegion(kr, us) == [r \in {"kr", "us"} |-> IF r = "kr" THEN kr ELSE us]
MCPlaying == PerRegion(2, 2)
MCLastSeason == PerRegion(2, 3)
MCPublished == [p \in Pairs |-> IF p[2] = 1 THEN {"3v3"} ELSE {"3v3", "rbg"}]
MCServed == {<<"us", s>> : s \in 1..3}
MCLegacy == {<<"us", 1>>}
=============================================================================
