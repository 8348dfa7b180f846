----------------------------- MODULE MCMplusSeasons -----------------------------
(* Two regions that move to their second season apart from one another.      *)
EXTENDS MplusSeasons

MCOrder == <<"eu", "us">>
PerRegion(eu, us) == [r \in Regions |-> IF r = "eu" THEN eu ELSE us]
MCBoards == {PerRegion("full", "unserved"), PerRegion("short", "unserved"), PerRegion("unserved", "short")}
=============================================================================
