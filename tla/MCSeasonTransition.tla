-------------------------- MODULE MCSeasonTransition --------------------------
(* Two regions that move to the second season apart from one another, one of *)
(* them with a first season that is no longer served; or that one alone.     *)
EXTENDS SeasonTransition

Both == {"eu", "us"}
Alone == {"us"}
OneFamily == <<"3v3">>
GoneInUs == {<<"us", 1>>}
=============================================================================
