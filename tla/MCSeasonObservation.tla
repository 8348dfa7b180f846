------------------------ MODULE MCSeasonObservation ------------------------
(* The daily refresh alone, beside the rewards pass.                         *)
EXTENDS SeasonObservation

Alone == {"scheduler"}
=============================================================================
