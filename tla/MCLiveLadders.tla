----------------------------- MODULE MCLiveLadders -----------------------------
(* The live PvP season: which one it is, its ladders, and the queue by which *)
(* their characters are enriched.  They are explored one beside the other,   *)
(* not multiplied: a sweep asks once which season it is and then keeps to    *)
(* the answer, which is the one LiveLadders is about; of the ladders the     *)
(* queue sees that a character appears (Added) or is pushed (Pushed) and     *)
(* that a sweep is on (LeftAsItWas); of the queue the ladders see whose turn *)
(* it is, which may be anybody's (EnrichStarts).  The season is refreshed    *)
(* daily and by a sweep at once, or daily beside the pass over the rewards.  *)
(* There are two ladders: of one shuffle family, or 3v3 beside a shuffle     *)
(* ladder; enrichment, which labels the rows of core ladders, has nothing to *)
(* do where there are none and is left out there; elsewhere any two of a     *)
(* sweep, a push and an enrichment overlap, but not all three.               *)
EXTENDS LiveLadders, EnrichmentQueue, SeasonObservation

VARIABLE side  \* which of them a behaviour explores

MCCatalogues == {[b1 |-> "shuffle", b2 |-> "shuffle"], [b1 |-> "3v3", b2 |-> "shuffle"]}

MCInit ==
  /\ Init /\ QueueInit /\ SeasonInit
  /\ \/ side = "ladders"
     \/ side \in {"queue", "season", "rewards"} /\ family = CHOOSE f \in Catalogues : TRUE
MCNext ==
  \/ /\ side = "ladders" /\ Next /\ UNCHANGED <<queueVars, seasonVars, side>>
     /\ enrich' = "idle" \/ (CoreBrackets # {} /\ (push' = NoPush \/ sweep'.at = "idle"))
  \/ side = "queue" /\ QueueNext /\ UNCHANGED <<vars, seasonVars, side>>
  \/ /\ side = "season" /\ SeasonNext /\ UNCHANGED <<vars, queueVars, side>>
     /\ rewarder' = None
  \/ /\ side = "rewards" /\ SeasonNext /\ UNCHANGED <<vars, queueVars, side>>
     /\ reader'["sweep"] = AtRest
MCSpec == MCInit /\ [][MCNext]_<<vars, queueVars, seasonVars, side>>
===============================================================================
