------------------------------ MODULE MCRaiderIo ------------------------------
(* What is read from Raider.io: the live Mythic+ board, the minute its       *)
(* requests are counted in, the season it is of, the catalogue of raids and  *)
(* their rankings.  They are explored one beside the other, not multiplied:  *)
(* all that the pass learns of the minute is whether it may go on            *)
(* (PagesEnd), all that the minute learns of the pass is that it is active   *)
(* (PassTurns), an observe reads nothing of either, and whatever the         *)
(* catalogue may say of a raid the rankings may meet (EndNamed, RunBegins).  *)
(* The board has three runs of two characters: one beats another in the same *)
(* dungeon, and one character is in a single run.  The raids are one of each *)
(* expansion.  The rankings are two boards in a scheduled run of two         *)
(* workers, of a raid that closes meanwhile; or one board in a scheduled run *)
(* beside one asked for by hand, with an end that moves.                     *)
EXTENDS MplusBoard, RaiderIoBudget, MplusObservation, RaidCatalogue, RaidBoards

VARIABLE side  \* which of them a behaviour explores

MCRosterOf == [r \in Runs |-> IF r = "r2" THEN {"c1", "c2"} ELSE {"c1"}]
MCDungeonOf == [r \in Runs |-> IF r = "r2" THEN "d2" ELSE "d1"]
MCScoreOf == [r \in Runs |-> IF r = "r1" THEN 2 ELSE 1]
MCPushed == {[d \in Dungeons |-> IF d = "d2" THEN 2 ELSE 0]}
MCExpansionOf == [r \in Raids |-> CASE r = "one" -> 1 [] r = "two" -> 2 [] OTHER -> 3]
MCWorkersOf == [k \in {"scheduled", "hand"} |-> IF k = "hand" THEN {"w1"} ELSE {"w1", "w2"}]

mplusVars == <<vars, minuteVars, watchVars>>
allVars == <<mplusVars, catalogueVars, raidVars>>

Closing(ends) == \A b \in Boards : closes[b] = ends

MCInit ==
  /\ Init /\ MinuteInit /\ WatchInit /\ CatalogueInit /\ RaidInit
  /\ \/ side \in {"board", "minute", "season"} /\ exist = {} /\ Closing(Open)
     \/ side = "catalogue" /\ Closing(Open)
     \/ side = "oneRun" /\ exist = {} /\ Closing(2)
     \/ side = "oneBoard" /\ exist = {} /\ closes["b2"] = Open

MCNext ==
  /\ UNCHANGED side
  /\ \/ side = "board" /\ Next /\ UNCHANGED <<minuteVars, watchVars, catalogueVars, raidVars>>
     \/ side = "minute" /\ MinuteNext /\ UNCHANGED <<vars, watchVars, catalogueVars, raidVars>>
     \/ side = "season" /\ WatchNext /\ UNCHANGED <<vars, minuteVars, catalogueVars, raidVars>>
     \/ side = "catalogue" /\ CatalogueNext /\ UNCHANGED <<mplusVars, raidVars>>
     \/ /\ side = "oneRun" /\ RaidNext /\ UNCHANGED <<mplusVars, catalogueVars>>
        /\ run'["hand"] = NoRun /\ closes' = closes
     \/ /\ side = "oneBoard" /\ RaidNext /\ UNCHANGED <<mplusVars, catalogueVars>>
        /\ closes'["b2"] = Open /\ \A k \in Kinds : run'[k].due \subseteq {"b1"}

MCSpec == MCInit /\ [][MCNext]_<<allVars, side>>
===============================================================================
