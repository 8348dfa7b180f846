----------------------------- MODULE RaidCatalogue -----------------------------
(***************************************************************************)
(* The catalogue of raids (src/src/raid/raid-catalogue.service.ts and its  *)
(* repository): a walk asks Raider.io for one expansion after the other,   *)
(* stamps the raids it is served, and takes those it was not served for    *)
(* gone if it reached the end of the list.  The list has no length: its    *)
(* end is an answer that an error may give as well.                        *)
(***************************************************************************)
EXTENDS Integers, FiniteSets, FiniteSetsExt

CONSTANTS
  Raids,
  ExpansionOf,   \* the expansion a raid belongs to, numbered from the first asked for
  MaxWalked,     \* MAX_EXPANSIONS_WALKED
  LastDay        \* bound: the time

ASSUME CatalogueAssumption ==
  /\ MaxWalked \in Nat \ {0} /\ ExpansionOf \in [Raids -> 1..MaxWalked]
  /\ LastDay \in Nat \ {0}

VARIABLES
  day,       \* the time
  exist,     \* the raids Raider.io has
  seenAt,    \* catalogueUpdatedAt, 0 for a raid that is not stored
  unlisted,  \* the raids stored with an unlistedAt
  walk,      \* the walk in progress
  emptied    \* history: an answer without raids ended the last walk

catalogueVars == <<day, exist, seenAt, unlisted, walk, emptied>>

(* gone: history, the raids that did not exist when they would have been     *)
(* served.                                                                   *)
NoWalk == [on |-> FALSE, at |-> 0, next |-> 1, newest |-> 0, holes |-> FALSE, served |-> FALSE,
           gone |-> {}]

Of(x) == {r \in Raids : ExpansionOf[r] = x}
Listed == {r \in Raids : seenAt[r] > 0} \ unlisted

CatalogueTypeOK ==
  /\ day \in 1..LastDay /\ exist \subseteq Raids
  /\ seenAt \in [Raids -> 0..LastDay] /\ unlisted \subseteq {r \in Raids : seenAt[r] > 0}
  /\ walk \in [on : BOOLEAN, at : 0..LastDay, next : 1..MaxWalked, newest : 0..MaxWalked,
               holes : BOOLEAN, served : BOOLEAN, gone : SUBSET Raids]
  /\ emptied \in BOOLEAN

CatalogueInit ==
  /\ day = 1 /\ exist \in SUBSET Raids
  /\ seenAt = [r \in Raids |-> 0] /\ unlisted = {}
  /\ walk = NoWalk /\ emptied = FALSE

DayPasses ==
  /\ day < LastDay /\ day' = day + 1
  /\ UNCHANGED <<exist, seenAt, unlisted, walk, emptied>>

RaidAppearsOrGoes(r) ==
  /\ exist' = IF r \in exist THEN exist \ {r} ELSE exist \cup {r}
  /\ UNCHANGED <<day, seenAt, unlisted, walk, emptied>>

(* refresh: asked for by hand at any time, or by refreshIfDue once what is   *)
(* listed is old; those who ask during a walk share it.  The newest          *)
(* expansion stored is read before the first is asked for.                   *)
WalkStarts ==
  /\ ~walk.on
  /\ walk' = [NoWalk EXCEPT !.on = TRUE, !.at = day,
                            !.newest = Max({0} \cup {ExpansionOf[r] : r \in Listed})]
  /\ emptied' = FALSE
  /\ UNCHANGED <<day, exist, seenAt, unlisted>>

Absent == Of(walk.next) \ exist

(* On to the next expansion, or to the hard stop.                            *)
WalkOn(served, holes) ==
  walk' = IF walk.next = MaxWalked THEN NoWalk
          ELSE [walk EXCEPT !.next = @ + 1, !.gone = @ \cup Absent,
                            !.served = @ \/ served, !.holes = @ \/ holes]

(* markUnlisted, after a walk that reached the end: the raids it was not     *)
(* served.  The gone of the walk stay until the next one begins.             *)
WalkEnds(complete) ==
  /\ unlisted' = IF complete /\ walk.served THEN unlisted \cup {r \in Listed : seenAt[r] < walk.at}
                 ELSE unlisted
  /\ walk' = NoWalk

(* upsertRaids: a raid that is listed again is no longer unlisted.           *)
ExpansionServed ==
  /\ walk.on /\ Of(walk.next) \cap exist # {}
  /\ LET served == Of(walk.next) \cap exist
     IN  /\ seenAt' = [r \in Raids |-> IF r \in served THEN walk.at ELSE seenAt[r]]
         /\ unlisted' = unlisted \ served
  /\ WalkOn(TRUE, FALSE)
  /\ UNCHANGED <<day, exist, emptied>>

(* A faulty Refused that takes any refusal for the end of the list.          *)
RefusedIsTheEnd ==
  /\ walk.on
  /\ WalkEnds(TRUE)
  /\ UNCHANGED <<day, exist, seenAt, emptied>>

(* A 400, the expansion being unsupported or the answer being wrong: a hole  *)
(* if raids of this expansion or a later one are stored, the end otherwise.  *)
Refused ==
  /\ walk.on
  /\ \/ walk.next <= walk.newest /\ WalkOn(FALSE, TRUE) /\ UNCHANGED unlisted
     \/ walk.next > walk.newest /\ WalkEnds(~walk.holes)
  /\ UNCHANGED <<day, exist, seenAt, emptied>>

(* An expansion with no raids in it is taken for the end, wherever it is.    *)
AnsweredEmpty ==
  /\ walk.on
  /\ WalkEnds(TRUE) /\ emptied' = TRUE
  /\ UNCHANGED <<day, exist, seenAt>>

(* Any other error, a write that fails, or the process stops.                *)
WalkFails ==
  /\ walk.on /\ WalkEnds(FALSE)
  /\ UNCHANGED <<day, exist, seenAt, emptied>>

CatalogueNext ==
  \/ DayPasses \/ WalkStarts \/ ExpansionServed \/ Refused \/ AnsweredEmpty \/ WalkFails
  \/ \E r \in Raids : RaidAppearsOrGoes(r)

CatalogueSpec == CatalogueInit /\ [][CatalogueNext]_catalogueVars

(* A raid is taken for gone only by a walk in which it did not exist when    *)
(* its expansion was asked for, whatever other expansions were refused,      *)
(* failed or came back meanwhile.  It leaves out an answer without raids,    *)
(* which ends the list past any hole before it (raid-catalogue.service.ts,   *)
(* walk): that one does take raids that are there for gone.  And every value *)
(* is of its type.                                                           *)
OnlyGoneUnlisted ==
  [][/\ CatalogueTypeOK'
     /\ emptied' \/ unlisted' \ unlisted \subseteq walk.gone]_catalogueVars
===============================================================================
