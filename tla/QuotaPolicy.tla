---------------------------- MODULE QuotaPolicy ----------------------------
(* The shares of the hourly Blizzard quota, as functions of what each        *)
(* consumer has spent in the window: QuotaBudget of                          *)
(* common/quota/quota-budget.service.ts.                                     *)
EXTENDS Integers

CONSTANTS
  Usable,             \* QUOTA_HOURLY_LIMIT x QUOTA_UTILISATION
  SweepReserve,       \* QUOTA_SWEEP_RESERVE
  EnrichmentShare,    \* QUOTA_HOURLY_LIMIT / QUOTA_ENRICHMENT_HEADROOM
  ArchiveConcurrency  \* ARCHIVE_CONCURRENCY: brackets fetched at once

(* The service does not boot with shares that promise more than is usable.   *)
ASSUME QuotaAssumption ==
  /\ Usable \in Nat /\ SweepReserve \in Nat /\ EnrichmentShare \in Nat
  /\ ArchiveConcurrency \in Nat \ {0}
  /\ SweepReserve + EnrichmentShare <= Usable

Consumers == {"sweep", "enrichment", "archive", "other"}

AtLeastZero(x) == IF x > 0 THEN x ELSE 0
Lesser(x, y) == IF x < y THEN x ELSE y
Greater(x, y) == IF x < y THEN y ELSE x

(* A faulty room, that forgets what the sweep has not spent yet.             *)
RoomWithoutReserve(by) ==
  Usable - (by["sweep"] + by["enrichment"] + by["archive"] + by["other"])

(* What is left once the sweep's unspent reserve is held back.               *)
Room(by) ==
  Usable - (by["sweep"] + by["enrichment"] + by["archive"] + by["other"])
         - AtLeastZero(SweepReserve - by["sweep"])

EnrichmentAllowance(by) == AtLeastZero(Lesser(EnrichmentShare - by["enrichment"], Room(by)))

(* The archive takes nothing enrichment could still claim.                   *)
ArchiveAllowance(by) ==
  AtLeastZero(Room(by) - AtLeastZero(EnrichmentShare - by["enrichment"]))
============================================================================
