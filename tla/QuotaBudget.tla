---------------------------- MODULE QuotaBudget ----------------------------
(* The jobs that spend the Blizzard quota, over the window they are counted  *)
(* in: common/quota/quota-budget.service.ts, the batch of                    *)
(* profile/profile-enrichment.service.ts and the checks of archive/. What a  *)
(* job asked at one moment it spends later, one request at a time, beside    *)
(* the others. In memory only: a restart begins at WindowInit again.         *)
EXTENDS RollingWindow, QuotaPolicy

CONSTANTS
  RunPace,       \* requests one pass may plan: its part of the hour, twice
  BatchSize,     \* PROFILE_BATCH_SIZE: characters of one pass
  MaxDue,        \* bound: characters due for each kind of refresh
  MaxUnforeseen, \* bound: requests nobody asks an allowance for
  MaxRequests    \* bound: requests ever made

ASSUME BudgetAssumption ==
  /\ Keys = Consumers
  /\ {RunPace, BatchSize, MaxDue, MaxUnforeseen, MaxRequests} \subseteq Nat

VARIABLES
  sweeping,   \* a ladder sweep is active
  enriching,  \* an enrichment pass has its batch
  left,       \* requests of the pass not made yet
  inFlight,   \* archive brackets allowed and not requested yet
  unforeseen  \* history: requests no allowance was asked for

jobVars == <<sweeping, enriching, left, inFlight>>
budgetVars == <<clock, ring, charged, sweeping, enriching, left, inFlight, unforeseen>>

TypeOK ==
  /\ WindowTypeOK
  /\ sweeping \in BOOLEAN /\ enriching \in BOOLEAN
  /\ left \in Nat /\ unforeseen \in Nat
  /\ inFlight \in 0 .. ArchiveConcurrency
  /\ left > 0 => enriching

Init ==
  /\ WindowInit
  /\ sweeping = FALSE /\ enriching = FALSE /\ left = 0
  /\ inFlight = 0 /\ unforeseen = 0

SpentBy == [k \in Consumers |-> Spent(k)]

(* One attempt, first or retried, charged before it is sent.                 *)
Attempt(k) ==
  /\ SumFunction([b \in 0 .. clock |-> SumFunction(charged[b])]) < MaxRequests
  /\ Record(k)

Unforeseen(n) == unforeseen' = unforeseen + n /\ unforeseen' <= MaxUnforeseen

SweepBegins == ~sweeping /\ sweeping' = TRUE
  /\ UNCHANGED <<windowVars, enriching, left, inFlight, unforeseen>>
SweepEnds == sweeping /\ sweeping' = FALSE
  /\ UNCHANGED <<windowVars, enriching, left, inFlight, unforeseen>>

(* The sweep asks nobody.                                                    *)
SweepRequests ==
  /\ sweeping
  /\ Attempt("sweep")
  /\ Unforeseen(IF Spent("sweep") < SweepReserve THEN 0 ELSE 1)
  /\ UNCHANGED jobVars

(* A faulty batch: as many as are due, whatever the quota allows.            *)
BatchOfDue(due, dear) == Lesser(due, BatchSize)

(* How many characters a pass takes: those due, or what the allowance buys   *)
(* at their average cost, when `dear` of them need both halves.              *)
BatchOf(due, dear) ==
  LET budget == Lesser(EnrichmentAllowance(SpentBy), RunPace)
  IN  Lesser(Lesser(due, (budget * due) \div (due + dear)), BatchSize)

(* The batch is sized, and the characters are read: the stalest, a character *)
(* never fetched first, so they may cost more than the average.              *)
PlanBatch ==
  /\ ~enriching /\ ~sweeping
  /\ \E due \in 1 .. MaxDue : \E dear \in 0 .. due :
       LET n == BatchOf(due, dear)
       IN  \E both \in AtLeastZero(n - (due - dear)) .. Lesser(n, dear) :
             /\ n > 0
             /\ left' = n + both
             /\ Unforeseen(AtLeastZero(both - (n * dear) \div due))
  /\ enriching' = TRUE
  /\ UNCHANGED <<windowVars, sweeping, inFlight>>

EnrichmentRequests ==
  /\ left > 0
  /\ Attempt("enrichment")
  /\ left' = left - 1
  /\ UNCHANGED <<sweeping, enriching, inFlight, unforeseen>>

(* A character past the check of its turn is fetched during the sweep; the   *)
(* others are skipped, and a missing one needs no second request.            *)
CharacterDropped ==
  /\ left > 0
  /\ left' = left - 1
  /\ UNCHANGED <<windowVars, sweeping, enriching, inFlight, unforeseen>>

PassEnds ==
  /\ enriching /\ left = 0
  /\ enriching' = FALSE
  /\ UNCHANGED <<windowVars, sweeping, left, inFlight, unforeseen>>

(* A faulty check that leaves the number of brackets at once to nobody.      *)
ArchiveChecksAll ==
  /\ ~sweeping /\ ~enriching
  /\ ArchiveAllowance(SpentBy) > 0
  /\ inFlight' = inFlight + 1
  /\ UNCHANGED <<windowVars, sweeping, enriching, left, unforeseen>>

(* archiveBracket and the head of the loop: give way, then ask, then wait    *)
(* for the limiter with the answer in hand.                                  *)
ArchiveChecks ==
  /\ ~sweeping /\ ~enriching
  /\ ArchiveAllowance(SpentBy) > 0
  /\ inFlight < ArchiveConcurrency
  /\ inFlight' = inFlight + 1
  /\ UNCHANGED <<windowVars, sweeping, enriching, left, unforeseen>>

ArchiveRequests ==
  /\ inFlight > 0
  /\ Attempt("archive")
  /\ inFlight' = inFlight - 1
  /\ UNCHANGED <<sweeping, enriching, left, unforeseen>>

(* A retry of a batch's or a bracket's request, the season's record, a call  *)
(* outside every job: charged, and asked of nobody.                          *)
Unthrottled ==
  /\ \E k \in {"enrichment", "archive", "other"} :
       /\ k = "enrichment" => enriching
       /\ Attempt(k)
  /\ Unforeseen(1)
  /\ UNCHANGED jobVars

Rolls == TimePasses /\ UNCHANGED <<jobVars, unforeseen>>

Next ==
  \/ SweepBegins \/ SweepRequests \/ SweepEnds
  \/ PlanBatch \/ EnrichmentRequests \/ CharacterDropped \/ PassEnds
  \/ ArchiveChecks \/ ArchiveRequests \/ Unthrottled \/ Rolls

Spec == Init /\ [][Next]_budgetVars

(* The budget over its window keeps the shares: every step of the jobs is a  *)
(* step of QuotaShares over the sums the window answers.                     *)
Shares == INSTANCE QuotaShares WITH spent <- SpentBy, batch <- left
KeepsShares == Shares!SharesSpec

(* Whatever is spent between a check and the requests it allowed, the sweep  *)
(* keeps its reserve and enrichment its share of what the window counts; and *)
(* every value is of its type.                                               *)
SharesHeld == TypeOK /\ Shares!SharesHeld
============================================================================
