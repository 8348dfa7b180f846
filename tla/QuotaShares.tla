---------------------------- MODULE QuotaShares ----------------------------
(* What the budget promises: whatever the jobs do between being allowed a    *)
(* request and making it, the sweep finds its reserve and enrichment its     *)
(* share. The counters are plain numbers that may fall at any time, as the   *)
(* window rolls; QuotaBudget implements this with the window itself.         *)
EXTENDS QuotaPolicy

VARIABLES
  spent,      \* requests of the window, by consumer
  batch,      \* requests of the enrichment pass not made yet
  inFlight,   \* archive requests allowed and not made yet
  unforeseen  \* requests no allowance was asked for, ever: see README

sharesVars == <<spent, batch, inFlight, unforeseen>>

SharesTypeOK ==
  /\ spent \in [Consumers -> Nat]
  /\ batch \in Nat /\ unforeseen \in Nat
  /\ inFlight \in 0 .. ArchiveConcurrency

SharesInit ==
  /\ spent = [k \in Consumers |-> 0]
  /\ batch = 0 /\ inFlight = 0 /\ unforeseen = 0

Charges(k) == spent' = [spent EXCEPT ![k] = spent[k] + 1]

(* A request nobody asked an allowance for: a retry, a call outside a job, a *)
(* sweep past its reserve.                                                   *)
Unthrottled ==
  /\ unforeseen' = unforeseen + 1
  /\ UNCHANGED <<batch, inFlight>>
  /\ \E k \in Consumers : Charges(k)

SweepRequests ==
  /\ UNCHANGED <<batch, inFlight, unforeseen>>
  /\ spent["sweep"] < SweepReserve
  /\ Charges("sweep")

(* A pass is sized to the allowance of one moment. What its characters cost  *)
(* beyond the average it was sized with is unforeseen as well.               *)
PlanBatch ==
  /\ batch = 0
  /\ batch' \in Nat \ {0} /\ unforeseen' \in Nat
  /\ unforeseen' >= unforeseen
  /\ batch' <= EnrichmentAllowance(spent) + (unforeseen' - unforeseen)
  /\ UNCHANGED <<inFlight, spent>>

EnrichmentRequests ==
  /\ batch > 0
  /\ batch' = batch - 1
  /\ UNCHANGED <<inFlight, unforeseen>>
  /\ Charges("enrichment")

(* Characters are skipped when a sweep begins, and missing ones cost less.   *)
BatchShrinks ==
  /\ batch' \in Nat /\ batch' < batch
  /\ UNCHANGED <<inFlight, unforeseen, spent>>

ArchiveChecks ==
  /\ inFlight < ArchiveConcurrency
  /\ inFlight' = inFlight + 1
  /\ ArchiveAllowance(spent) > 0
  /\ UNCHANGED <<batch, unforeseen, spent>>

ArchiveRequests ==
  /\ inFlight > 0
  /\ inFlight' = inFlight - 1
  /\ UNCHANGED <<batch, unforeseen>>
  /\ Charges("archive")

(* The window rolls: requests are forgotten, of any consumer.                *)
Ages ==
  /\ UNCHANGED <<batch, inFlight, unforeseen>>
  /\ spent' \in [Consumers -> Nat]
  /\ \A k \in Consumers : spent'[k] <= spent[k]

SharesNext ==
  \/ Unthrottled \/ SweepRequests \/ PlanBatch \/ EnrichmentRequests
  \/ BatchShrinks \/ ArchiveChecks \/ ArchiveRequests \/ Ages

SharesSpec == SharesInit /\ [][SharesNext]_sharesVars

(* What the archive, a batch in progress and the unthrottled calls take,     *)
(* with the sweep's reserve and enrichment's share held back in full, fits   *)
(* in the usable quota but for the archive requests allowed at one moment    *)
(* and what nobody could foresee. So the sweep always finds its reserve, and *)
(* enrichment what it has not spent of its share.                            *)
SharesHeld ==
  spent["archive"] + inFlight + spent["other"]
    + Greater(spent["sweep"], SweepReserve)
    + Greater(spent["enrichment"] + batch, EnrichmentShare)
  <= Usable + ArchiveConcurrency - 1 + unforeseen

(* A batch, with what enrichment has spent, stays within its share.          *)
BatchWithinShare == spent["enrichment"] + batch <= EnrichmentShare + unforeseen
============================================================================
