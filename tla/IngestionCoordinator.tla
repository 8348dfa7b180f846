------------------------ MODULE IngestionCoordinator ------------------------
(***************************************************************************)
(* The in-process coordinator that orders the background jobs              *)
(* (src/src/common/ingestion-coordinator.service.ts).  It is passive: a    *)
(* job brackets its work with Enter and Leave (the duringX methods), and a *)
(* lower-priority job parks itself in waitFor until the jobs above it are  *)
(* idle or its deadline passes.  The process is single threaded, so every  *)
(* action below is one synchronous stretch of JavaScript.                  *)
(***************************************************************************)
EXTENDS Integers

CONSTANTS
  Waiters,    \* the callers of waitFor, one outstanding wait each
  WaitsOut,   \* WaitsOut[w]: the jobs whose activity caller w waits out
  MaxDepth    \* bound: passes of one job in progress at once

Jobs == {"sweep", "enrichment", "mplus", "archive", "mplusArchive"}

(* The jobs whose first pass opens a warm-up gate. *)
WarmUpJobs == {"sweep", "enrichment", "mplus"}

ASSUME WaitsOutAssumption == WaitsOut \in [Waiters -> SUBSET Jobs]
ASSUME MaxDepthAssumption == MaxDepth \in Nat

VARIABLES
  depth,     \* depth[j]: passes of job j in progress
  done,      \* done[j]: a first pass of j has finished, or j is switched off
  signalled, \* the flag warmedUpSignalled
  emitted,   \* emitted[s]: how often signal s (warmedUp$, mplusWarmedUp$) fired
  waiter,    \* waiter[w]: where caller w is inside waitFor
  late       \* late[w]: the deadline of w's wait has passed

coordVars == <<depth, done, signalled, emitted, waiter, late>>

Signals == {"warmedUp", "mplusWarmedUp"}

(* "none": not waiting.  "queued": parked in changeWaiters.  "woken": its    *)
(* promise is resolved, the loop has not resumed.  "cleared" / "expired":    *)
(* waitFor has resolved true / false and its caller has not resumed.         *)
WaitStates == {"none", "queued", "woken", "cleared", "expired"}

CoordTypeOK ==
  /\ depth \in [Jobs -> Nat]
  /\ done \in [WarmUpJobs -> BOOLEAN]
  /\ signalled \in BOOLEAN
  /\ emitted \in [Signals -> Nat]
  /\ waiter \in [Waiters -> WaitStates]
  /\ late \in [Waiters -> BOOLEAN]

CoordInit ==
  /\ depth = [j \in Jobs |-> 0]
  /\ done = [j \in WarmUpJobs |-> FALSE]
  /\ signalled = FALSE
  /\ emitted = [s \in Signals |-> 0]
  /\ waiter = [w \in Waiters |-> "none"]
  /\ late = [w \in Waiters |-> FALSE]

-----------------------------------------------------------------------------
(* What the getters read. *)

Active(j) == depth[j] > 0
IsLiveIngestionActive == Active("sweep") \/ Active("enrichment")
IsAboveMplusArchiveActive ==
  IsLiveIngestionActive \/ Active("mplus") \/ Active("archive")
IsAboveRaidRankingsActive ==
  IsAboveMplusArchiveActive \/ Active("mplusArchive")
IsWarmedUp == done["sweep"] /\ done["enrichment"]
IsMplusWarmedUp == done["mplus"]

(* The condition caller w passes to waitFor. *)
Condition(w) == \A j \in WaitsOut[w] : ~Active(j)

-----------------------------------------------------------------------------
(* A faulty MarkDone: the signals fire whenever their gate is found open.    *)
MarkDoneEveryTime(j) ==
  /\ done' = [done EXCEPT ![j] = TRUE]
  /\ signalled' = (done'["sweep"] /\ done'["enrichment"])
  /\ emitted' = [s \in Signals |->
       IF \/ s = "warmedUp" /\ j # "mplus" /\ signalled'
          \/ s = "mplusWarmedUp" /\ j = "mplus"
         THEN emitted[s] + 1 ELSE emitted[s]]

(* Job j has had its first pass (or never will): set its flag and fire the   *)
(* signals that this completes, each at most once.                           *)
MarkDone(j) ==
  /\ done' = [done EXCEPT ![j] = TRUE]
  /\ LET fireLive == /\ j \in {"sweep", "enrichment"}
                     /\ done'["sweep"] /\ done'["enrichment"]
                     /\ ~signalled
         fireMplus == j = "mplus" /\ ~done["mplus"]
     IN /\ signalled' = (signalled \/ fireLive)
        /\ emitted' = [s \in Signals |->
             IF (s = "warmedUp" /\ fireLive) \/ (s = "mplusWarmedUp" /\ fireMplus)
               THEN emitted[s] + 1 ELSE emitted[s]]

(* A faulty notifyChange: told only once the live jobs are idle.             *)
NotifyWhenIdle ==
  waiter' = [w \in Waiters |->
    IF waiter[w] = "queued" /\ depth'["sweep"] = 0 /\ depth'["enrichment"] = 0
      THEN "woken" ELSE waiter[w]]

(* notifyChange: everyone parked is resolved, whatever he waits for. *)
NotifyChange ==
  waiter' = [w \in Waiters |->
               IF waiter[w] = "queued" THEN "woken" ELSE waiter[w]]

(* The head of duringSweep, duringEnrichment, duringMplus, ... *)
Enter(j) ==
  /\ depth[j] < MaxDepth
  /\ depth' = [depth EXCEPT ![j] = @ + 1]
  /\ UNCHANGED <<done, signalled, emitted, waiter, late>>

(* A faulty exit, counted both where the pass ends and in the finally block. *)
LeaveTwice(j) ==
  /\ Active(j)
  /\ depth' = [depth EXCEPT ![j] = @ - 2]
  /\ IF j \in WarmUpJobs THEN MarkDone(j) ELSE UNCHANGED <<done, signalled, emitted>>
  /\ NotifyChange
  /\ UNCHANGED late

(* The finally block: the last pass out marks the job done, and every exit   *)
(* wakes the waiters.                                                        *)
Leave(j) ==
  /\ Active(j)
  /\ depth' = [depth EXCEPT ![j] = @ - 1]
  /\ IF j \in WarmUpJobs /\ depth[j] = 1
       THEN MarkDone(j)
       ELSE UNCHANGED <<done, signalled, emitted>>
  /\ NotifyChange
  /\ UNCHANGED late

(* markEnrichmentDisabled and markMplusDisabled, called at boot. *)
MarkDisabled(j) ==
  /\ j \in {"enrichment", "mplus"}
  /\ MarkDone(j)
  /\ UNCHANGED <<depth, waiter, late>>

-----------------------------------------------------------------------------
(* A faulty loop that parks again whatever the time.                         *)
LoopTurnUnbounded(w, overdue) ==
  waiter' = [waiter EXCEPT ![w] = IF Condition(w) THEN "cleared" ELSE "queued"]

(* One turn of waitFor's loop for caller w, whose deadline has passed iff    *)
(* `overdue`: return true, return false, or park.                            *)
LoopTurn(w, overdue) ==
  waiter' = [waiter EXCEPT ![w] =
               IF Condition(w) THEN "cleared"
               ELSE IF overdue THEN "expired"
               ELSE "queued"]

(* waitFor is called.  A wait of zero milliseconds is overdue at once. *)
WaitFor(w, overdue) ==
  /\ waiter[w] = "none"
  /\ LoopTurn(w, overdue)
  /\ late' = [late EXCEPT ![w] = overdue]
  /\ UNCHANGED <<depth, done, signalled, emitted>>

(* The loop resumes after its promise was resolved. *)
Resume(w) ==
  /\ waiter[w] = "woken"
  /\ LoopTurn(w, late[w])
  /\ UNCHANGED <<depth, done, signalled, emitted, late>>

(* The deadline passes before the loop has resumed; a parked caller is        *)
(* resolved by its timer, one already woken finds the deadline gone.         *)
DeadlinePasses(w) ==
  /\ waiter[w] \in {"queued", "woken"}
  /\ ~late[w]
  /\ late' = [late EXCEPT ![w] = TRUE]
  /\ waiter' = [waiter EXCEPT ![w] = "woken"]
  /\ UNCHANGED <<depth, done, signalled, emitted>>

(* The caller resumes with the answer. *)
Answered(w) ==
  /\ waiter[w] \in {"cleared", "expired"}
  /\ waiter' = [waiter EXCEPT ![w] = "none"]
  /\ late' = [late EXCEPT ![w] = FALSE]
  /\ UNCHANGED <<depth, done, signalled, emitted>>

CoordNext ==
  \/ \E j \in Jobs : Enter(j) \/ Leave(j) \/ MarkDisabled(j)
  \/ \E w \in Waiters :
       \/ \E overdue \in BOOLEAN : WaitFor(w, overdue)
       \/ Resume(w) \/ DeadlinePasses(w) \/ Answered(w)

CoordSpec == CoordInit /\ [][CoordNext]_coordVars

-----------------------------------------------------------------------------
(* No wake-up is lost: a caller parked in changeWaiters has a reason to be   *)
(* there, a job it waits out that is still running, and that job's exit will *)
(* wake it.  Broken if any exit path forgets notifyChange, or if a caller    *)
(* could park after the job it waits out has gone.                           *)
NoLostWakeup ==
  \A w \in Waiters :
    waiter[w] = "queued" => \E j \in WaitsOut[w] : Active(j)

(* Each warm-up signal fires exactly once, at the moment its gate opens:     *)
(* warmedUp$ with the later of the first sweep and the first enrichment      *)
(* pass, mplusWarmedUp$ with the first Mythic+ pass, and switching a job off *)
(* counts as its pass.  (The class comments at lines 52 and 56.)             *)
SignalsOnce ==
  /\ emitted["warmedUp"] = IF IsWarmedUp THEN 1 ELSE 0
  /\ emitted["mplusWarmedUp"] = IF IsMplusWarmedUp THEN 1 ELSE 0

=============================================================================
