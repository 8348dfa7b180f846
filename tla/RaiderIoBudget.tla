---------------------------- MODULE RaiderIoBudget ----------------------------
(***************************************************************************)
(* The Raider.io minute: common/quota/raiderio-budget.service.ts and       *)
(* raiderio-budget.store.ts, over the window that the Blizzard quota is    *)
(* counted in too.  The live Mythic+ pass may use the whole window, the    *)
(* archive a share of it, everything else asks nobody; the minute is saved *)
(* beside that and put back after a restart.  The clock is that of the     *)
(* machine: it goes on while the process is down, and `charged` with it.   *)
(***************************************************************************)
EXTENDS RollingWindow, FiniteSetsExt

CONSTANTS
  MinuteUsable,  \* RAIDERIO_MINUTE_LIMIT x RAIDERIO_UTILISATION
  ArchiveShare,  \* of it, RAIDERIO_ARCHIVE_SHARE
  PageBatch,     \* RAIDERIO_PAGE_BATCH: pages asked for at once
  MaxUnasked,    \* bound: requests nobody asks an allowance for
  MaxCharged     \* bound: requests ever made

Rationed == {"mplus", "mplusArchive"}

ASSUME MinuteAssumption ==
  /\ {MinuteUsable, ArchiveShare, MaxUnasked, MaxCharged} \subseteq Nat /\ PageBatch \in Nat \ {0}
  /\ ArchiveShare <= MinuteUsable /\ Rationed \subseteq Keys /\ IsFiniteSet(Keys)

VARIABLES
  process,  \* down; booting, its window still empty; up
  live,     \* the live pass is active
  allowed,  \* requests a job was allowed and has not made
  changed,  \* something was charged since the window was taken for saving
  writing,  \* the snapshot being saved
  saved,    \* the document: counts by bucket index
  failed,   \* history: the last write failed
  unasked   \* history: requests nobody asked an allowance for, by the job they are charged to

jobs == <<live, allowed>>
store == <<changed, writing, saved, failed>>
minuteVars == <<windowVars, process, jobs, store, unasked>>

NoBuckets == [b \in 0..MaxClock |-> NoCounts]
NoWrite == <<>>
NobodyAllowed == [j \in Rationed |-> 0]

MinuteTypeOK ==
  /\ WindowTypeOK
  /\ process \in {"down", "booting", "up"} /\ live \in BOOLEAN /\ allowed \in [Rationed -> 0..PageBatch]
  /\ {changed, failed} \subseteq BOOLEAN
  /\ {saved} \cup ({writing} \ {NoWrite}) \subseteq [0..MaxClock -> [Keys -> Nat]]
  /\ unasked \in [Keys -> Nat]

MinuteInit ==
  /\ WindowInit
  /\ process = "booting" /\ live = FALSE /\ allowed = NobodyAllowed
  /\ changed = FALSE /\ writing = NoWrite /\ saved = NoBuckets /\ failed = FALSE
  /\ unasked = [k \in Keys |-> 0]

-----------------------------------------------------------------------------
(* Charging and asking.                                                      *)

SpentInAll == SumFunction([k \in Keys |-> Spent(k)])
Less(x, y) == IF x < y THEN x ELSE y

(* allowanceFor, which is never answered less than zero.                     *)
AllowanceFor(job) ==
  LET room == MinuteUsable - SpentInAll
  IN  IF job = "mplus" THEN room ELSE Less(room, ArchiveShare - Spent("mplusArchive"))

(* record, once for every attempt.                                           *)
Charge(k) ==
  /\ process # "down"
  /\ SumFunction([b \in 0..MaxClock |-> SumFunction(charged[b])]) < MaxCharged
  /\ Record(k) /\ changed' = TRUE
  /\ UNCHANGED <<process, writing, saved, failed>>

(* A faulty wait that lets the archive off with room for a single page.      *)
AsksForOne(job, pages) == 1

(* What a job waits for: the archive has room for its whole batch, the live  *)
(* pass goes on as soon as there is any.                                     *)
Needed(job, pages) == IF job = "mplus" THEN 1 ELSE pages

(* waitForAllowance, answered: the archive gives way to the live pass.  A    *)
(* wait that runs out ends the job's turn, which changes nothing here.       *)
Asks(job, pages) ==
  /\ process = "up" /\ allowed[job] = 0 /\ live = (job = "mplus")
  /\ AllowanceFor(job) >= Needed(job, pages)
  /\ allowed' = [allowed EXCEPT ![job] = pages]
  /\ UNCHANGED <<windowVars, process, live, store, unasked>>

Requests(job) ==
  /\ allowed[job] > 0 /\ Charge(job)
  /\ allowed' = [allowed EXCEPT ![job] = @ - 1]
  /\ UNCHANGED <<live, unasked>>

(* A retry, or a call of any other job.                                      *)
Unasked(k) ==
  /\ SumFunction(unasked) < MaxUnasked
  /\ Charge(k) /\ unasked' = [unasked EXCEPT ![k] = @ + 1]
  /\ UNCHANGED jobs

(* A pass is over, or stops, when no request of it is out.                   *)
PassTurns ==
  /\ process = "up" /\ allowed["mplus"] = 0 /\ live' = ~live
  /\ UNCHANGED <<windowVars, process, allowed, store, unasked>>

-----------------------------------------------------------------------------
(* The minute across a restart.                                              *)

(* snapshot: the buckets still inside the window.                            *)
Snapshot == [b \in 0..MaxClock |-> IF InWindow(b) THEN BucketAt(b) ELSE NoCounts]

(* takeSnapshot clears the flag before the write, so that what is charged    *)
(* during it is written by the next.                                         *)
Taken == changed' = FALSE /\ writing' = Snapshot

(* flush, every few seconds and once more as the process stops.              *)
Flush ==
  /\ process = "up" /\ changed /\ writing = NoWrite
  /\ Taken
  /\ UNCHANGED <<windowVars, process, jobs, saved, failed, unasked>>

(* A faulty write that notes the minute as saved only once it is, with what  *)
(* was charged meanwhile.                                                    *)
WriteEndsClearing ==
  /\ writing # NoWrite /\ writing' = NoWrite
  /\ \/ saved' = writing /\ failed' = FALSE /\ changed' = FALSE
     \/ saved' = saved /\ failed' = TRUE /\ UNCHANGED changed
  /\ UNCHANGED <<windowVars, process, jobs, unasked>>

(* The write lands, or is logged and given up.                               *)
WriteEnds ==
  /\ writing # NoWrite /\ writing' = NoWrite
  /\ \/ saved' = writing /\ failed' = FALSE
     \/ saved' = saved /\ failed' = TRUE
  /\ UNCHANGED <<windowVars, process, jobs, changed, unasked>>

(* A process that stops, or dies with a write of its still to land or not.   *)
Stops ==
  /\ process # "down" /\ process' = "down"
  /\ saved' \in {saved} \cup ({writing} \ {NoWrite}) /\ writing' = NoWrite
  /\ live' = FALSE /\ allowed' = NobodyAllowed
  /\ changed' = FALSE /\ failed' = FALSE /\ ring' = [s \in Slot |-> [index |-> Never, counts |-> NoCounts]]
  /\ UNCHANGED <<clock, charged, unasked>>

Boots ==
  /\ process = "down" /\ process' = "booting"
  /\ UNCHANGED <<windowVars, jobs, store, unasked>>

(* What is outside the window by now is ignored.                             *)
Restorable == {b \in 0..MaxClock : InWindow(b)}

(* restore adds to what was charged while the document was being read, each  *)
(* bucket in the slot of its index.                                          *)
Restored(s) ==
  LET mine == {b \in Restorable : SlotOf(b) = s /\ saved[b] # NoCounts}
  IN  IF mine = {} THEN ring[s]
      ELSE LET b == Max(mine)
           IN  [index |-> b, counts |-> [k \in Keys |-> BucketAt(b)[k] + saved[b][k]]]

(* onApplicationBootstrap: restored, unless the document cannot be read.     *)
Restore ==
  /\ process = "booting" /\ process' = "up"
  /\ ring' = [s \in Slot |-> Restored(s)] \/ ring' = ring
  /\ UNCHANGED <<clock, charged, jobs, store, unasked>>

-----------------------------------------------------------------------------
SecondPasses == TimePasses /\ UNCHANGED <<process, jobs, store, unasked>>

MinuteNext ==
  \/ SecondPasses \/ PassTurns \/ Flush \/ WriteEnds \/ Stops \/ Boots \/ Restore
  \/ \E job \in Rationed : Requests(job) \/ \E pages \in 1..PageBatch : Asks(job, pages)
  \/ \E k \in Keys : Unasked(k)

MinuteSpec == MinuteInit /\ [][MinuteNext]_minuteVars

(* The archive stays within its share of any minute, with what it was        *)
(* allowed and has yet to ask for, so that a live pass that begins finds the *)
(* rest; and the minute is passed by no more than two batches asked side by  *)
(* side and what nobody asked for (raiderio-budget.service.ts:196-207).      *)
MinuteHeld ==
  /\ Spent("mplusArchive") + allowed["mplusArchive"] <= ArchiveShare + unasked["mplusArchive"]
  /\ SpentInAll + allowed["mplus"] + allowed["mplusArchive"]
       < MinuteUsable + 2 * PageBatch + SumFunction(unasked)

(* A restart brings back no request that was not made, and none of another   *)
(* minute; and when nothing was charged since the last write, and that write *)
(* succeeded, stopping there forgets nothing of what is counted              *)
(* (raiderio-budget.store.ts:24-37).  Every value is of its type.            *)
MinuteSurvives ==
  /\ MinuteTypeOK
  /\ \A b \in Remembered, k \in Keys : BucketAt(b)[k] <= charged[b][k]
  /\ \A s \in Slot : InWindow(ring[s].index) => SlotOf(ring[s].index) = s
  /\ process = "up" /\ ~changed /\ writing = NoWrite /\ ~failed =>
       \A b \in Remembered, k \in Keys : BucketAt(b)[k] <= saved[b][k]
===============================================================================
