------------------------- MODULE JobScheduleProofs -------------------------
(* What the coordinator promises for every set of callers and every set of   *)
(* jobs each of them waits out: no wake-up is lost, each signal fires once.  *)
(* Then the schedulers around it, for every choice of the jobs switched on,  *)
(* of those that may throw and of those that lose patience: they use the     *)
(* coordinator as it allows, its counts agree with what they are doing, and  *)
(* no first tick is missed.                                                  *)
EXTENDS JobSchedule, TLAPS

(* The flag warmedUpSignalled is set exactly when the warm-up gate is open:  *)
(* what makes SignalsOnce inductive.                                         *)
GateIsSignalled == signalled <=> IsWarmedUp

CoordInv ==
  /\ CoordTypeOK
  /\ NoLostWakeup
  /\ SignalsOnce
  /\ GateIsSignalled

(* The initial state satisfies the inductive invariant.                      *)
LEMMA CoordInitInv == CoordInit => CoordInv
<1> SUFFICES ASSUME CoordInit PROVE CoordInv
  OBVIOUS
<1>1. CoordTypeOK
  BY DEF CoordInit, CoordTypeOK, WaitStates
<1>2. NoLostWakeup
  BY DEF CoordInit, NoLostWakeup
<1>3. ~IsWarmedUp /\ ~IsMplusWarmedUp /\ signalled = FALSE
  BY DEF CoordInit, IsWarmedUp, IsMplusWarmedUp, WarmUpJobs
<1>4. SignalsOnce
  BY <1>3 DEF CoordInit, SignalsOnce, Signals
<1> QED BY <1>1, <1>2, <1>3, <1>4 DEF CoordInv, GateIsSignalled

(* Marking a job done keeps the flags and the counts of the signals in step, *)
(* whichever job it is and however often it is marked.                       *)
LEMMA MarkDoneKeepsSignals ==
  ASSUME CoordTypeOK, SignalsOnce, GateIsSignalled,
         NEW j \in WarmUpJobs, MarkDone(j)
  PROVE  /\ done' \in [WarmUpJobs -> BOOLEAN]
         /\ signalled' \in BOOLEAN
         /\ emitted' \in [Signals -> Nat]
         /\ SignalsOnce' /\ GateIsSignalled'
<1> DEFINE live == /\ j \in {"sweep", "enrichment"}
                   /\ done'["sweep"] /\ done'["enrichment"]
                   /\ ~signalled
           season == j = "mplus" /\ ~done["mplus"]
<1>1. /\ done \in [WarmUpJobs -> BOOLEAN]
      /\ signalled \in BOOLEAN
      /\ emitted \in [Signals -> Nat]
  BY DEF CoordTypeOK
<1>2. /\ done' = [done EXCEPT ![j] = TRUE]
      /\ signalled' = (signalled \/ live)
      /\ emitted' = [s \in Signals |->
           IF (s = "warmedUp" /\ live) \/ (s = "mplusWarmedUp" /\ season)
             THEN emitted[s] + 1 ELSE emitted[s]]
  BY DEF MarkDone
<1>3. done' \in [WarmUpJobs -> BOOLEAN] /\ done'[j] = TRUE
      /\ \A i \in WarmUpJobs : i # j => done'[i] = done[i]
  BY <1>1, <1>2
<1>4. signalled' \in BOOLEAN
  BY <1>1, <1>2, <1>3 DEF WarmUpJobs
<1>5. emitted' \in [Signals -> Nat]
  BY <1>1, <1>2
<1>6. /\ emitted'["warmedUp"] = IF live THEN emitted["warmedUp"] + 1
                                        ELSE emitted["warmedUp"]
      /\ emitted'["mplusWarmedUp"] = IF season THEN emitted["mplusWarmedUp"] + 1
                                               ELSE emitted["mplusWarmedUp"]
  BY <1>2 DEF Signals
<1>7. /\ signalled <=> (done["sweep"] /\ done["enrichment"])
      /\ emitted["warmedUp"] = IF done["sweep"] /\ done["enrichment"] THEN 1 ELSE 0
      /\ emitted["mplusWarmedUp"] = IF done["mplus"] THEN 1 ELSE 0
  BY DEF SignalsOnce, GateIsSignalled, IsWarmedUp, IsMplusWarmedUp
<1>8. signalled' <=> (done'["sweep"] /\ done'["enrichment"])
  <2>1. CASE j = "mplus"
    BY <2>1, <1>2, <1>3, <1>7 DEF WarmUpJobs
  <2>2. CASE j \in {"sweep", "enrichment"}
    BY <2>2, <1>1, <1>2, <1>3, <1>7 DEF WarmUpJobs
  <2> QED BY <2>1, <2>2 DEF WarmUpJobs
<1>9. emitted'["warmedUp"] = IF done'["sweep"] /\ done'["enrichment"] THEN 1 ELSE 0
  BY <1>3, <1>6, <1>7 DEF WarmUpJobs
<1>10. emitted'["mplusWarmedUp"] = IF done'["mplus"] THEN 1 ELSE 0
  BY <1>3, <1>6, <1>7 DEF WarmUpJobs
<1> QED
  BY <1>3, <1>4, <1>5, <1>8, <1>9, <1>10
     DEF SignalsOnce, GateIsSignalled, IsWarmedUp, IsMplusWarmedUp

(* A turn of waitFor's loop parks its caller only beside a job it waits out. *)
LEMMA LoopTurnParksForAReason ==
  ASSUME CoordTypeOK, NoLostWakeup, NEW w \in Waiters,
         NEW overdue \in BOOLEAN, LoopTurn(w, overdue), UNCHANGED depth
  PROVE  waiter' \in [Waiters -> WaitStates] /\ NoLostWakeup'
<1>1. waiter' \in [Waiters -> WaitStates]
  BY DEF CoordTypeOK, LoopTurn, WaitStates
<1>2. ASSUME NEW v \in Waiters, waiter'[v] = "queued"
      PROVE  \E j \in WaitsOut[v] : depth'[j] > 0
  <2>1. CASE v = w
    <3>1. ~Condition(w)
      BY <1>2, <2>1 DEF LoopTurn, CoordTypeOK
    <3> QED BY <3>1, <2>1 DEF Condition, Active
  <2>2. CASE v # w
    BY <1>2, <2>2 DEF LoopTurn, CoordTypeOK, NoLostWakeup, Active
  <2> QED BY <2>1, <2>2
<1> QED BY <1>1, <1>2 DEF NoLostWakeup, Active

(* Every step preserves the inductive invariant, one case per action.        *)
LEMMA CoordNextInv == CoordInv /\ [CoordNext]_coordVars => CoordInv'
<1> SUFFICES ASSUME CoordInv, [CoordNext]_coordVars PROVE CoordInv'
  OBVIOUS
<1> USE DEF CoordInv
<1>1. ASSUME NEW j \in Jobs, Enter(j) PROVE CoordInv'
  <2>1. CoordTypeOK'
    BY <1>1 DEF CoordTypeOK, Enter
  <2>2. \A i \in Jobs : Active(i) => Active(i)'
    BY <1>1 DEF CoordTypeOK, Enter, Active
  <2>3. NoLostWakeup'
    BY <1>1, <2>2, WaitsOutAssumption DEF NoLostWakeup, Enter
  <2>4. SignalsOnce' /\ GateIsSignalled'
    BY <1>1 DEF Enter, SignalsOnce, GateIsSignalled, IsWarmedUp, IsMplusWarmedUp
  <2> QED BY <2>1, <2>3, <2>4
<1>2. ASSUME NEW j \in Jobs, Leave(j) PROVE CoordInv'
  <2>1. depth' \in [Jobs -> Nat]
    BY <1>2 DEF CoordTypeOK, Leave, Active
  <2>2. /\ waiter' \in [Waiters -> WaitStates]
        /\ \A w \in Waiters : waiter'[w] # "queued"
    BY <1>2 DEF CoordTypeOK, Leave, NotifyChange, WaitStates
  <2>3. late' \in [Waiters -> BOOLEAN]
    BY <1>2 DEF CoordTypeOK, Leave
  <2>4. /\ done' \in [WarmUpJobs -> BOOLEAN]
        /\ signalled' \in BOOLEAN
        /\ emitted' \in [Signals -> Nat]
        /\ SignalsOnce' /\ GateIsSignalled'
    <3>1. CASE j \in WarmUpJobs /\ depth[j] = 1
      BY <1>2, <3>1, MarkDoneKeepsSignals DEF Leave
    <3>2. CASE ~(j \in WarmUpJobs /\ depth[j] = 1)
      BY <1>2, <3>2 DEF Leave, CoordTypeOK, SignalsOnce, GateIsSignalled,
                        IsWarmedUp, IsMplusWarmedUp
    <3> QED BY <3>1, <3>2
  <2> QED BY <2>1, <2>2, <2>3, <2>4 DEF CoordTypeOK, NoLostWakeup
<1>3. ASSUME NEW j \in Jobs, MarkDisabled(j) PROVE CoordInv'
  <2>1. /\ done' \in [WarmUpJobs -> BOOLEAN]
        /\ signalled' \in BOOLEAN
        /\ emitted' \in [Signals -> Nat]
        /\ SignalsOnce' /\ GateIsSignalled'
    BY <1>3, MarkDoneKeepsSignals DEF MarkDisabled, WarmUpJobs
  <2>2. UNCHANGED <<depth, waiter, late>>
    BY <1>3 DEF MarkDisabled
  <2> QED BY <2>1, <2>2 DEF CoordTypeOK, NoLostWakeup, Active
<1>4. ASSUME NEW w \in Waiters, NEW overdue \in BOOLEAN, WaitFor(w, overdue)
      PROVE  CoordInv'
  <2>1. LoopTurn(w, overdue) /\ UNCHANGED depth
    BY <1>4 DEF WaitFor
  <2>2. waiter' \in [Waiters -> WaitStates] /\ NoLostWakeup'
    BY <2>1, LoopTurnParksForAReason
  <2> QED
    BY <1>4, <2>2 DEF WaitFor, CoordTypeOK, SignalsOnce, GateIsSignalled,
                      IsWarmedUp, IsMplusWarmedUp
<1>5. ASSUME NEW w \in Waiters, Resume(w) PROVE CoordInv'
  <2>1. LoopTurn(w, late[w]) /\ UNCHANGED depth /\ late[w] \in BOOLEAN
    BY <1>5 DEF Resume, CoordTypeOK
  <2>2. waiter' \in [Waiters -> WaitStates] /\ NoLostWakeup'
    BY <2>1, LoopTurnParksForAReason
  <2> QED
    BY <1>5, <2>2 DEF Resume, CoordTypeOK, SignalsOnce, GateIsSignalled,
                      IsWarmedUp, IsMplusWarmedUp
<1>6. ASSUME NEW w \in Waiters, DeadlinePasses(w) \/ Answered(w) PROVE CoordInv'
  <2>1. /\ waiter' \in [Waiters -> WaitStates]
        /\ late' \in [Waiters -> BOOLEAN]
        /\ UNCHANGED <<depth, done, signalled, emitted>>
        /\ \A v \in Waiters : waiter'[v] = "queued" => waiter[v] = "queued"
    BY <1>6 DEF DeadlinePasses, Answered, CoordTypeOK, WaitStates
  <2> QED
    BY <2>1 DEF CoordTypeOK, NoLostWakeup, Active, SignalsOnce,
                GateIsSignalled, IsWarmedUp, IsMplusWarmedUp
<1>7. CASE UNCHANGED coordVars
  BY <1>7 DEF coordVars, CoordTypeOK, NoLostWakeup, Active, SignalsOnce,
              GateIsSignalled, IsWarmedUp, IsMplusWarmedUp
<1> QED
  BY <1>1, <1>2, <1>3, <1>4, <1>5, <1>6, <1>7 DEF CoordNext

(* The state of the coordinator is well typed, for every set of callers.     *)
THEOREM CoordTypeCorrect == CoordSpec => []CoordTypeOK
<1>1. CoordInv => CoordTypeOK
  BY DEF CoordInv
<1> QED BY <1>1, CoordInitInv, CoordNextInv, PTL DEF CoordSpec

(* A caller parked in changeWaiters always has a running job to wake it.     *)
THEOREM NoWakeupIsLost == CoordSpec => []NoLostWakeup
<1>1. CoordInv => NoLostWakeup
  BY DEF CoordInv
<1> QED BY <1>1, CoordInitInv, CoordNextInv, PTL DEF CoordSpec

(* warmedUp$ and mplusWarmedUp$ fire exactly once, when their gate opens.    *)
THEOREM EverySignalFiresOnce == CoordSpec => []SignalsOnce
<1>1. CoordInv => SignalsOnce
  BY DEF CoordInv
<1> QED BY <1>1, CoordInitInv, CoordNextInv, PTL DEF CoordSpec

-----------------------------------------------------------------------------
(* Where each job can be at all.  The archive reads no catalogue, only the   *)
(* Mythic+ pass and the rankings pause, only what runs in the coordinator    *)
(* leaves it and only a sweep announces itself.                              *)
PlacesOf(s) ==
  CASE s = "sweep"           -> {"idle", "unit", "leaving", "announcing"}
    [] s = "enrichment"      -> {"idle", "unit", "leaving"}
    [] s = "mplus"           -> Places \ {"announcing"}
    [] s = "archive"         -> {"idle", "waiting", "starting", "unit", "figures", "leaving"}
    [] s = "mplusArchive"    -> Places \ {"announcing", "paused"}
    [] s = "raid"            -> {"idle", "waiting", "starting", "prelude", "unit", "paused"}
    [] s = "mplusTransition" -> {"idle", "waiting", "starting", "prelude", "unit"}

RightPlaces == \A s \in Schedulers : pc[s] \in PlacesOf(s)

(* A job that is switched off never runs.                                    *)
OnlyEnabledRun == \A s \in Schedulers : pc[s] # "idle" => s \in Enabled

(* Only a job that waits or is paused is inside waitFor.                     *)
OnlyParkedWait ==
  \A w \in Yielding : waiter[w] # "none" => pc[w] \in {"waiting", "paused"}

(* The places at which a job of the coordinator counts as running.           *)
Working == {"prelude", "unit", "paused", "figures", "leaving"}

PlacesInv ==
  /\ TypeOK
  /\ RightPlaces
  /\ OnlyEnabledRun
  /\ OnlyParkedWait
  /\ DepthMatchesWork

ScheduleInv ==
  /\ CoordInv
  /\ PlacesInv
  /\ FirstTickNotMissed

-----------------------------------------------------------------------------
(* What a scheduler does to the coordinator.                                 *)

(* The jobs that park are the callers of waitFor.                            *)
LEMMA YieldingAreWaiters ==
  /\ Waiters = Yielding
  /\ Yielding \subseteq Schedulers
  /\ Jobs \subseteq Schedulers
  /\ WarmUpJobs \subseteq Jobs
BY EnabledAssumption DEF Yielding, Schedulers, Jobs, WarmUpJobs

(* Every step of the schedulers is a step the coordinator allows, or leaves  *)
(* it alone: every bracket is entered and left by a job it counts, and every *)
(* wait is that of a registered caller.                                      *)
LEMMA StepUsesCoordinator ==
  ASSUME TypeOK, RightPlaces, OnlyEnabledRun, Next
  PROVE  [CoordNext]_coordVars
<1> USE YieldingAreWaiters
<1>1. ASSUME NEW s \in Jobs, Enter(s) \/ Leave(s) \/ MarkDisabled(s)
      PROVE  CoordNext
  BY <1>1, Zenon DEF CoordNext
<1>2. ASSUME NEW s \in Yielding, NEW overdue \in BOOLEAN, WaitFor(s, overdue)
      PROVE  CoordNext
  BY <1>2, Zenon DEF CoordNext
<1>3. ASSUME NEW s \in Yielding, Resume(s) \/ DeadlinePasses(s) \/ Answered(s)
      PROVE  CoordNext
  BY <1>3, Zenon DEF CoordNext
<1>4. \A s \in Schedulers : Allowed(s) \subseteq BOOLEAN
  BY DEF Allowed
<1>5. CASE Micro
  <2>1. ASSUME NEW s \in Schedulers, TickSkips(s) PROVE UNCHANGED coordVars
    BY <2>1, Zenon DEF TickSkips
  <2>2. ASSUME NEW s \in Schedulers, TickLive(s) PROVE CoordNext
    BY <2>2, <1>1 DEF TickLive, Jobs
  <2>3. ASSUME NEW s \in Schedulers, TickWaits(s) PROVE CoordNext
    BY <2>3, <1>2, <1>4 DEF TickWaits
  <2>4. ASSUME NEW s \in Schedulers, Start(s) PROVE CoordNext \/ UNCHANGED coordVars
    BY <2>4, <1>1, Zenon DEF Start
  <2>5. ASSUME NEW s \in Schedulers, LeaveJob(s) PROVE CoordNext
    <3>1. s \in Jobs
      BY <2>5 DEF LeaveJob, At, RightPlaces, PlacesOf, Schedulers, Jobs
    <3> QED BY <2>5, <3>1, <1>1, Zenon DEF LeaveJob
  <2>6. CASE TickMplus
    <3>1. "mplus" \in Yielding
      BY <2>6 DEF TickMplus, TickBegins, TypeOK, Yielding
    <3>2. "mplus" \in Jobs /\ "mplus" \in Schedulers
      BY DEF Jobs, Schedulers
    <3>3. CASE IsLiveIngestionActive
      BY <2>6, <3>1, <3>2, <3>3, <1>2, <1>4 DEF TickMplus
    <3>4. CASE ~IsLiveIngestionActive
      BY <2>6, <3>2, <3>4, <1>1, Zenon DEF TickMplus
    <3> QED BY <3>3, <3>4
  <2>7. ASSUME NEW s \in Yielding, WaitIsOver(s) \/ Wakes(s) PROVE CoordNext
    BY <2>7, <1>3, Zenon DEF WaitIsOver, Wakes
  <2>8. CASE Announce
    BY <2>8, Zenon DEF Announce
  <2> QED BY <1>5, <2>1, <2>2, <2>3, <2>4, <2>5, <2>6, <2>7, <2>8, Zenon DEF Micro
<1>6. CASE Work
  <2>1. ASSUME NEW s \in Schedulers, PausableTurns(s)
        PROVE  CoordNext \/ UNCHANGED coordVars
    <3>1. CASE InTheWay(s)
      <4>1. s \in Yielding
        <5>1. pc[s] # "idle" /\ s \in {"mplus", "raid"}
          BY <2>1 DEF PausableTurns
        <5> QED BY <5>1 DEF OnlyEnabledRun, Yielding
      <4> QED BY <2>1, <3>1, <4>1, <1>2, <1>4 DEF PausableTurns
    <3>2. CASE ~InTheWay(s)
      BY <2>1, <3>2, Zenon DEF PausableTurns
    <3> QED BY <3>1, <3>2
  <2>2. ASSUME NEW s \in Schedulers,
               LiveWorkEnds(s) \/ ArchiveTurns(s) \/ PausableEnds(s) \/ FiguresEnd(s)
        PROVE  UNCHANGED coordVars
    BY <2>2, Zenon DEF LiveWorkEnds, ArchiveTurns, PausableEnds, FiguresEnd
  <2>3. CASE TransitionTurns
    BY <2>3, Zenon DEF TransitionTurns
  <2> QED BY <1>6, <2>1, <2>2, <2>3, Zenon DEF Work
<1>7. ASSUME NEW s \in Schedulers, Boot(s) PROVE CoordNext \/ UNCHANGED coordVars
  BY <1>7, <1>1 DEF Boot, Jobs
<1>8. ASSUME NEW w \in Yielding, GivesUp(w) PROVE CoordNext
  BY <1>8, <1>3, Zenon DEF GivesUp
<1>9. ASSUME HourStrikes \/ \E s \in Schedulers : Fire(s) PROVE UNCHANGED coordVars
  BY <1>9, Zenon DEF HourStrikes, Fire
<1> QED BY <1>5, <1>6, <1>7, <1>8, <1>9, Zenon DEF Next

-----------------------------------------------------------------------------
(* The places, the counts and the waits.                                     *)

LEMMA ScheduleInitInv == Init => ScheduleInv
<1> SUFFICES ASSUME Init PROVE ScheduleInv
  OBVIOUS
<1>1. CoordInv
  BY CoordInitInv DEF Init
<1>2. TypeOK
  BY <1>1 DEF Init, TypeOK, CoordInv, Places
<1>3. \A s \in Schedulers : pc[s] = "idle" /\ "idle" \in PlacesOf(s)
  BY DEF Init, Schedulers, PlacesOf, Places
<1>4. RightPlaces /\ OnlyEnabledRun
  BY <1>3 DEF RightPlaces, OnlyEnabledRun
<1>5. OnlyParkedWait
  BY YieldingAreWaiters DEF Init, CoordInit, OnlyParkedWait
<1>6. DepthMatchesWork
  BY <1>2, <1>3, YieldingAreWaiters DEF Init, CoordInit, DepthMatchesWork
<1>7. FirstTickNotMissed
  BY DEF Init, FirstTickNotMissed
<1> QED BY <1>1, <1>2, <1>4, <1>5, <1>6, <1>7 DEF ScheduleInv, PlacesInv

(* Job s moves to a place of its own, counted as running exactly at the      *)
(* working places, and is left inside waitFor only where it waits.           *)
LEMMA MoveKeepsPlaces ==
  ASSUME PlacesInv, CoordTypeOK', NEW s \in Enabled, NEW place \in PlacesOf(s),
         Goto(s, place),
         \A j \in Jobs : depth'[j] = IF j # s THEN depth[j]
                                      ELSE IF place \in Working THEN 1 ELSE 0,
         \A w \in Yielding : w # s /\ waiter'[w] # "none" => waiter[w] # "none",
         s \in Yielding /\ waiter'[s] # "none" => place \in {"waiting", "paused"},
         booted' \subseteq Schedulers, ringing' \subseteq Enabled,
         due' \subseteq Enabled, passed' \subseteq Enabled
  PROVE  PlacesInv'
<1>1. s \in Schedulers /\ pc \in [Schedulers -> Places]
  BY EnabledAssumption DEF PlacesInv, TypeOK
<1>2. place \in Places
  BY <1>1 DEF PlacesOf, Places, Schedulers
<1>3. /\ pc' \in [Schedulers -> Places]
      /\ pc'[s] = place
      /\ \A r \in Schedulers : r # s => pc'[r] = pc[r]
  BY <1>1, <1>2 DEF Goto
<1>4. TypeOK'
  BY <1>3 DEF TypeOK
<1>5. RightPlaces' /\ OnlyEnabledRun'
  <2>1. \A r \in Schedulers : pc'[r] \in PlacesOf(r) /\ (pc'[r] # "idle" => r \in Enabled)
    BY <1>3 DEF PlacesInv, RightPlaces, OnlyEnabledRun
  <2> QED BY <2>1 DEF RightPlaces, OnlyEnabledRun
<1>6. OnlyParkedWait'
  <2>1. ASSUME NEW w \in Yielding, waiter'[w] # "none"
        PROVE  pc'[w] \in {"waiting", "paused"}
    <3>1. w \in Schedulers
      BY YieldingAreWaiters
    <3>2. CASE w = s
      BY <2>1, <3>2, <1>3
    <3>3. CASE w # s
      BY <2>1, <3>1, <3>3, <1>3 DEF PlacesInv, OnlyParkedWait
    <3> QED BY <3>2, <3>3
  <2> QED BY <2>1 DEF OnlyParkedWait
<1>7. DepthMatchesWork'
  <2>1. ASSUME NEW j \in Jobs
        PROVE  depth'[j] = IF pc'[j] \in Working THEN 1 ELSE 0
    <3>1. j \in Schedulers
      BY YieldingAreWaiters
    <3>2. CASE j = s
      BY <3>2, <1>3
    <3>3. CASE j # s
      BY <3>1, <3>3, <1>3 DEF PlacesInv, DepthMatchesWork, Working
    <3> QED BY <3>2, <3>3
  <2> QED BY <1>4, <2>1 DEF DepthMatchesWork, Working
<1> QED BY <1>4, <1>5, <1>6, <1>7 DEF PlacesInv

(* No job moves and no job enters or leaves the coordinator.                 *)
LEMMA StillKeepsPlaces ==
  ASSUME PlacesInv, CoordTypeOK', UNCHANGED <<pc, depth>>,
         \A w \in Yielding : waiter'[w] # "none" => waiter[w] # "none",
         booted' \subseteq Schedulers, ringing' \subseteq Enabled,
         due' \subseteq Enabled, passed' \subseteq Enabled
  PROVE  PlacesInv'
<1>1. TypeOK' /\ RightPlaces' /\ OnlyEnabledRun'
  BY DEF PlacesInv, TypeOK, RightPlaces, OnlyEnabledRun
<1>2. OnlyParkedWait'
  BY DEF PlacesInv, OnlyParkedWait
<1>3. DepthMatchesWork'
  BY <1>1 DEF PlacesInv, DepthMatchesWork
<1> QED BY <1>1, <1>2, <1>3 DEF PlacesInv

(* What the brackets and the waits do, point by point.                       *)
LEMMA EnterCounts ==
  ASSUME CoordTypeOK, NEW s \in Jobs, Enter(s)
  PROVE  /\ \A j \in Jobs : depth'[j] = IF j = s THEN depth[s] + 1 ELSE depth[j]
         /\ UNCHANGED <<done, signalled, emitted, waiter, late>>
BY DEF Enter, CoordTypeOK

LEMMA LeaveCounts ==
  ASSUME CoordTypeOK, NEW s \in Jobs, Leave(s)
  PROVE  /\ \A j \in Jobs : depth'[j] = IF j = s THEN depth[s] - 1 ELSE depth[j]
         /\ \A w \in Waiters : waiter'[w] # "none" => waiter[w] # "none"
BY DEF Leave, NotifyChange, CoordTypeOK

LEMMA WaitsAreLocal ==
  ASSUME CoordTypeOK, NEW s \in Waiters,
         \/ \E overdue \in BOOLEAN : WaitFor(s, overdue)
         \/ Resume(s) \/ DeadlinePasses(s) \/ Answered(s)
  PROVE  /\ \A w \in Waiters : w # s => waiter'[w] = waiter[w]
         /\ UNCHANGED <<depth, done, signalled, emitted>>
         /\ Answered(s) => waiter[s] # "none" /\ waiter'[s] = "none"
         /\ Resume(s) \/ DeadlinePasses(s) => waiter[s] # "none"
BY DEF WaitFor, Resume, DeadlinePasses, Answered, LoopTurn, CoordTypeOK

(* A job moves and the coordinator is left alone.                            *)
LEMMA QuietMove ==
  ASSUME PlacesInv, CoordTypeOK', NEW s \in Enabled, NEW place \in PlacesOf(s),
         Goto(s, place), UNCHANGED coordVars,
         pc[s] \notin {"waiting", "paused"},
         pc[s] \in Working <=> place \in Working,
         booted' \subseteq Schedulers, ringing' \subseteq Enabled,
         due' \subseteq Enabled, passed' \subseteq Enabled
  PROVE  PlacesInv'
<1>1. UNCHANGED <<depth, waiter>>
  BY DEF coordVars
<1>2. \A j \in Jobs : depth'[j] = IF j # s THEN depth[j]
                                   ELSE IF place \in Working THEN 1 ELSE 0
  BY <1>1 DEF PlacesInv, DepthMatchesWork, Working
<1>3. s \in Yielding => waiter'[s] = "none"
  BY <1>1 DEF PlacesInv, OnlyParkedWait
<1> QED BY <1>1, <1>2, <1>3, MoveKeepsPlaces

(* A job that is not working enters the coordinator and works.               *)
LEMMA EnteringMove ==
  ASSUME PlacesInv, CoordTypeOK', NEW s \in Enabled, NEW place \in PlacesOf(s),
         s \in Jobs, Goto(s, place), Enter(s), place \in Working,
         pc[s] \notin Working, pc[s] # "waiting",
         booted' \subseteq Schedulers, ringing' \subseteq Enabled,
         due' \subseteq Enabled, passed' \subseteq Enabled
  PROVE  PlacesInv'
<1>1. CoordTypeOK /\ depth[s] = 0
  BY DEF PlacesInv, TypeOK, DepthMatchesWork, Working
<1>2. /\ \A j \in Jobs : depth'[j] = IF j = s THEN 1 ELSE depth[j]
      /\ UNCHANGED waiter
  BY <1>1, EnterCounts
<1>3. \A j \in Jobs : depth'[j] = IF j # s THEN depth[j]
                                   ELSE IF place \in Working THEN 1 ELSE 0
  BY <1>2
<1>4. s \in Yielding => waiter'[s] = "none"
  BY <1>2 DEF PlacesInv, OnlyParkedWait, Working
<1> QED BY <1>2, <1>3, <1>4, MoveKeepsPlaces

(* A job parks itself, before it starts or in the middle of its work.        *)
LEMMA ParkingMove ==
  ASSUME PlacesInv, CoordTypeOK', NEW s \in Enabled, NEW place \in PlacesOf(s),
         s \in Yielding, Goto(s, place), place \in {"waiting", "paused"},
         \E overdue \in BOOLEAN : WaitFor(s, overdue),
         pc[s] \in Working <=> place \in Working,
         booted' \subseteq Schedulers, ringing' \subseteq Enabled,
         due' \subseteq Enabled, passed' \subseteq Enabled
  PROVE  PlacesInv'
<1>1. CoordTypeOK
  BY DEF PlacesInv, TypeOK
<1>2. /\ \A w \in Yielding : w # s => waiter'[w] = waiter[w]
      /\ UNCHANGED depth
  BY <1>1, YieldingAreWaiters, WaitsAreLocal
<1>3. \A j \in Jobs : depth'[j] = IF j # s THEN depth[j]
                                   ELSE IF place \in Working THEN 1 ELSE 0
  BY <1>2 DEF PlacesInv, DepthMatchesWork, Working
<1> QED BY <1>2, <1>3, MoveKeepsPlaces

(* The answered job goes on or gives up.                                     *)
LEMMA AnsweredMove ==
  ASSUME PlacesInv, CoordTypeOK', NEW s \in Yielding, WaitIsOver(s)
  PROVE  PlacesInv'
<1> DEFINE place == CASE At(s, "waiting") /\ waiter[s] = "cleared" -> "starting"
                      [] At(s, "waiting") /\ waiter[s] = "expired" -> "idle"
                      [] At(s, "paused") /\ waiter[s] = "cleared"  -> "unit"
                      [] OTHER -> IF s = "mplus" THEN "figures" ELSE "idle"
<1>1. /\ Goto(s, place) /\ Answered(s)
      /\ UNCHANGED <<booted, ringing, due, passed>>
  BY DEF WaitIsOver
<1>2. s \in Enabled /\ s \in Schedulers
  BY YieldingAreWaiters DEF Yielding
<1>3. /\ \A w \in Yielding : w # s => waiter'[w] = waiter[w]
      /\ UNCHANGED depth
      /\ waiter[s] # "none" /\ waiter'[s] = "none"
  BY <1>1, YieldingAreWaiters, WaitsAreLocal DEF PlacesInv, TypeOK
<1>4. pc[s] \in {"waiting", "paused"} /\ waiter[s] \in {"cleared", "expired"}
  BY <1>1, <1>3 DEF PlacesInv, OnlyParkedWait, Answered
<1>5. pc[s] \in PlacesOf(s)
  BY <1>2 DEF PlacesInv, RightPlaces
<1>6. CASE pc[s] = "waiting"
  <2>1. place \in {"starting", "idle"}
    BY <1>4, <1>6 DEF At
  <2>2. place \in PlacesOf(s)
    BY <2>1, <1>2, <1>5, <1>6 DEF PlacesOf, Schedulers, Places
  <2>3. \A j \in Jobs : depth'[j] = IF j # s THEN depth[j]
                                     ELSE IF place \in Working THEN 1 ELSE 0
    BY <2>1, <1>3, <1>6 DEF PlacesInv, DepthMatchesWork, Working
  <2> HIDE DEF place
  <2> QED BY <1>1, <1>2, <1>3, <2>2, <2>3, MoveKeepsPlaces DEF PlacesInv, TypeOK
<1>7. CASE pc[s] = "paused"
  <2>1. s \in {"mplus", "raid"}
    BY <1>2, <1>5, <1>7 DEF PlacesOf, Schedulers
  <2>2. \/ place = "unit"
        \/ s = "mplus" /\ place = "figures"
        \/ s = "raid" /\ place = "idle"
    BY <2>1, <1>4, <1>7 DEF At
  <2>3. place \in PlacesOf(s)
    BY <2>1, <2>2 DEF PlacesOf, Places
  <2>4. \A j \in Jobs : depth'[j] = IF j # s THEN depth[j]
                                     ELSE IF place \in Working THEN 1 ELSE 0
    BY <2>1, <2>2, <1>3, <1>7 DEF PlacesInv, DepthMatchesWork, Working, Jobs
  <2> HIDE DEF place
  <2> QED BY <1>1, <1>2, <1>3, <2>3, <2>4, MoveKeepsPlaces DEF PlacesInv, TypeOK
<1> QED BY <1>4, <1>6, <1>7

(* The job that leaves the coordinator is at rest, or has only to announce   *)
(* itself.                                                                   *)
LEMMA LeavingMove ==
  ASSUME PlacesInv, CoordTypeOK', NEW s \in Schedulers, LeaveJob(s)
  PROVE  PlacesInv'
<1>1. PICK place \in (IF s = "sweep" THEN {"announcing"} ELSE {"idle"})
                       \cup (IF s \in Faulty THEN {"idle"} ELSE {}) :
        Goto(s, place)
  BY DEF LeaveJob
<1>2. /\ pc[s] = "leaving" /\ Leave(s)
      /\ due' = due \cup StartedBySignals
      /\ UNCHANGED <<booted, ringing, passed>>
  BY DEF LeaveJob, At
<1>3. pc[s] \in PlacesOf(s) /\ s \in Enabled
  BY <1>2 DEF PlacesInv, RightPlaces, OnlyEnabledRun
<1>4. s \in Jobs
  BY <1>2, <1>3 DEF PlacesOf, Schedulers, Jobs
<1>5. place \in PlacesOf(s) /\ place \notin Working
  BY <1>3, <1>2 DEF PlacesOf, Schedulers, Places, Working
<1>6. CoordTypeOK /\ depth[s] = 1
  BY <1>2, <1>4 DEF PlacesInv, TypeOK, DepthMatchesWork
<1>7. /\ \A j \in Jobs : depth'[j] = IF j = s THEN 0 ELSE depth[j]
      /\ \A w \in Yielding : waiter'[w] # "none" => waiter[w] # "none"
  BY <1>2, <1>4, <1>6, LeaveCounts, YieldingAreWaiters
<1>8. s \in Yielding => waiter'[s] = "none"
  BY <1>2, <1>7 DEF PlacesInv, OnlyParkedWait
<1>9. \A j \in Jobs : depth'[j] = IF j # s THEN depth[j]
                                   ELSE IF place \in Working THEN 1 ELSE 0
  BY <1>5, <1>7
<1>10. due' \subseteq Enabled
  BY <1>2 DEF PlacesInv, TypeOK, StartedBySignals
<1> QED BY <1>1, <1>2, <1>3, <1>5, <1>7, <1>8, <1>9, <1>10, MoveKeepsPlaces
           DEF PlacesInv, TypeOK

(* The loop head of an archive sends it to a working place of its own.       *)
LEMMA HeadIsWorking ==
  ASSUME NEW s \in {"archive", "mplusArchive"}
  PROVE  AtHead(s) \subseteq PlacesOf(s) \cap Working
BY DEF AtHead, PlacesOf, Places, Working

LEMMA MicroKeepsPlaces ==
  ASSUME PlacesInv, CoordTypeOK', Micro
  PROVE  PlacesInv'
<1>1. /\ TypeOK /\ CoordTypeOK
      /\ booted \subseteq Schedulers /\ ringing \subseteq Enabled
      /\ due \subseteq Enabled /\ passed \subseteq Enabled
  BY DEF PlacesInv, TypeOK
<1>2. \A s \in Schedulers : pc[s] \in PlacesOf(s) /\ (pc[s] # "idle" => s \in Enabled)
  BY DEF PlacesInv, RightPlaces, OnlyEnabledRun
<1>3. ASSUME NEW s \in Enabled, TickBegins(s)
      PROVE  /\ pc[s] = "idle"
             /\ booted' \subseteq Schedulers /\ ringing' \subseteq Enabled
             /\ due' \subseteq Enabled /\ passed' \subseteq Enabled
  BY <1>1, <1>3 DEF TickBegins, At
<1>4. ASSUME NEW s \in Schedulers, TickSkips(s) PROVE PlacesInv'
  <2>1. /\ UNCHANGED <<pc, depth, waiter, booted, ringing>>
        /\ due' \subseteq Enabled /\ passed' \subseteq Enabled
    BY <1>1, <1>4 DEF TickSkips, coordVars
  <2> QED BY <1>1, <2>1, StillKeepsPlaces
<1>5. ASSUME NEW s \in Schedulers, TickLive(s) PROVE PlacesInv'
  <2>1. /\ s \in {"sweep", "enrichment"} /\ TickBegins(s) /\ s \in Enabled
        /\ Enter(s) /\ Goto(s, "unit")
    BY <1>1, <1>5 DEF TickLive, TickBegins
  <2>2. s \in Jobs /\ "unit" \in PlacesOf(s) /\ "unit" \in Working
    BY <2>1 DEF Jobs, PlacesOf, Working
  <2>3. pc[s] \notin Working /\ pc[s] # "waiting"
    BY <2>1, <1>3 DEF Working
  <2> QED BY <2>1, <2>2, <2>3, <1>3, EnteringMove
<1>6. ASSUME NEW s \in Schedulers, TickWaits(s) PROVE PlacesInv'
  <2>1. /\ s \in Yielding \ {"mplus"} /\ TickBegins(s) /\ s \in Enabled
        /\ \E overdue \in BOOLEAN : WaitFor(s, overdue)
        /\ Goto(s, "waiting")
    BY <1>1, <1>6 DEF TickWaits, TickBegins, Allowed
  <2>2. "waiting" \in PlacesOf(s)
    BY <2>1 DEF Yielding, PlacesOf, Places
  <2>3. pc[s] \in Working <=> "waiting" \in Working
    BY <2>1, <1>3 DEF Working
  <2> QED BY <2>1, <2>2, <2>3, <1>3, ParkingMove
<1>7. ASSUME NEW s \in Schedulers, Start(s) PROVE PlacesInv'
  <2>1. /\ pc[s] = "starting" /\ s \in Enabled
        /\ UNCHANGED <<booted, ringing, due, passed>>
    BY <1>2, <1>7 DEF Start, At
  <2>2. PICK place \in IF s = "archive" THEN AtHead(s) ELSE {"prelude"} : Goto(s, place)
    BY <1>7 DEF Start
  <2>3. s \in {"mplus", "archive", "mplusArchive", "raid", "mplusTransition"}
    BY <2>1, <1>2 DEF PlacesOf, Schedulers
  <2>4. place \in PlacesOf(s) /\ place \in Working
    BY <2>2, <2>3, HeadIsWorking DEF PlacesOf, Places, Working
  <2>5. CASE s \in Jobs
    BY <2>1, <2>2, <2>4, <2>5, <1>1, <1>7, EnteringMove DEF Start, Working
  <2>6. CASE s \notin Jobs
    <3>1. UNCHANGED <<depth, waiter>>
      BY <1>7, <2>6 DEF Start, coordVars
    <3>2. \A j \in Jobs : depth'[j] = IF j # s THEN depth[j]
                                       ELSE IF place \in Working THEN 1 ELSE 0
      BY <2>6, <3>1
    <3>3. s \in Yielding => waiter'[s] = "none"
      BY <2>1, <3>1 DEF PlacesInv, OnlyParkedWait
    <3> QED BY <2>1, <2>2, <2>4, <1>1, <3>1, <3>2, <3>3, MoveKeepsPlaces
  <2> QED BY <2>5, <2>6
<1>8. ASSUME NEW s \in Schedulers, LeaveJob(s) PROVE PlacesInv'
  BY <1>8, LeavingMove
<1>9. CASE TickMplus
  <2>1. /\ TickBegins("mplus") /\ "mplus" \in Enabled /\ "mplus" \in Yielding
    BY <1>1, <1>9 DEF TickMplus, TickBegins, Yielding
  <2>2. /\ "mplus" \in Jobs
        /\ "waiting" \in PlacesOf("mplus") /\ "prelude" \in PlacesOf("mplus")
        /\ "prelude" \in Working /\ "waiting" \notin Working
    BY DEF Jobs, PlacesOf, Places, Working
  <2>3. pc["mplus"] \notin Working /\ pc["mplus"] # "waiting"
    BY <2>1, <1>3 DEF Working
  <2>4. CASE IsLiveIngestionActive
    <3>1. /\ \E overdue \in BOOLEAN : WaitFor("mplus", overdue)
          /\ Goto("mplus", "waiting")
      BY <1>9, <2>4 DEF TickMplus, Allowed
    <3> QED BY <2>1, <2>2, <2>3, <3>1, <1>3, ParkingMove
  <2>5. CASE ~IsLiveIngestionActive
    <3>1. Enter("mplus") /\ Goto("mplus", "prelude")
      BY <1>9, <2>5 DEF TickMplus
    <3> QED BY <2>1, <2>2, <2>3, <3>1, <1>3, EnteringMove
  <2> QED BY <2>4, <2>5
<1>10. ASSUME NEW s \in Yielding, WaitIsOver(s) PROVE PlacesInv'
  BY <1>10, AnsweredMove
<1>11. ASSUME NEW s \in Yielding, Wakes(s) PROVE PlacesInv'
  <2>1. Resume(s) /\ UNCHANGED <<pc, booted, ringing, due, passed>>
    BY <1>11 DEF Wakes, schedVars
  <2>2. /\ \A w \in Yielding : waiter'[w] # "none" => waiter[w] # "none"
        /\ UNCHANGED depth
    BY <1>1, <2>1, YieldingAreWaiters, WaitsAreLocal
  <2> QED BY <1>1, <2>1, <2>2, StillKeepsPlaces
<1>12. CASE Announce
  <2>1. /\ pc["sweep"] = "announcing" /\ "sweep" \in Enabled
        /\ Goto("sweep", "idle") /\ UNCHANGED coordVars
        /\ UNCHANGED <<booted, ringing, passed>> /\ due' \subseteq Enabled
    BY <1>1, <1>12, EnabledAssumption DEF Announce, At
  <2>2. /\ "idle" \in PlacesOf("sweep")
        /\ "idle" \notin Working /\ "announcing" \notin Working
    BY DEF PlacesOf, Working
  <2> QED BY <1>1, <2>1, <2>2, QuietMove
<1> QED BY <1>4, <1>5, <1>6, <1>7, <1>8, <1>9, <1>10, <1>11, <1>12, Zenon DEF Micro

LEMMA WorkKeepsPlaces ==
  ASSUME PlacesInv, CoordTypeOK', Work
  PROVE  PlacesInv'
<1>1. /\ TypeOK /\ CoordTypeOK
      /\ booted \subseteq Schedulers /\ ringing \subseteq Enabled
      /\ due \subseteq Enabled /\ passed \subseteq Enabled
  BY DEF PlacesInv, TypeOK
<1>2. \A s \in Schedulers : pc[s] \in PlacesOf(s) /\ (pc[s] # "idle" => s \in Enabled)
  BY DEF PlacesInv, RightPlaces, OnlyEnabledRun
<1>3. ASSUME NEW s \in Schedulers, LiveWorkEnds(s) PROVE PlacesInv'
  <2>1. /\ pc[s] = "unit" /\ s \in Enabled /\ s \in {"sweep", "enrichment"}
        /\ Goto(s, "leaving") /\ UNCHANGED coordVars
        /\ UNCHANGED <<booted, ringing, due, passed>>
    BY <1>2, <1>3 DEF LiveWorkEnds, At
  <2>2. "leaving" \in PlacesOf(s) /\ "leaving" \in Working /\ "unit" \in Working
    BY <2>1 DEF PlacesOf, Working
  <2>3. pc[s] \notin {"waiting", "paused"}
    BY <2>1
  <2> QED BY <1>1, <2>1, <2>2, <2>3, QuietMove
<1>4. ASSUME NEW s \in Schedulers, ArchiveTurns(s) PROVE PlacesInv'
  <2>1. /\ pc[s] \in {"prelude", "unit"} /\ s \in Enabled
        /\ s \in {"archive", "mplusArchive"} /\ UNCHANGED coordVars
        /\ UNCHANGED <<booted, ringing, due, passed>>
    BY <1>2, <1>4 DEF ArchiveTurns
  <2>2. PICK place \in AtHead(s) : Goto(s, place)
    BY <1>4 DEF ArchiveTurns
  <2>3. place \in PlacesOf(s) /\ place \in Working
    BY <2>1, HeadIsWorking
  <2>4. pc[s] \in Working /\ pc[s] \notin {"waiting", "paused"}
    BY <2>1 DEF Working
  <2> QED BY <1>1, <2>1, <2>2, <2>3, <2>4, QuietMove
<1>5. ASSUME NEW s \in Schedulers, PausableTurns(s) PROVE PlacesInv'
  <2>1. /\ pc[s] \in {"prelude", "unit"} /\ s \in Enabled /\ s \in {"mplus", "raid"}
        /\ UNCHANGED <<booted, ringing, passed>> /\ due' \subseteq Enabled
    BY <1>2, <1>5 DEF PausableTurns
  <2>2. /\ "paused" \in PlacesOf(s) /\ "unit" \in PlacesOf(s)
        /\ "paused" \in Working /\ "unit" \in Working /\ s \in Yielding
    BY <2>1 DEF PlacesOf, Places, Working, Yielding
  <2>3. pc[s] \in Working /\ pc[s] \notin {"waiting", "paused"}
    BY <2>1 DEF Working
  <2>4. CASE InTheWay(s)
    <3>1. Goto(s, "paused") /\ \E overdue \in BOOLEAN : WaitFor(s, overdue)
      BY <1>5, <2>4 DEF PausableTurns, Allowed
    <3> QED BY <1>1, <2>1, <2>2, <2>3, <3>1, ParkingMove
  <2>5. CASE ~InTheWay(s)
    <3>1. Goto(s, "unit") /\ UNCHANGED coordVars
      BY <1>5, <2>5, Zenon DEF PausableTurns
    <3> QED BY <1>1, <2>1, <2>2, <2>3, <3>1, QuietMove
  <2> QED BY <2>4, <2>5
<1>6. ASSUME NEW s \in Schedulers, PausableEnds(s) PROVE PlacesInv'
  <2>1. /\ pc[s] \in {"prelude", "unit"} /\ s \in Enabled
        /\ UNCHANGED coordVars /\ UNCHANGED <<booted, ringing, due, passed>>
    BY <1>2, <1>6 DEF PausableEnds, At
  <2>2. \/ s = "mplus" /\ Goto(s, "figures")
        \/ s = "mplus" /\ Goto(s, "leaving")
        \/ s = "raid" /\ Goto(s, "idle")
    BY <1>6 DEF PausableEnds
  <2>3. pc[s] \in Working /\ pc[s] \notin {"waiting", "paused"}
    BY <2>1 DEF Working
  <2>4. CASE s = "mplus"
    <3>1. PICK place \in {"figures", "leaving"} : Goto(s, place)
      BY <2>2, <2>4
    <3>2. place \in PlacesOf(s) /\ place \in Working
      BY <2>4 DEF PlacesOf, Places, Working
    <3> QED BY <1>1, <2>1, <2>3, <3>1, <3>2, QuietMove
  <2>5. CASE s = "raid"
    <3>1. Goto(s, "idle") /\ "idle" \in PlacesOf(s) /\ "idle" \notin Working
      BY <2>2, <2>5 DEF PlacesOf, Working
    <3>2. s \notin Jobs /\ UNCHANGED <<depth, waiter>>
      BY <2>1, <2>5 DEF Jobs, coordVars
    <3>3. s \in Yielding => waiter'[s] = "none"
      BY <2>3, <3>2 DEF PlacesInv, OnlyParkedWait
    <3>4. \A j \in Jobs : depth'[j] = IF j # s THEN depth[j]
                                       ELSE IF "idle" \in Working THEN 1 ELSE 0
      BY <3>2
    <3> QED BY <1>1, <2>1, <3>1, <3>2, <3>3, <3>4, MoveKeepsPlaces
  <2> QED BY <2>2, <2>4, <2>5
<1>7. ASSUME NEW s \in Schedulers, FiguresEnd(s) PROVE PlacesInv'
  <2>1. /\ pc[s] = "figures" /\ s \in Enabled
        /\ Goto(s, "leaving") /\ UNCHANGED coordVars
        /\ UNCHANGED <<booted, ringing, due, passed>>
    BY <1>2, <1>7 DEF FiguresEnd, At
  <2>2. "leaving" \in PlacesOf(s) /\ "leaving" \in Working /\ "figures" \in Working
    BY <2>1, <1>2 DEF PlacesOf, Places, Working, Schedulers
  <2>3. pc[s] \notin {"waiting", "paused"}
    BY <2>1
  <2> QED BY <1>1, <2>1, <2>2, <2>3, QuietMove
<1>8. CASE TransitionTurns
  <2> DEFINE s == "mplusTransition"
  <2>1. /\ pc[s] \in {"prelude", "unit"} /\ UNCHANGED coordVars
        /\ UNCHANGED <<booted, ringing, due, passed>>
        /\ Goto(s, "idle") \/ Goto(s, "unit")
    BY <1>8 DEF TransitionTurns, At
  <2>2. s \in Schedulers /\ s \notin Jobs /\ {"idle", "unit"} \subseteq PlacesOf(s)
    BY DEF Schedulers, Jobs, PlacesOf
  <2>3. s \in Enabled
    BY <1>2, <2>1, <2>2
  <2>4. PICK place \in {"idle", "unit"} : Goto(s, place)
    BY <2>1
  <2>5. UNCHANGED <<depth, waiter>>
    BY <2>1 DEF coordVars
  <2>6. s \in Yielding => waiter'[s] = "none"
    BY <2>1, <2>5 DEF PlacesInv, OnlyParkedWait
  <2>7. \A j \in Jobs : depth'[j] = IF j # s THEN depth[j]
                                     ELSE IF place \in Working THEN 1 ELSE 0
    BY <2>2, <2>5
  <2>8. place \in PlacesOf(s)
    BY <2>2, <2>4
  <2> HIDE DEF s
  <2> QED BY <1>1, <2>1, <2>3, <2>4, <2>5, <2>6, <2>7, <2>8, MoveKeepsPlaces
<1> QED BY <1>3, <1>4, <1>5, <1>6, <1>7, <1>8, Zenon DEF Work

(* Every step keeps the places, the counts and the waits in agreement.       *)
LEMMA NextKeepsPlaces ==
  ASSUME PlacesInv, CoordTypeOK', Next
  PROVE  PlacesInv'
<1>1. /\ TypeOK /\ CoordTypeOK
      /\ booted \subseteq Schedulers /\ ringing \subseteq Enabled
      /\ due \subseteq Enabled /\ passed \subseteq Enabled
  BY DEF PlacesInv, TypeOK
<1>2. CASE Micro
  BY <1>2, MicroKeepsPlaces
<1>3. CASE Work
  BY <1>3, WorkKeepsPlaces
<1>4. CASE HourStrikes
  <2>1. /\ UNCHANGED <<pc, depth, waiter, booted, due, passed>>
        /\ ringing' \subseteq Enabled
    BY <1>4 DEF HourStrikes, coordVars
  <2> QED BY <1>1, <2>1, StillKeepsPlaces
<1>5. ASSUME NEW s \in Schedulers, Boot(s) PROVE PlacesInv'
  <2>1. /\ UNCHANGED <<pc, ringing, passed>> /\ booted' \subseteq Schedulers
    BY <1>1, <1>5 DEF Boot
  <2>2. UNCHANGED <<depth, waiter>>
    BY <1>5 DEF Boot, MarkDisabled, coordVars
  <2>3. due' \subseteq Enabled
    BY <1>1, <1>5 DEF Boot, StartedBySignals
  <2> QED BY <1>1, <2>1, <2>2, <2>3, StillKeepsPlaces
<1>6. ASSUME NEW s \in Schedulers, Fire(s) PROVE PlacesInv'
  <2>1. UNCHANGED <<pc, depth, waiter, booted, passed>>
    BY <1>6 DEF Fire, coordVars
  <2>2. ringing' \subseteq Enabled /\ due' \subseteq Enabled
    BY <1>1, <1>6 DEF Fire
  <2> QED BY <1>1, <2>1, <2>2, StillKeepsPlaces
<1>7. ASSUME NEW w \in Yielding, GivesUp(w) PROVE PlacesInv'
  <2>1. DeadlinePasses(w) /\ UNCHANGED <<pc, booted, ringing, due, passed>>
    BY <1>7 DEF GivesUp, schedVars
  <2>2. /\ \A v \in Yielding : waiter'[v] # "none" => waiter[v] # "none"
        /\ UNCHANGED depth
    BY <1>1, <2>1, YieldingAreWaiters, WaitsAreLocal
  <2> QED BY <1>1, <2>1, <2>2, StillKeepsPlaces
<1> QED BY <1>2, <1>3, <1>4, <1>5, <1>6, <1>7, Zenon DEF Next

-----------------------------------------------------------------------------
(* The first tick behind a warm-up gate.                                     *)

(* A gate that is open after a step was open before it, or the step fires a  *)
(* signal its job subscribes to.                                             *)
LEMMA OpeningFires ==
  ASSUME SignalsOnce, SignalsOnce', emitted \in [Signals -> Nat],
         NEW s \in Schedulers, SubscribesTo(s) # {}, Gate(s)', ~Gate(s)
  PROVE  \E g \in SubscribesTo(s) : emitted'[g] > emitted[g]
<1>1. s \in {"mplus", "archive", "mplusArchive", "raid"}
  BY DEF SubscribesTo, Schedulers
<1>2. CASE s \in {"mplus", "archive"}
  <2>1. ~IsWarmedUp /\ IsWarmedUp'
    BY <1>2 DEF Gate
  <2>2. emitted'["warmedUp"] > emitted["warmedUp"]
    BY <2>1 DEF SignalsOnce
  <2> QED BY <1>2, <2>2 DEF SubscribesTo
<1>3. CASE s \in {"mplusArchive", "raid"}
  <2>1. ~(IsWarmedUp /\ IsMplusWarmedUp) /\ IsWarmedUp' /\ IsMplusWarmedUp'
    BY <1>3 DEF Gate
  <2>2. \/ emitted'["warmedUp"] > emitted["warmedUp"]
        \/ emitted'["mplusWarmedUp"] > emitted["mplusWarmedUp"]
    BY <2>1 DEF SignalsOnce
  <2> QED BY <1>3, <2>2 DEF SubscribesTo
<1> QED BY <1>1, <1>2, <1>3

(* The step leaves the gates alone, and forgets a tick only past its gate or *)
(* before a closed one.                                                      *)
LEMMA NothingMissed ==
  ASSUME FirstTickNotMissed, UNCHANGED <<done, booted>>,
         \A s \in booted \cap Enabled :
           s \in passed \cup due => s \in passed' \cup due' \/ ~Gate(s)
  PROVE  FirstTickNotMissed'
<1>1. \A s : Gate(s)' = Gate(s)
  BY DEF Gate, IsWarmedUp, IsMplusWarmedUp
<1> QED BY <1>1 DEF FirstTickNotMissed

(* The step fires the signals of the gates it opens.                         *)
LEMMA OpenedAreDue ==
  ASSUME FirstTickNotMissed, SignalsOnce, SignalsOnce', TypeOK,
         UNCHANGED passed, due \cup StartedBySignals \subseteq due',
         booted' \cap Enabled \subseteq booted
  PROVE  FirstTickNotMissed'
<1>1. ASSUME NEW s \in booted' \cap Enabled, SubscribesTo(s) # {}, Gate(s)'
      PROVE  s \in passed' \cup due'
  <2>1. s \in booted \cap Enabled /\ s \in Schedulers
    BY <1>1 DEF TypeOK
  <2>2. CASE Gate(s)
    BY <1>1, <2>1, <2>2 DEF FirstTickNotMissed
  <2>3. CASE ~Gate(s)
    <3>1. \E g \in SubscribesTo(s) : emitted'[g] > emitted[g]
      BY <1>1, <2>1, <2>3, OpeningFires DEF TypeOK, CoordTypeOK
    <3> QED BY <2>1, <3>1 DEF StartedBySignals
  <2> QED BY <2>2, <2>3
<1> QED BY <1>1 DEF FirstTickNotMissed

(* Whatever the order of boot and signals, every step keeps a first tick     *)
(* that is owed.                                                             *)
LEMMA NextMissesNothing ==
  ASSUME ScheduleInv, CoordInv', Next
  PROVE  FirstTickNotMissed'
<1>1. /\ TypeOK /\ CoordTypeOK /\ SignalsOnce /\ SignalsOnce' /\ FirstTickNotMissed
  BY DEF ScheduleInv, PlacesInv, CoordInv
<1>2. ASSUME NEW s, TickBegins(s), UNCHANGED done PROVE FirstTickNotMissed'
  BY <1>1, <1>2, NothingMissed DEF TickBegins
<1>3. ASSUME UNCHANGED <<done, booted, passed>>, due \subseteq due'
      PROVE  FirstTickNotMissed'
  BY <1>1, <1>3, NothingMissed
<1>4. CASE Micro
  <2>1. ASSUME NEW s \in Schedulers, TickSkips(s) PROVE FirstTickNotMissed'
    <3>1. UNCHANGED <<done, booted>>
      BY <2>1 DEF TickSkips, coordVars
    <3>2. \A r \in booted \cap Enabled :
            r \in passed \cup due => r \in passed' \cup due' \/ ~Gate(r)
      BY <2>1 DEF TickSkips
    <3> QED BY <1>1, <3>1, <3>2, NothingMissed
  <2>2. ASSUME NEW s \in Schedulers, TickLive(s) PROVE FirstTickNotMissed'
    BY <2>2, <1>2 DEF TickLive, Enter
  <2>3. ASSUME NEW s \in Schedulers, TickWaits(s) PROVE FirstTickNotMissed'
    BY <2>3, <1>2 DEF TickWaits, WaitFor
  <2>4. CASE TickMplus
    BY <2>4, <1>2 DEF TickMplus, WaitFor, Enter
  <2>5. ASSUME NEW s \in Schedulers, LeaveJob(s) PROVE FirstTickNotMissed'
    BY <2>5, <1>1, OpenedAreDue DEF LeaveJob
  <2>6. ASSUME NEW s \in Schedulers, Start(s) PROVE FirstTickNotMissed'
    BY <2>6, <1>3 DEF Start, Enter, coordVars
  <2>7. ASSUME NEW s \in Yielding, WaitIsOver(s) \/ Wakes(s) PROVE FirstTickNotMissed'
    BY <2>7, <1>3 DEF WaitIsOver, Answered, Wakes, Resume, schedVars
  <2>8. CASE Announce
    BY <2>8, <1>3 DEF Announce, coordVars
  <2> QED BY <1>4, <2>1, <2>2, <2>3, <2>4, <2>5, <2>6, <2>7, <2>8, Zenon DEF Micro
<1>5. CASE Work
  <2>1. ASSUME NEW s \in Schedulers, PausableTurns(s) PROVE FirstTickNotMissed'
    <3>1. due = {} /\ UNCHANGED <<booted, passed>>
      BY <2>1 DEF PausableTurns, AwaitEnds, Settled
    <3>2. UNCHANGED done
      BY <2>1 DEF PausableTurns, WaitFor, coordVars
    <3> QED BY <1>3, <3>1, <3>2
  <2>2. ASSUME NEW s \in Schedulers,
               LiveWorkEnds(s) \/ ArchiveTurns(s) \/ PausableEnds(s) \/ FiguresEnd(s)
        PROVE  FirstTickNotMissed'
    BY <2>2, <1>3 DEF LiveWorkEnds, ArchiveTurns, PausableEnds, FiguresEnd, coordVars
  <2>3. CASE TransitionTurns
    BY <2>3, <1>3 DEF TransitionTurns, coordVars
  <2> QED BY <1>5, <2>1, <2>2, <2>3, Zenon DEF Work
<1>6. CASE HourStrikes
  BY <1>6, <1>3 DEF HourStrikes, coordVars
<1>7. ASSUME NEW s \in Schedulers, Fire(s) PROVE FirstTickNotMissed'
  <2>1. due = {} /\ UNCHANGED <<done, booted, passed>>
    BY <1>7 DEF Fire, Settled, coordVars
  <2> QED BY <2>1, <1>3
<1>8. ASSUME NEW w \in Yielding, GivesUp(w) PROVE FirstTickNotMissed'
  BY <1>8, <1>3 DEF GivesUp, DeadlinePasses, schedVars
<1>9. ASSUME NEW s \in Schedulers, Boot(s) PROVE FirstTickNotMissed'
  <2>1. due = {} /\ UNCHANGED passed /\ booted' = booted \cup {s}
    BY <1>9 DEF Boot, Settled
  <2>2. CASE s \in Enabled
    <3>1. UNCHANGED <<done, emitted>>
      BY <1>9, <2>2 DEF Boot, coordVars
    <3>2. \A r : Gate(r)' = Gate(r)
      BY <3>1 DEF Gate, IsWarmedUp, IsMplusWarmedUp
    <3>3. ASSUME NEW r \in booted' \cap Enabled, SubscribesTo(r) # {}, Gate(r)'
          PROVE  r \in passed' \cup due'
      <4>1. Gate(r)
        BY <3>3, <3>2
      <4>2. CASE r \in booted
        BY <1>1, <2>1, <3>3, <4>1, <4>2 DEF FirstTickNotMissed
      <4>3. CASE r = s
        <5>1. s \in {"mplus", "archive", "mplusArchive", "raid"}
          BY <3>3, <4>3 DEF SubscribesTo, Schedulers
        <5>2. emitted["warmedUp"] > 0
          BY <1>1, <4>1, <4>3, <5>1 DEF Gate, SignalsOnce
        <5>3. \E g \in SubscribesTo(s) : emitted[g] > 0
          BY <5>1, <5>2 DEF SubscribesTo
        <5> QED BY <1>9, <2>2, <4>3, <5>1, <5>3 DEF Boot
      <4> QED BY <2>1, <3>3, <4>2, <4>3
    <3> QED BY <3>3 DEF FirstTickNotMissed
  <2>3. CASE s \notin Enabled
    <3>1. CASE s \in {"enrichment", "mplus"}
      BY <1>1, <1>9, <2>1, <2>3, <3>1, OpenedAreDue DEF Boot
    <3>2. CASE s \notin {"enrichment", "mplus"}
      <4>1. UNCHANGED <<done, due>>
        BY <1>9, <2>3, <3>2 DEF Boot, coordVars
      <4>2. \A r : Gate(r)' = Gate(r)
        BY <4>1 DEF Gate, IsWarmedUp, IsMplusWarmedUp
      <4> QED BY <1>1, <2>1, <2>3, <4>1, <4>2 DEF FirstTickNotMissed
    <3> QED BY <3>1, <3>2
  <2> QED BY <2>2, <2>3
<1> QED BY <1>4, <1>5, <1>6, <1>7, <1>8, <1>9, Zenon DEF Next
LEMMA ScheduleNextInv == ScheduleInv /\ [Next]_vars => ScheduleInv'
<1>1. ASSUME ScheduleInv, Next PROVE ScheduleInv'
  <2>1. [CoordNext]_coordVars
    BY <1>1, StepUsesCoordinator DEF ScheduleInv, PlacesInv
  <2>2. CoordInv'
    BY <1>1, <2>1, CoordNextInv DEF ScheduleInv
  <2>3. PlacesInv'
    BY <1>1, <2>2, NextKeepsPlaces DEF ScheduleInv, CoordInv
  <2>4. FirstTickNotMissed'
    BY <1>1, <2>2, NextMissesNothing
  <2> QED BY <2>2, <2>3, <2>4 DEF ScheduleInv
<1>2. ASSUME ScheduleInv, UNCHANGED vars PROVE ScheduleInv'
  <2>1. UNCHANGED coordVars /\ UNCHANGED <<booted, ringing, due, pc, passed>>
    BY <1>2 DEF vars, schedVars
  <2>2. CoordInv'
    BY <1>2, <2>1, CoordNextInv DEF ScheduleInv
  <2>3. PlacesInv'
    BY <1>2, <2>1, <2>2, StillKeepsPlaces
       DEF ScheduleInv, PlacesInv, CoordInv, TypeOK, coordVars
  <2>4. FirstTickNotMissed'
    BY <1>2, <2>1, NothingMissed DEF ScheduleInv, coordVars
  <2> QED BY <2>2, <2>3, <2>4 DEF ScheduleInv
<1> QED BY <1>1, <1>2

(* No two passes of a job overlap, and the coordinator counts a job as       *)
(* active exactly while it works, whatever fails and whoever gives up.       *)
THEOREM CountsAreTrue == Spec => []DepthMatchesWork
<1>1. ScheduleInv => DepthMatchesWork
  BY DEF ScheduleInv, PlacesInv
<1> QED BY <1>1, ScheduleInitInv, ScheduleNextInv, PTL DEF Spec

(* Once its gate is open, a job held back for a warm-up has had a tick past  *)
(* the gate or has one on its way, in whatever order jobs boot and signals   *)
(* fire, and whichever jobs are switched off.                                *)
THEOREM FirstTickComes == Spec => []FirstTickNotMissed
<1>1. ScheduleInv => FirstTickNotMissed
  BY DEF ScheduleInv
<1> QED BY <1>1, ScheduleInitInv, ScheduleNextInv, PTL DEF Spec

(* The schedulers implement the coordinator's specification: what is proved  *)
(* of it for arbitrary callers holds of this program.                        *)
THEOREM SchedulersUseCoordinator == Spec => CoordSpec
<1>1. Init => CoordInit
  BY DEF Init
<1>2. ScheduleInv /\ [Next]_vars => [CoordNext]_coordVars
  <2>1. ASSUME ScheduleInv, Next PROVE [CoordNext]_coordVars
    BY <2>1, StepUsesCoordinator DEF ScheduleInv, PlacesInv
  <2>2. ASSUME UNCHANGED vars PROVE UNCHANGED coordVars
    BY <2>2 DEF vars
  <2> QED BY <2>1, <2>2
<1> QED BY <1>1, <1>2, ScheduleInitInv, ScheduleNextInv, PTL DEF Spec, CoordSpec

(* So, in this program: nobody parks beside a job that is not running, and   *)
(* each warm-up signal fires exactly once.                                   *)
THEOREM CoordinatorPromises == Spec => [](NoLostWakeup /\ SignalsOnce)
BY SchedulersUseCoordinator, NoWakeupIsLost, EverySignalFiresOnce, PTL

=============================================================================
