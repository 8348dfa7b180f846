----------------------------- MODULE JobSchedule -----------------------------
(***************************************************************************)
(* The schedulers of the background jobs around the IngestionCoordinator:  *)
(* what starts a tick, what a tick waits for, and where a running job      *)
(* steps aside.  What a job does to the database is left out: a unit of    *)
(* work (a season, a batch of pages, a board) is one "unit" step.          *)
(*                                                                         *)
(* The process is single threaded.  A timer or a completed read or write   *)
(* runs only when the microtask queue is empty (Settled); continuations of *)
(* awaits and the ticks PendingWork.run starts are microtasks, taken in    *)
(* any order.                                                              *)
(***************************************************************************)
EXTENDS IngestionCoordinator

CONSTANTS
  Enabled,    \* the jobs that are switched on
  Impatient,  \* the jobs whose bounded wait may run out
  Faulty,     \* the jobs whose work may throw
  MayRunOut,  \* the jobs whose backlog or share of the quota may run out
  Hourly      \* TRUE: every timer fires once an hour, together with the
              \* sweep's; FALSE: each timer fires at any time

(* Jobs that park in waitFor before they start, and what they wait out.      *)
Yielding == {"mplus", "archive", "mplusArchive", "raid", "mplusTransition"} \cap Enabled

YieldsTo(s) ==
  CASE s = "mplus"           -> {"sweep", "enrichment"}
    [] s = "archive"         -> {"sweep", "enrichment", "mplus"}
    [] s = "mplusArchive"    -> {"sweep", "enrichment", "mplus", "archive"}
    [] s = "raid"            -> {"sweep", "enrichment", "mplus", "archive", "mplusArchive"}
    [] s = "mplusTransition" -> {"mplus"}

VARIABLES
  booted,  \* jobs whose scheduler has run onApplicationBootstrap
  ringing, \* jobs whose hourly timer has yet to fire in this hour
  due,     \* jobs with a tick handed to PendingWork and not yet begun
  pc,      \* pc[s]: where job s is; not "idle" is its `running` flag
  passed   \* history: jobs with a tick that got past its warm-up gate

schedVars == <<booted, ringing, due, pc, passed>>
vars == <<coordVars, schedVars>>

Schedulers == {"sweep", "enrichment", "mplus", "archive", "mplusArchive",
               "raid", "mplusTransition"}

(* "waiting": parked before it starts.  "starting": answered, about to enter *)
(* the coordinator.  "prelude": reading what it needs before its first unit. *)
(* "unit": working.  "paused": parked in the middle.  "figures": what        *)
(* follows the last unit.  "leaving": its work has settled.  "announcing":   *)
(* a sweep that has left the coordinator and not yet emitted completed$.     *)
Places == {"idle", "waiting", "starting", "prelude", "unit", "paused",
           "figures", "leaving", "announcing"}

ASSUME EnabledAssumption ==
  /\ Enabled \subseteq Schedulers /\ "sweep" \in Enabled
  /\ Impatient \subseteq Enabled /\ Faulty \subseteq Enabled
  /\ MayRunOut \subseteq Enabled
  /\ Hourly \in BOOLEAN
  /\ Waiters = Yielding
  /\ WaitsOut = [s \in Yielding |-> YieldsTo(s)]

TypeOK ==
  /\ CoordTypeOK
  /\ booted \subseteq Schedulers
  /\ ringing \subseteq Enabled /\ due \subseteq Enabled
  /\ pc \in [Schedulers -> Places]
  /\ passed \subseteq Enabled

Init ==
  /\ CoordInit
  /\ booted = {}
  /\ ringing = {} /\ due = {}
  /\ pc = [s \in Schedulers |-> "idle"]
  /\ passed = {}

-----------------------------------------------------------------------------
(* The warm-up gate a tick of s checks, and the signals that start a tick.   *)

Gate(s) ==
  CASE s \in {"mplus", "archive"}     -> IsWarmedUp
    [] s \in {"mplusArchive", "raid"} -> IsWarmedUp /\ IsMplusWarmedUp
    [] OTHER                          -> TRUE

(* A faulty subscription, to the first of the two signals alone.             *)
SubscribesToWarmedUp(s) ==
  IF s \in {"mplus", "archive", "mplusArchive", "raid"} THEN {"warmedUp"} ELSE {}

SubscribesTo(s) ==
  CASE s \in {"mplus", "archive"}     -> {"warmedUp"}
    [] s \in {"mplusArchive", "raid"} -> {"warmedUp", "mplusWarmedUp"}
    [] OTHER                          -> {}

(* The schedulers a signal fired by this step starts.                        *)
StartedBySignals ==
  {s \in booted \cap Enabled :
     \E g \in SubscribesTo(s) : emitted'[g] > emitted[g]}

(* No microtask is left to run.                                              *)
Settled ==
  /\ due = {}
  /\ \A w \in Yielding : waiter[w] \in {"none", "queued"}
  /\ \A s \in Schedulers : pc[s] \notin {"starting", "leaving", "announcing"}

At(s, place) == pc[s] = place
Goto(s, place) == pc' = [pc EXCEPT ![s] = place]

(* Whether the bound of a wait may be zero, so that it is over at once.      *)
Allowed(s) == IF s \in Impatient THEN BOOLEAN ELSE {FALSE}

(* Where the loop head of a job sends it next: on to a unit, or out.         *)
AtHead(s) ==
  CASE s = "archive" ->
         IF IsLiveIngestionActive \/ Active("mplus") THEN {"leaving"}
         ELSE {"unit"} \cup (IF s \in MayRunOut THEN {"figures", "leaving"} ELSE {})
    [] s = "mplusArchive" ->
         IF IsAboveMplusArchiveActive THEN {"figures"}
         ELSE {"unit"} \cup (IF s \in MayRunOut THEN {"figures"} ELSE {})

(* The jobs that pause in the middle until the way is clear, and what is in  *)
(* the way: the Mythic+ pass before a batch, the rankings before a board.    *)
InTheWay(s) ==
  CASE s = "mplus" -> IsLiveIngestionActive
    [] s = "raid"  -> IsAboveRaidRankingsActive

-----------------------------------------------------------------------------
(* onApplicationBootstrap: a job switched off releases the gates it holds;   *)
(* one switched on subscribes, and a signal already fired is replayed to it. *)
Boot(s) ==
  /\ Settled
  /\ s \notin booted
  /\ booted' = booted \cup {s}
  /\ UNCHANGED <<ringing, pc, passed>>
  /\ IF s \in Enabled
       THEN /\ UNCHANGED coordVars
            /\ \/ /\ s = "sweep"                 \* INGEST_RUN_ON_STARTUP
                  /\ due' = {s}
               \/ due' = IF \E g \in SubscribesTo(s) : emitted[g] > 0
                           THEN {s} ELSE {}
       ELSE IF s \in {"enrichment", "mplus"}
         THEN MarkDisabled(s) /\ due' = StartedBySignals
         ELSE UNCHANGED <<coordVars, due>>

(* The hour strikes.  The live jobs of the last hour are over by then: a     *)
(* sweep and the enrichment pass after it take less than the hour, and so    *)
(* does the read of a catalogue.                                             *)
HourStrikes ==
  /\ Hourly /\ Settled
  /\ booted = Schedulers /\ ringing = {}
  /\ At("sweep", "idle") /\ At("enrichment", "idle")
  /\ \A s \in Schedulers : ~At(s, "prelude")
  /\ ringing' = Enabled
  /\ UNCHANGED <<coordVars, booted, due, pc, passed>>

(* The timer of s fires.                                                     *)
Fire(s) ==
  /\ Settled
  /\ IF Hourly THEN s \in ringing ELSE s \in booted \cap Enabled
  /\ ringing' = ringing \ {s}
  /\ due' = {s}
  /\ UNCHANGED <<coordVars, booted, pc, passed>>

-----------------------------------------------------------------------------
(* The body of a tick begins: it gives up at once when the job is running,   *)
(* or when its gate is closed, or for enrichment beside a sweep.             *)
TickSkips(s) ==
  /\ s \in due
  /\ ~At(s, "idle") \/ ~Gate(s) \/ (s = "enrichment" /\ Active("sweep"))
  /\ due' = due \ {s}
  /\ passed' = IF Gate(s) THEN passed \cup {s} ELSE passed
  /\ UNCHANGED <<coordVars, booted, ringing, pc>>

(* A faulty tick that does not look at the running flag.                     *)
TickBeginsAnyway(s) ==
  /\ s \in due /\ Gate(s)
  /\ due' = due \ {s}
  /\ passed' = passed \cup {s}
  /\ UNCHANGED <<booted, ringing>>

TickBegins(s) ==
  /\ s \in due /\ At(s, "idle") /\ Gate(s)
  /\ due' = due \ {s}
  /\ passed' = passed \cup {s}
  /\ UNCHANGED <<booted, ringing>>

(* A sweep and an enrichment pass start at once.                             *)
TickLive(s) ==
  /\ s \in {"sweep", "enrichment"}
  /\ TickBegins(s)
  /\ s = "enrichment" => ~Active("sweep")
  /\ Enter(s) /\ Goto(s, "unit")

(* The Mythic+ tick waits only if live ingestion is running right now.       *)
TickMplus ==
  /\ TickBegins("mplus")
  /\ IF IsLiveIngestionActive
       THEN /\ \E overdue \in Allowed("mplus") : WaitFor("mplus", overdue)
            /\ Goto("mplus", "waiting")
       ELSE Enter("mplus") /\ Goto("mplus", "prelude")

(* A faulty tick that skips while anything above it runs.                    *)
TickSkipsBusy(s) ==
  /\ s \in Yielding \ {"mplus"}
  /\ TickBegins(s)
  /\ Goto(s, IF Condition(s) THEN "starting" ELSE "idle")
  /\ UNCHANGED coordVars

(* The ticks below it wait out everything above them before they start.      *)
TickWaits(s) ==
  /\ s \in Yielding \ {"mplus"}
  /\ TickBegins(s)
  /\ \E overdue \in Allowed(s) : WaitFor(s, overdue)
  /\ Goto(s, "waiting")

(* waitFor answers a tick or a paused job.  On false the tick is left for    *)
(* the next one, and a paused job gives up what is left of its work.  The    *)
(* queue of microtasks is first in, first out: of several waiters woken      *)
(* together, every one looks again before any caller goes on.                *)
WaitIsOver(s) ==
  /\ \A w \in Yielding : waiter[w] # "woken"
  /\ Answered(s)
  /\ Goto(s, CASE At(s, "waiting") /\ waiter[s] = "cleared" -> "starting"
               [] At(s, "waiting") /\ waiter[s] = "expired" -> "idle"
               [] At(s, "paused") /\ waiter[s] = "cleared"  -> "unit"
               [] OTHER -> IF s = "mplus" THEN "figures" ELSE "idle")
  /\ UNCHANGED <<booted, ringing, due, passed>>

(* The job enters the coordinator.  The archive is at its loop head in the   *)
(* same stretch; the others read a catalogue first.                          *)
Start(s) ==
  /\ At(s, "starting")
  /\ IF s \in Jobs THEN Enter(s) ELSE UNCHANGED coordVars
  /\ \E place \in IF s = "archive" THEN AtHead(s) ELSE {"prelude"} : Goto(s, place)
  /\ UNCHANGED <<booted, ringing, due, passed>>

-----------------------------------------------------------------------------
(* The work itself: each of these ends an await on the database or on an     *)
(* upstream.  The timers of an hour fire together, before any await ends.    *)
AwaitEnds == Settled /\ ringing = {}

(* A live job ends its work.                                                 *)
LiveWorkEnds(s) ==
  /\ AwaitEnds
  /\ s \in {"sweep", "enrichment"} /\ At(s, "unit")
  /\ Goto(s, "leaving")
  /\ UNCHANGED <<coordVars, booted, ringing, due, passed>>

(* The catalogue or the last season of an archive has been read: back at     *)
(* the head of its loop.                                                     *)
ArchiveTurns(s) ==
  /\ AwaitEnds
  /\ s \in {"archive", "mplusArchive"} /\ pc[s] \in {"prelude", "unit"}
  /\ \E place \in AtHead(s) : Goto(s, place)
  /\ UNCHANGED <<coordVars, booted, ringing, due, passed>>

(* A Mythic+ pass or a rankings run is about to read its next batch or       *)
(* board.  A pass that has just read the catalogue may notice a rollover.    *)
PausableTurns(s) ==
  /\ AwaitEnds
  /\ s \in {"mplus", "raid"} /\ pc[s] \in {"prelude", "unit"}
  /\ IF InTheWay(s)
       THEN /\ \E overdue \in Allowed(s) : WaitFor(s, overdue)
            /\ Goto(s, "paused")
       ELSE Goto(s, "unit") /\ UNCHANGED coordVars
  /\ due' \in IF s = "mplus" /\ At(s, "prelude") /\ "mplusTransition" \in booted \cap Enabled
                THEN {{}, {"mplusTransition"}} ELSE {{}}
  /\ UNCHANGED <<booted, ringing, passed>>

(* The last batch or board has been read, there was none, or the pass threw. *)
PausableEnds(s) ==
  /\ AwaitEnds
  /\ s \in {"mplus", "raid"}
  /\ At(s, "unit") \/ (At(s, "prelude") /\ s \in MayRunOut)
  /\ \/ s = "mplus" /\ Goto(s, "figures")
     \/ s = "mplus" /\ s \in Faulty /\ Goto(s, "leaving")
     \/ s = "raid" /\ Goto(s, "idle")
  /\ UNCHANGED <<coordVars, booted, ringing, due, passed>>

FiguresEnd(s) ==
  /\ AwaitEnds
  /\ At(s, "figures")
  /\ Goto(s, "leaving")
  /\ UNCHANGED <<coordVars, booted, ringing, due, passed>>

(* The Mythic+ season transition plans, abstains beside a pass, purges.      *)
TransitionTurns ==
  /\ AwaitEnds
  /\ LET s == "mplusTransition"
     IN \/ At(s, "prelude") /\ Goto(s, IF Active("mplus") THEN "idle" ELSE "unit")
        \/ At(s, "unit") /\ Goto(s, "idle")
  /\ UNCHANGED <<coordVars, booted, ringing, due, passed>>

-----------------------------------------------------------------------------
(* The job leaves the coordinator, which may open a gate.  A sweep announces *)
(* itself afterwards, unless it threw.                                       *)
LeaveJob(s) ==
  /\ At(s, "leaving")
  /\ Leave(s)
  /\ \E place \in (IF s = "sweep" THEN {"announcing"} ELSE {"idle"})
                   \cup (IF s \in Faulty THEN {"idle"} ELSE {}) : Goto(s, place)
  /\ due' = due \cup StartedBySignals
  /\ UNCHANGED <<booted, ringing, passed>>

(* A faulty sweep nobody hears of: enrichment is left to its own timer.      *)
AnnounceToNobody ==
  /\ At("sweep", "announcing")
  /\ Goto("sweep", "idle")
  /\ UNCHANGED <<coordVars, booted, ringing, due, passed>>

(* emitCompleted starts an enrichment pass.  The announcement is queued      *)
(* behind the continuations of the waiters that Leave has woken.             *)
Announce ==
  /\ At("sweep", "announcing")
  /\ \A w \in Yielding : waiter[w] \in {"none", "queued"} /\ ~At(w, "starting")
  /\ Goto("sweep", "idle")
  /\ due' = due \cup ({"enrichment"} \cap booted \cap Enabled)
  /\ UNCHANGED <<coordVars, booted, ringing, passed>>

(* A faulty resume that takes being woken for being clear.                   *)
WakesUnchecked(w) ==
  /\ waiter[w] = "woken"
  /\ waiter' = [waiter EXCEPT ![w] = "cleared"]
  /\ UNCHANGED <<depth, done, signalled, emitted, late, schedVars>>

(* The caller of waitFor resumes and looks at its condition again.           *)
Wakes(w) == Resume(w) /\ UNCHANGED schedVars

(* The deadline of a bounded wait passes; time passes between tasks.         *)
GivesUp(w) ==
  /\ Settled /\ w \in Impatient
  /\ DeadlinePasses(w)
  /\ UNCHANGED schedVars

Micro ==
  \/ \E s \in Schedulers :
       TickSkips(s) \/ TickLive(s) \/ TickWaits(s) \/ Start(s) \/ LeaveJob(s)
  \/ TickMplus
  \/ \E s \in Yielding : WaitIsOver(s) \/ Wakes(s)
  \/ Announce

Work ==
  \/ \E s \in Schedulers :
       \/ LiveWorkEnds(s) \/ ArchiveTurns(s) \/ PausableTurns(s)
       \/ PausableEnds(s) \/ FiguresEnd(s)
  \/ TransitionTurns

Next ==
  \/ Micro
  \/ Work
  \/ HourStrikes
  \/ \E s \in Schedulers : Boot(s) \/ Fire(s)
  \/ \E w \in Yielding : GivesUp(w)

Spec == Init /\ [][Next]_vars

(* Microtasks always run, and boot runs every hook. *)
Progress == WF_vars(Micro) /\ WF_vars(\E s \in Schedulers : Boot(s))

(* Every run of a job ends: each request has a timeout, each loop a bound.   *)
RunsEnd == \A s \in Enabled : []<>(pc[s] \notin {"prelude", "unit", "figures"})

(* Hour after hour strikes, and the timers of the hour all fire. *)
HoursPass == []<>(ringing # {}) /\ []<>(ringing = {})

FairSpec == Spec /\ Progress /\ RunsEnd /\ HoursPass

(* The timer of a bounded wait fires, if the wait is not over before. *)
TimersFire == \A w \in Impatient \cap Yielding : []<>(waiter[w] = "none" \/ late[w])

(* No job need ever end. *)
TimerSpec == Spec /\ Progress /\ TimersFire

-----------------------------------------------------------------------------
(* No two passes of a job overlap, and the coordinator counts a job as       *)
(* active exactly while it is working: its `running` flag and its depth      *)
(* cannot disagree, so nothing waits on a job that is over; and every value  *)
(* is of its type.                                                           *)
DepthMatchesWork ==
  /\ TypeOK
  /\ \A j \in Jobs :
       depth[j] = IF pc[j] \in {"prelude", "unit", "paused", "figures", "leaving"}
                    THEN 1 ELSE 0

(* A job held back for a warm-up gets its first tick when its gate opens,    *)
(* whatever the order of boot and signals: once the gate is open, either a   *)
(* tick of it has got past the gate or one is on its way.  (The comment of   *)
(* MplusArchiveScheduler: "whichever arrives second is the one that finds    *)
(* both conditions met".)                                                    *)
FirstTickNotMissed ==
  \A s \in booted \cap Enabled :
    SubscribesTo(s) # {} /\ Gate(s) => s \in passed \cup due

(* Warm-up is reached: a sweep announces itself only after it has left the   *)
(* coordinator, so the enrichment pass it starts does not defer to it, even  *)
(* if every timer of enrichment lands on a sweep.                            *)
WarmUpReached == <>IsWarmedUp

(* The PvP archive and the rankings get their turn hour after hour, although *)
(* their timers always land on the sweep's: what waitFor exists for.         *)
WaitersGetTheirTurn == []<>(At("archive", "unit")) /\ []<>(At("raid", "unit"))

(* And so does the Mythic+ archive.                                          *)
MplusArchiveGetsItsTurn == []<>(At("mplusArchive", "unit"))

(* A bounded wait ends, so a job that never ends costs the waiter one tick   *)
(* and not every tick after it.                                              *)
NobodyWaitsForEver ==
  \A w \in Yielding : []<>(pc[w] \notin {"waiting", "paused"})

==============================================================================
