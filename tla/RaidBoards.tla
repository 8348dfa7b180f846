------------------------------ MODULE RaidBoards ------------------------------
(***************************************************************************)
(* The guild rankings of the raids (src/src/raid/raid-rankings.service.ts, *)
(* its scheduler and repository): a run reads the boards that are due,     *)
(* several at once.  A board of an open raid is due every run, one of a    *)
(* finished raid until it was read once after the raid closed.  A          *)
(* scheduled run gives way to every other job; one asked for by hand does  *)
(* not, and the two may go on at the same time.  What the catalogue says   *)
(* of a raid changes under them.                                           *)
(***************************************************************************)
EXTENDS Integers, FiniteSets

CONSTANTS
  Boards,        \* a ranking: a raid, in a region, at a difficulty
  NoBoard,       \* no ranking
  WorkersOf,     \* WorkersOf[k]: the workers of a run of the kind k
  MaxFailures,   \* MAX_CONSECUTIVE_FAILURES
  RefusedRetry,  \* REFUSED_RETRY_MS
  LastMoment     \* bound: the time

Kinds == DOMAIN WorkersOf
Moments == 1..LastMoment
NotYet == 0
Open == LastMoment + 1  \* an end no one has named, or far in the future

ASSUME BoardsAssumption ==
  /\ Kinds \subseteq {"scheduled", "hand"}
  /\ {MaxFailures, RefusedRetry, LastMoment} \subseteq Nat \ {0}
  /\ NoBoard \notin Boards

VARIABLES
  moment,     \* the time
  closes,     \* closes[b]: when the raid of b has closed everywhere
  readAt,     \* guildsUpdatedAt
  refusedAt,  \* guildsRefusedAt
  askedAt,    \* history: when the reading of the board stored began
  stopping,   \* RaidRankingsScheduler.stopping
  run,        \* run[k]: the run of the kind k
  worker      \* worker[k][w]

upstreamVars == <<moment, closes>>
storedVars == <<readAt, refusedAt, askedAt>>
raidVars == <<upstreamVars, storedVars, stopping, run, worker>>

NoRun == [at |-> "idle", now |-> NotYet, due |-> {}, failures |-> 0, stopped |-> FALSE]
Off == [at |-> "off", board |-> NoBoard, since |-> NotYet]
NoWorkers == [k \in Kinds |-> [w \in WorkersOf[k] |-> Off]]

RaidTypeOK ==
  /\ moment \in Moments /\ closes \in [Boards -> Moments \cup {Open}]
  /\ {readAt, refusedAt, askedAt} \subseteq [Boards -> Moments \cup {NotYet}]
  /\ stopping \in BOOLEAN
  /\ run \in [Kinds -> [at : {"idle", "asked", "reading"}, now : Moments \cup {NotYet},
                        due : SUBSET Boards, failures : Nat, stopped : BOOLEAN]]
  /\ \A k \in Kinds : \A w \in WorkersOf[k] :
       worker[k][w] \in [at : {"off", "head", "waiting", "reading"}, board : Boards \cup {NoBoard},
                         since : Moments \cup {NotYet}]

RaidInit ==
  /\ moment = 1 /\ closes \in [Boards -> Moments \cup {Open}]
  /\ readAt = [b \in Boards |-> NotYet] /\ refusedAt = readAt /\ askedAt = readAt
  /\ stopping = FALSE /\ run = [k \in Kinds |-> NoRun] /\ worker = NoWorkers

MomentPasses ==
  /\ moment < LastMoment /\ moment' = moment + 1
  /\ UNCHANGED <<closes, storedVars, stopping, run, worker>>

(* The catalogue learns another end of a raid.                               *)
EndNamed(b) ==
  /\ \E end \in Moments \cup {Open} : closes' = [closes EXCEPT ![b] = end]
  /\ UNCHANGED <<moment, storedVars, stopping, run, worker>>

-----------------------------------------------------------------------------
(* Which boards are due.                                                     *)

(* Refused since it was last read, or never read.                            *)
LastRefused(b) == refusedAt[b] > readAt[b]
IsOpen(b, t) == closes[b] > t

IsDue(b, t) ==
  IF LastRefused(b)
    THEN IF IsOpen(b, t) THEN t - refusedAt[b] >= RefusedRetry ELSE refusedAt[b] < closes[b]
    ELSE readAt[b] = NotYet \/ IsOpen(b, t) \/ readAt[b] < closes[b]

(* refreshDue: what counts as now is fixed when the run is asked for.        *)
RunAsked(k) ==
  /\ run[k] = NoRun /\ (k = "scheduled" => ~stopping)
  /\ run' = [run EXCEPT ![k] = [NoRun EXCEPT !.at = "asked", !.now = moment]]
  /\ UNCHANGED <<upstreamVars, storedVars, stopping, worker>>

(* The catalogue has been checked, and the raids it lists are read: those    *)
(* due by the run's now; or every board of one raid, when that is what was   *)
(* asked for by hand.  As many workers start as there are boards.            *)
RunBegins(k) ==
  /\ run[k].at = "asked"
  /\ \E listed \in SUBSET Boards, all \in (IF k = "hand" THEN BOOLEAN ELSE {FALSE}) :
     LET due == {b \in listed : all \/ IsDue(b, run[k].now)} IN
       /\ run' = [run EXCEPT ![k].at = "reading", ![k].due = due]
       /\ \E some \in SUBSET WorkersOf[k] :
            /\ Cardinality(some) = IF Cardinality(due) < Cardinality(WorkersOf[k])
                                     THEN Cardinality(due) ELSE Cardinality(WorkersOf[k])
            /\ worker' = [worker EXCEPT ![k] =
                 [w \in WorkersOf[k] |-> IF w \in some THEN [Off EXCEPT !.at = "head"] ELSE Off]]
  /\ UNCHANGED <<upstreamVars, storedVars, stopping>>

-----------------------------------------------------------------------------
(* A worker of a run.                                                        *)

WorkerAt(k, w, place) == w \in WorkersOf[k] /\ worker[k][w].at = place
WorkerTo(k, w, place) == worker' = [worker EXCEPT ![k][w] = [Off EXCEPT !.at = place]]
NothingLeft(k) == run[k].due = {} \/ run[k].stopped
ShutDown(k) == k = "scheduled" /\ stopping

(* The worker takes the next board; from here on it is the board's own       *)
(* reading that goes on.                                                     *)
Takes(k, w) ==
  \E b \in run[k].due :
    /\ run' = [run EXCEPT ![k].due = @ \ {b}]
    /\ worker' = [worker EXCEPT ![k][w] = [at |-> "reading", board |-> b, since |-> moment]]

Leaves(k, w, stopped) ==
  /\ run' = [run EXCEPT ![k].stopped = @ \/ stopped]
  /\ WorkerTo(k, w, "off")

(* The head of the loop.  A run asked for by hand asks nobody, and does not  *)
(* wait.                                                                     *)
WorkerLooks(k, w) ==
  /\ WorkerAt(k, w, "head")
  /\ IF NothingLeft(k) THEN Leaves(k, w, FALSE)
     ELSE IF ShutDown(k) THEN Leaves(k, w, TRUE)
     ELSE IF k = "hand" THEN Takes(k, w)
     ELSE WorkerTo(k, w, "waiting") /\ UNCHANGED run
  /\ UNCHANGED <<upstreamVars, storedVars, stopping>>

(* A faulty WaitEnds that does not look again at what the others did.        *)
WaitEndsBlindly(k, w) ==
  /\ WorkerAt(k, w, "waiting")
  /\ IF run[k].due = {} THEN Leaves(k, w, FALSE) ELSE Leaves(k, w, TRUE) \/ Takes(k, w)
  /\ UNCHANGED <<upstreamVars, storedVars, stopping>>

(* whenClear: no job above the rankings is active, or the wait has run out.  *)
(* The other workers have moved on meanwhile, and a shutdown may have begun. *)
WaitEnds(k, w) ==
  /\ WorkerAt(k, w, "waiting")
  /\ \/ Leaves(k, w, TRUE)
     \/ IF NothingLeft(k) THEN Leaves(k, w, FALSE)
        ELSE IF ShutDown(k) THEN Leaves(k, w, TRUE)
        ELSE Takes(k, w)
  /\ UNCHANGED <<upstreamVars, storedVars, stopping>>

Reading(k, w) == worker[k][w].board

(* A faulty SetBoard that stamps the board when it is written.             *)
StampedWhenWritten(k, w) ==
  LET b == Reading(k, w)
  IN  /\ readAt' = [readAt EXCEPT ![b] = moment]
      /\ refusedAt' = [refusedAt EXCEPT ![b] = NotYet]
      /\ askedAt' = [askedAt EXCEPT ![b] = worker[k][w].since]

(* setBoard: the board whole, its stamp, and no refusal.                     *)
SetBoard(k, w) ==
  LET b == Reading(k, w)
  IN  /\ readAt' = [readAt EXCEPT ![b] = run[k].now]
      /\ refusedAt' = [refusedAt EXCEPT ![b] = NotYet]
      /\ askedAt' = [askedAt EXCEPT ![b] = worker[k][w].since]

(* All its pages are read, and the guilds on it written before it.           *)
BoardRead(k, w) ==
  /\ WorkerAt(k, w, "reading") /\ WorkerTo(k, w, "head")
  /\ SetBoard(k, w)
  /\ run' = [run EXCEPT ![k].failures = 0]
  /\ UNCHANGED <<upstreamVars, stopping>>

(* Raider.io refuses it: an answer, which is recorded unless that fails.     *)
BoardRefused(k, w) ==
  /\ WorkerAt(k, w, "reading") /\ WorkerTo(k, w, "head")
  /\ refusedAt' \in {refusedAt, [refusedAt EXCEPT ![Reading(k, w)] = run[k].now]}
  /\ UNCHANGED <<upstreamVars, readAt, askedAt, stopping, run>>

(* A page of it cannot be read, or a write fails.                            *)
BoardFails(k, w) ==
  /\ WorkerAt(k, w, "reading") /\ WorkerTo(k, w, "head")
  /\ run' = [run EXCEPT ![k].failures = @ + 1, ![k].stopped = @ \/ run[k].failures + 1 >= MaxFailures]
  /\ UNCHANGED <<upstreamVars, storedVars, stopping>>

RunEnds(k) ==
  /\ run[k].at = "reading" /\ \A w \in WorkersOf[k] : worker[k][w] = Off
  /\ run' = [run EXCEPT ![k] = NoRun]
  /\ UNCHANGED <<upstreamVars, storedVars, stopping, worker>>

ShutdownBegins ==
  /\ ~stopping /\ stopping' = TRUE
  /\ UNCHANGED <<upstreamVars, storedVars, run, worker>>

(* The process stops, and another one starts.                                *)
Restarts ==
  /\ stopping' = FALSE /\ run' = [k \in Kinds |-> NoRun] /\ worker' = NoWorkers
  /\ UNCHANGED <<upstreamVars, storedVars>>

RaidNext ==
  \/ MomentPasses \/ ShutdownBegins \/ Restarts
  \/ \E b \in Boards : EndNamed(b)
  \/ \E k \in Kinds :
       \/ RunAsked(k) \/ RunBegins(k) \/ RunEnds(k)
       \/ \E w \in WorkersOf[k] :
            WorkerLooks(k, w) \/ WaitEnds(k, w) \/ BoardRead(k, w) \/ BoardRefused(k, w) \/ BoardFails(k, w)

RaidSpec == RaidInit /\ [][RaidNext]_raidVars

-----------------------------------------------------------------------------
(* A finished raid's board that is left alone shows the raid as it ended,    *)
(* all of it asked for after the raid closed: however long its reading took, *)
(* whichever run wrote it last, and whenever the end became known.  Where    *)
(* Raider.io's last answer was a refusal there is nothing to show.  And      *)
(* every value is of its type.                                               *)
SettledIsFinal ==
  /\ RaidTypeOK
  /\ \A b \in Boards :
       ~IsOpen(b, moment) /\ ~IsDue(b, moment) /\ ~LastRefused(b) => askedAt[b] >= closes[b]

(* A run that has ended, for a shutdown, for a wait that ran out or for      *)
(* failures in a row, begins no board any more with any of its workers, and  *)
(* two workers of a run never have the same board.                           *)
EndedRunBeginsNothing ==
  [][\A k \in Kinds : \A w \in WorkersOf[k] :
       worker'[k][w].at = "reading" /\ worker[k][w].at # "reading" =>
         /\ ~run[k].stopped /\ ~ShutDown(k)
         /\ \A v \in WorkersOf[k] \ {w} :
              WorkerAt(k, v, "reading") => Reading(k, v) # worker'[k][w].board]_raidVars
===============================================================================
