--------------------------- MODULE EnrichmentQueue ---------------------------
(***************************************************************************)
(* Whose turn it is to be enriched                                         *)
(* (src/src/profile/profile-enrichment.service.ts, the selection and the   *)
(* stamps of src/src/leaderboard/character.repository.ts).  A character    *)
(* has two stamps, one for each half of its profile; the queue is the      *)
(* filter over both and the order of one, so that every outcome, failures  *)
(* included, must leave a stamp or the character stays in front for ever.  *)
(* A stamp is its age, in ticks; what the halves say is left out.          *)
(***************************************************************************)
EXTENDS Integers, FiniteSets, FiniteSetsExt

CONSTANTS
  Players,      \* the characters of the ladders
  MaxBatch,     \* PROFILE_BATCH_SIZE
  SummaryTtl,   \* PROFILE_SUMMARY_TTL_MS
  SpecsTtl,     \* PROFILE_SPECS_TTL_MS
  Backoff,      \* PROFILE_RETRY_BACKOFF_MS
  UsualGap,     \* the ticks between two passes at the most, every other time
  LongestGap,   \* and always
  MaxAge,       \* bound: the age from which on ages are not told apart
  MaxNew        \* bound: characters the sweep adds

ASSUME QueueAssumption ==
  /\ Players # {} /\ IsFiniteSet(Players)
  /\ {MaxBatch, SummaryTtl, SpecsTtl, Backoff, UsualGap, LongestGap} \subseteq Nat \ {0}
  /\ MaxNew \in Nat
  /\ SpecsTtl <= SummaryTtl /\ Backoff <= SpecsTtl
  /\ MaxAge \in Nat /\ MaxAge > SummaryTtl /\ MaxAge > SpecsTtl - Backoff + LongestGap
  /\ UsualGap < Backoff /\ UsualGap <= LongestGap

VARIABLES
  summaryAge,  \* the age of profileFetchedAt
  specsAge,    \* the age of specsFetchedAt
  batch,       \* the pass in progress
  gap,         \* ticks since a pass was last begun
  overdue,     \* the last pass over everything stale began later than UsualGap
  added,       \* history: characters added
  over         \* history: over[p][q]: passes in a row that took q and left p out although it was due

stamps == <<summaryAge, specsAge>>
queueVars == <<stamps, batch, gap, overdue, added, over>>

Absent == MaxAge + 1  \* the field is absent

(* summary, specs: the characters selected whose half is due and not asked   *)
(* for yet, by the stamps as they were when they were selected.  History:    *)
(* took and left, the characters due that the pass took and left out, but    *)
(* for those whose wait has begun anew since; whole, it is a pass over       *)
(* everything stale, and has not been cut short.                             *)
NoBatch == [on |-> FALSE, summary |-> {}, specs |-> {}, took |-> {}, left |-> {}, whole |-> FALSE]
Selected == batch.summary \cup batch.specs

(* Everyone waits anew.                                                     *)
NotOver == [q \in Players |-> 0]
Anew == [p \in Players |-> NotOver]

QueueTypeOK ==
  /\ {summaryAge, specsAge} \subseteq [Players -> 0..Absent]
  /\ batch \in [on : BOOLEAN, summary : SUBSET Players, specs : SUBSET Players,
                took : SUBSET Players, left : SUBSET Players, whole : BOOLEAN]
  /\ gap \in 0..LongestGap /\ overdue \in BOOLEAN
  /\ added \in 0..MaxNew /\ over \in [Players -> [Players -> Nat]]

QueueInit ==
  /\ summaryAge = [p \in Players |-> Absent] /\ specsAge = summaryAge
  /\ batch = NoBatch /\ gap = 0 /\ overdue = FALSE
  /\ added = 0 /\ over = Anew

(* Ages beyond MaxAge are not told apart; of two passes in a row one begins  *)
(* within UsualGap.                                                          *)
Aged(age) == IF age >= MaxAge THEN age ELSE age + 1

TickPasses ==
  /\ ~batch.on /\ gap < IF overdue THEN UsualGap ELSE LongestGap
  /\ gap' = gap + 1
  /\ summaryAge' = [p \in Players |-> Aged(summaryAge[p])]
  /\ specsAge' = [p \in Players |-> Aged(specsAge[p])]
  /\ UNCHANGED <<batch, overdue, added, over>>

(* A sweep lists a character for the first time, or again after it was gone. *)
Added(p) ==
  /\ added < MaxNew /\ added' = added + 1
  /\ p \notin Selected
  /\ summaryAge' = [summaryAge EXCEPT ![p] = Absent]
  /\ specsAge' = [specsAge EXCEPT ![p] = Absent]
  /\ batch' = [batch EXCEPT !.took = @ \ {p}, !.left = @ \ {p}]
  /\ over' = [r \in Players |-> [q \in Players |-> IF p \in {r, q} THEN 0 ELSE over[r][q]]]
  /\ UNCHANGED <<gap, overdue>>

(* A push brings some of the halves, and stamps those: the character's place *)
(* in the queue is another, and it waits anew.                               *)
Pushed(p) ==
  /\ \/ summaryAge' = [summaryAge EXCEPT ![p] = 0] /\ UNCHANGED specsAge
     \/ specsAge' = [specsAge EXCEPT ![p] = 0] /\ summaryAge' \in {summaryAge, [summaryAge EXCEPT ![p] = 0]}
  /\ batch' = [batch EXCEPT !.left = @ \ {p}]
  /\ over' = [over EXCEPT ![p] = NotOver]
  /\ UNCHANGED <<gap, overdue, added>>

-----------------------------------------------------------------------------
(* The selection.                                                            *)

(* enrichmentFilter: an age at its limit is not yet stale.                   *)
Stale(p) == summaryAge[p] > SummaryTtl \/ specsAge[p] > SpecsTtl
New(p) == summaryAge[p] = Absent

(* findProfilesToEnrich: the first n in the order of the specs stamp, the    *)
(* absent and then the oldest first.                                         *)
Selections(from, n) ==
  {some \in kSubset(n, from) : \A p \in some, q \in from \ some : specsAge[p] >= specsAge[q]}

(* The halves due, by an age at its limit too.                               *)
SummaryDue(p) == summaryAge[p] >= SummaryTtl
SpecsDue(p) == specsAge[p] >= SpecsTtl

(* A pass, of everything that is stale or of the new characters a sweep has  *)
(* found; how many it takes depends on the quota.                            *)
BatchBegins(onlyNew) ==
  /\ ~batch.on
  /\ LET due == {p \in Players : IF onlyNew THEN New(p) ELSE Stale(p)}
     IN  \E n \in 1..MaxBatch : n <= Cardinality(due) /\
         \E some \in Selections(due, n) :
           /\ batch' = [on |-> TRUE, summary |-> {p \in some : SummaryDue(p)},
                        specs |-> {p \in some : SpecsDue(p)}, took |-> some, left |-> due \ some,
                        whole |-> ~onlyNew]
           /\ over' = [p \in Players |-> [q \in Players |->
                IF p \notin some /\ (onlyNew \/ (p \in due /\ q \in some)) THEN over[p][q] ELSE 0]]
  /\ IF onlyNew THEN UNCHANGED <<gap, overdue>> ELSE gap' = 0 /\ overdue' = (gap > UsualGap)
  /\ UNCHANGED <<stamps, added>>

(* A pass that finds nothing stale.                                          *)
NothingDue ==
  /\ ~batch.on /\ \A p \in Players : ~Stale(p)
  /\ gap' = 0 /\ overdue' = (gap > UsualGap)
  /\ over' = Anew
  /\ UNCHANGED <<stamps, batch, added>>

-----------------------------------------------------------------------------
(* enrich: one character of the batch.                                       *)

Done(p) == batch' = [batch EXCEPT !.summary = @ \ {p}, !.specs = @ \ {p}]

(* A faulty SummaryFails that leaves no stamp.                               *)
SummaryFailsUnstamped(p) ==
  /\ p \in batch.summary
  /\ Done(p)
  /\ UNCHANGED <<stamps, gap, overdue, added, over>>

(* recordFailure: the half that failed is stamped, as of now if the payload  *)
(* cannot be understood, otherwise so that the backoff is what is left.  A   *)
(* label that cannot be set counts as a failure of the half before it.       *)
SummaryFails(p) ==
  /\ p \in batch.summary
  /\ \E age \in {0, SummaryTtl - Backoff} : summaryAge' = [summaryAge EXCEPT ![p] = age]
  /\ Done(p)
  /\ UNCHANGED <<specsAge, gap, overdue, added, over>>

(* markProfileMissing: a character the upstream does not know gets both.     *)
SummaryMissing(p) ==
  /\ p \in batch.summary
  /\ summaryAge' = [summaryAge EXCEPT ![p] = 0] /\ specsAge' = [specsAge EXCEPT ![p] = 0]
  /\ Done(p)
  /\ UNCHANGED <<gap, overdue, added, over>>

(* On to the specs, if they are due.                                         *)
SummaryRead(p) ==
  /\ p \in batch.summary
  /\ summaryAge' = [summaryAge EXCEPT ![p] = 0]
  /\ batch' = [batch EXCEPT !.summary = @ \ {p}]
  /\ UNCHANGED <<specsAge, gap, overdue, added, over>>

AtSpecs(p) == p \in batch.specs \ batch.summary

(* A 404 is stamped like an answer.                                          *)
SpecsRead(p) ==
  /\ AtSpecs(p)
  /\ specsAge' = [specsAge EXCEPT ![p] = 0]
  /\ Done(p)
  /\ UNCHANGED <<summaryAge, gap, overdue, added, over>>

SpecsFail(p) ==
  /\ AtSpecs(p)
  /\ \E age \in {0, SpecsTtl - Backoff} : specsAge' = [specsAge EXCEPT ![p] = age]
  /\ Done(p)
  /\ UNCHANGED <<summaryAge, gap, overdue, added, over>>

(* A sweep is on when its turn comes, the failure cannot be recorded, or the *)
(* process stops: the character is left as it was, and everyone waits anew.  *)
LeftAsItWas ==
  /\ batch.on
  /\ \E some \in SUBSET Selected :
       /\ some # {}
       /\ batch' = [batch EXCEPT !.summary = @ \ some, !.specs = @ \ some, !.whole = FALSE]
  /\ over' = Anew
  /\ UNCHANGED <<stamps, gap, overdue, added>>

BatchEnds ==
  /\ batch.on /\ Selected = {}
  /\ over' = [p \in Players |-> [q \in Players |->
                IF batch.whole /\ p \in batch.left /\ q \in batch.took THEN over[p][q] + 1 ELSE over[p][q]]]
  /\ batch' = NoBatch
  /\ UNCHANGED <<stamps, gap, overdue, added>>

QueueNext ==
  \/ TickPasses \/ NothingDue \/ LeftAsItWas \/ BatchEnds
  \/ \E onlyNew \in BOOLEAN : BatchBegins(onlyNew)
  \/ \E p \in Players :
       \/ Added(p) \/ Pushed(p)
       \/ SummaryFails(p) \/ SummaryMissing(p) \/ SummaryRead(p) \/ SpecsRead(p) \/ SpecsFail(p)

QueueSpec == QueueInit /\ [][QueueNext]_queueVars

-----------------------------------------------------------------------------
(* No character keeps its place before another that is due.  Counted are the *)
(* passes in a row that take the one and leave out the other and are not cut *)
(* short, whatever the enrichment of the first does, fail every time         *)
(* included: each leaves a stamp on one of its halves, which is not due      *)
(* again within the backoff, so they are at most two for each backoff in the *)
(* TTL of the specs, and three more.  Hence characters that fail, as many as *)
(* a pass takes, do not hold the queue.  It takes that passes begin within   *)
(* the backoff, or at least every other one: a summary that is due again by  *)
(* then fails again, and the specs by which the queue is ordered are never   *)
(* asked for.  And every value is of its type.                               *)
NobodyHoldsTheQueue ==
  /\ QueueTypeOK
  /\ \A p, q \in Players : Backoff * over[p][q] <= 2 * SpecsTtl + 3 * Backoff
===============================================================================
