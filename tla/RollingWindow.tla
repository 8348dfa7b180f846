--------------------------- MODULE RollingWindow ---------------------------
(* A rolling count of events in a ring of buckets: RollingWindow of          *)
(* common/quota/rolling-window.ts. Time is counted in buckets, and `charged` *)
(* is a history of every event, by the bucket it fell in, that the ring must *)
(* agree with although it forgets.                                           *)
EXTENDS Integers, Functions

CONSTANTS
  Keys,          \* who an event is charged to
  WindowBuckets, \* buckets counted besides the current one
  MaxClock       \* bound: the last bucket time reaches

ASSUME WindowAssumption == WindowBuckets \in Nat /\ MaxClock \in Nat

VARIABLES
  clock,   \* index of the current bucket
  ring,    \* the buckets, by slot: the index each holds and its counts
  charged  \* history: what was charged, by bucket index and key

windowVars == <<clock, ring, charged>>

(* A faulty ring, no longer than the window.                                 *)
SlotsOfTheWindow == WindowBuckets

(* One spare bucket beyond the window, and a small margin.                   *)
Slots == WindowBuckets + 4
Slot == 0 .. Slots - 1

(* Before every window: an empty bucket's -Infinity.                         *)
Never == -WindowBuckets - 1

NoCounts == [k \in Keys |-> 0]

WindowTypeOK ==
  /\ clock \in 0 .. MaxClock
  /\ ring \in [Slot -> [index : Int, counts : [Keys -> Nat]]]
  /\ charged \in [0 .. MaxClock -> [Keys -> Nat]]

WindowInit ==
  /\ clock = 0
  /\ ring = [s \in Slot |-> [index |-> Never, counts |-> NoCounts]]
  /\ charged = [b \in 0 .. MaxClock |-> NoCounts]

(* A faulty bucket, that goes on with what its slot held an hour ago.        *)
BucketKept(index) == ring[index % Slots].counts

(* The slot of a bucket index, and the bucket to charge in it: what the slot *)
(* held of an earlier time is dropped.                                       *)
SlotOf(index) == index % Slots
BucketAt(index) ==
  IF ring[SlotOf(index)].index = index THEN ring[SlotOf(index)].counts ELSE NoCounts

Record(k) ==
  /\ ring' = [ring EXCEPT ![SlotOf(clock)] =
       [index |-> clock, counts |-> [BucketAt(clock) EXCEPT ![k] = BucketAt(clock)[k] + 1]]]
  /\ charged' = [charged EXCEPT ![clock] = [charged[clock] EXCEPT ![k] = charged[clock][k] + 1]]
  /\ UNCHANGED clock

(* Time moves on and nothing runs: the ring is looked at when it is used.    *)
TimePasses ==
  /\ clock < MaxClock
  /\ clock' = clock + 1
  /\ UNCHANGED <<ring, charged>>

WindowNext == TimePasses \/ \E k \in Keys : Record(k)

WindowSpec == WindowInit /\ [][WindowNext]_windowVars

InWindow(index) == clock - WindowBuckets <= index /\ index <= clock

(* What `spent` adds up for one key.                                         *)
Spent(k) ==
  SumFunction([s \in {t \in Slot : InWindow(ring[t].index)} |-> ring[s].counts[k]])

(* The buckets a quota of WindowBuckets must remember, up to one more.        *)
Remembered == {b \in 0 .. MaxClock : b \in clock - WindowBuckets .. clock}

(* Every event of the current bucket and of the WindowBuckets before it is   *)
(* counted once, in the slot of its bucket, and no other event is counted:   *)
(* the slot reused, `Slots` buckets later, has dropped what it held.         *)
WindowIsExact ==
  /\ \A b \in Remembered : InWindow(b) /\ BucketAt(b) = charged[b]
  /\ \A s \in Slot : InWindow(ring[s].index) =>
       ring[s].index \in Remembered /\ SlotOf(ring[s].index) = s
============================================================================
