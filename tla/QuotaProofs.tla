----------------------------- MODULE QuotaProofs ------------------------------
(* What the quotas promise, for every size of them: sums over finite sets;   *)
(* the rolling window; the shares of the hour, and that the jobs which spend *)
(* from the window implement them; the Raider.io minute across restarts.     *)
EXTENDS QuotaBudget, RaiderIoBudget, FiniteSetTheorems, TLAPS

-----------------------------------------------------------------------------
(* Sums over finite sets, which the counts of a window are made of.          *)

(* Induction over a finite set, for a property given as the set of those     *)
(* that have it.                                                             *)
LEMMA FiniteSetInduction ==
  ASSUME NEW S, IsFiniteSet(S), NEW F, {} \in F,
         \A T \in SUBSET S, x \in S : T \in F /\ x \notin T => T \cup {x} \in F
  PROVE  S \in F
<1> DEFINE bad == {T \in SUBSET S : T \notin F}
<1> SUFFICES ASSUME S \notin F PROVE FALSE
  OBVIOUS
<1>1. IsWellFoundedOn(StrictSubsetOrdering(S), FiniteSubsetsOf(S))
  BY FS_StrictSubsetOrderingWellFounded
<1>2. FiniteSubsetsOf(S) = SUBSET S
  BY FS_FiniteSubsetsOfFinite
<1>3. bad \subseteq SUBSET S /\ bad # {}
  OBVIOUS
<1>4. PICK T \in bad : \A U \in bad : ~(<<U, T>> \in StrictSubsetOrdering(S))
  <2>1. IsWellFoundedOn(StrictSubsetOrdering(S), SUBSET S)
    BY <1>1, <1>2
  <2> HIDE DEF bad
  <2> QED BY <2>1, <1>3, WFMin, Zenon
<1>5. T # {} /\ T \subseteq S
  OBVIOUS
<1>6. PICK x \in T : TRUE
  BY <1>5
<1>7. T \ {x} \subseteq S /\ T \ {x} # T /\ T \ {x} \subseteq T /\ (T \ {x}) \cup {x} = T
  BY <1>5, <1>6
<1>8. <<T \ {x}, T>> \in StrictSubsetOrdering(S)
  BY <1>5, <1>7 DEF StrictSubsetOrdering
<1>9. T \ {x} \in F
  BY <1>4, <1>7, <1>8
<1> QED BY <1>5, <1>6, <1>7, <1>9

(* Induction over the numbers, in the same form.                             *)
LEMMA NumberInduction ==
  ASSUME NEW F, 0 \in F, \A n \in Nat : n \in F => n + 1 \in F, NEW n \in Nat
  PROVE  n \in F
<1> DEFINE S == 1 .. n
           G == {T \in SUBSET S : Cardinality(T) \in F}
<1>1. IsFiniteSet(S) /\ Cardinality(S) = n
  BY FS_Interval
<1>2. {} \in G
  BY FS_EmptySet
<1>3. ASSUME NEW T \in SUBSET S, NEW x \in S, T \in G, x \notin T
      PROVE  T \cup {x} \in G
  <2>1. IsFiniteSet(T) /\ Cardinality(T) \in Nat
    BY <1>1, FS_Subset, FS_CardinalityType
  <2>2. Cardinality(T \cup {x}) = Cardinality(T) + 1
    BY <1>3, <2>1, FS_AddElement
  <2> QED BY <1>3, <2>1, <2>2
<1> HIDE DEF G, S
<1>4. S \in G
  BY <1>1, <1>2, <1>3, FiniteSetInduction
<1> QED BY <1>1, <1>4 DEF G

(* Who is summed first.                                                      *)
First(s) == CHOOSE x \in s : TRUE

(* The partial sums SumFunction is made of, up to the sets of n elements.    *)
SumsUpTo(g, f, S, n) ==
  \A s \in SUBSET S : Cardinality(s) <= n =>
    g[s] = IF s = {} THEN 0 ELSE f[First(s)] + g[s \ {First(s)}]

LEMMA FirstLess ==
  ASSUME NEW s, IsFiniteSet(s), s # {}
  PROVE  /\ First(s) \in s /\ IsFiniteSet(s \ {First(s)})
         /\ Cardinality(s) \in Nat /\ Cardinality(s) > 0
         /\ Cardinality(s \ {First(s)}) = Cardinality(s) - 1
<1>1. First(s) \in s
  BY DEF First
<1>2. Cardinality(s) \in Nat /\ Cardinality(s) # 0
  BY FS_CardinalityType, FS_EmptySet
<1> QED BY <1>1, <1>2, FS_RemoveElement

(* All of them.                                                              *)
PartialSums(g, f, S) ==
  g = [s \in SUBSET S |-> IF s = {} THEN 0 ELSE f[First(s)] + g[s \ {First(s)}]]

(* They exist: the recursion of the fold is well founded.                    *)
LEMMA SumsExist ==
  ASSUME NEW S, IsFiniteSet(S), NEW f
  PROVE  \E g : PartialSums(g, f, S)
<1> DEFINE F == {n \in Nat : \E g : SumsUpTo(g, f, S, n)}
           next(g, n) == [s \in SUBSET S |-> IF Cardinality(s) <= n THEN g[s]
                                             ELSE f[First(s)] + g[s \ {First(s)}]]
<1>1. \A s \in SUBSET S : IsFiniteSet(s) /\ Cardinality(s) \in Nat
                           /\ (Cardinality(s) = 0 <=> s = {})
  BY FS_Subset, FS_CardinalityType, FS_EmptySet
<1>2. 0 \in F
  <2>1. SumsUpTo([s \in SUBSET S |-> 0], f, S, 0)
    BY <1>1 DEF SumsUpTo
  <2> QED BY <2>1
<1>3. ASSUME NEW n \in Nat, n \in F PROVE n + 1 \in F
  <2>1. PICK g : SumsUpTo(g, f, S, n)
    BY <1>3
  <2>2. ASSUME NEW s \in SUBSET S, Cardinality(s) <= n + 1
        PROVE  next(g, n)[s] = IF s = {} THEN 0
                               ELSE f[First(s)] + next(g, n)[s \ {First(s)}]
    <3>1. CASE s = {}
      <4>1. Cardinality(s) = 0 /\ Cardinality(s) <= n
        BY <1>1, <3>1
      <4>2. next(g, n)[s] = g[s]
        BY <4>1
      <4> QED BY <2>1, <3>1, <4>1, <4>2 DEF SumsUpTo
    <3>2. CASE s # {}
      <4>1. /\ s \ {First(s)} \in SUBSET S
            /\ Cardinality(s \ {First(s)}) = Cardinality(s) - 1
            /\ Cardinality(s) \in Nat
        BY <1>1, <3>2, FirstLess
      <4>2. next(g, n)[s \ {First(s)}] = g[s \ {First(s)}]
        BY <2>2, <4>1
      <4>3. CASE Cardinality(s) <= n
        <5>1. next(g, n)[s] = g[s]
          BY <4>3
        <5> QED BY <2>1, <3>2, <4>2, <4>3, <5>1 DEF SumsUpTo
      <4>4. CASE ~(Cardinality(s) <= n)
        BY <3>2, <4>2, <4>4
      <4> QED BY <4>3, <4>4
    <3> QED BY <3>1, <3>2
  <2> HIDE DEF next
  <2>3. SumsUpTo(next(g, n), f, S, n + 1)
    BY <2>2 DEF SumsUpTo
  <2> QED BY <2>3
<1>4. Cardinality(S) \in F
  <2> HIDE DEF F
  <2> QED BY <1>1, <1>2, <1>3, NumberInduction
<1>5. PICK g : SumsUpTo(g, f, S, Cardinality(S))
  BY <1>4
<1> DEFINE h == [s \in SUBSET S |-> g[s]]
<1>6. \A s \in SUBSET S : Cardinality(s) <= Cardinality(S)
  BY FS_Subset
<1>7. \A s \in SUBSET S :
        h[s] = IF s = {} THEN 0 ELSE f[First(s)] + h[s \ {First(s)}]
  BY <1>5, <1>6 DEF SumsUpTo
<1>8. h = [s \in SUBSET S |-> IF s = {} THEN 0 ELSE f[First(s)] + h[s \ {First(s)}]]
  <2> HIDE DEF h
  <2>1. h = [s \in SUBSET S |-> h[s]]
    BY DEF h
  <2> QED BY <2>1, <1>7
<1> QED BY <1>8 DEF PartialSums

(* What SumFunction is: the last of the partial sums.                        *)
LEMMA SumIsPartial ==
  ASSUME NEW S, IsFiniteSet(S), NEW f, DOMAIN f = S
  PROVE  \E g : /\ \A s \in SUBSET S :
                    g[s] = IF s = {} THEN 0 ELSE f[First(s)] + g[s \ {First(s)}]
               /\ SumFunction(f) = g[S]
<1> DEFINE iter == CHOOSE g : PartialSums(g, f, S)
<1>1. PartialSums(iter, f, S)
  BY SumsExist, Zenon
<1>2. SumFunction(f) = iter[S]
  BY DEF PartialSums, SumFunction, SumFunctionOnSet, FoldFunctionOnSet, MapThenFoldSet, First
<1> HIDE DEF iter
<1>3. \A s \in SUBSET S :
        iter[s] = IF s = {} THEN 0 ELSE f[First(s)] + iter[s \ {First(s)}]
  BY <1>1 DEF PartialSums
<1> QED BY <1>2, <1>3

(* The sum of f over some of its domain.                                     *)
SumOn(f, s) == SumFunction([x \in s |-> f[x]])

(* In whatever order it is taken, a sum is what any one element adds to the  *)
(* sum of the others.                                                        *)
LEMMA SumOnLaws ==
  ASSUME NEW S, IsFiniteSet(S), NEW f \in [S -> Int], NEW s \in SUBSET S
  PROVE  /\ SumOn(f, s) \in Int
         /\ s = {} => SumOn(f, s) = 0
         /\ \A x \in s : SumOn(f, s) = f[x] + SumOn(f, s \ {x})
<1>1. PICK g : /\ \A r \in SUBSET S :
                    g[r] = IF r = {} THEN 0 ELSE f[First(r)] + g[r \ {First(r)}]
               /\ SumFunction(f) = g[S]
  BY SumIsPartial
<1>2. \A r \in SUBSET S : IsFiniteSet(r) /\ Cardinality(r) \in Nat
                           /\ (Cardinality(r) = 0 <=> r = {})
  BY FS_Subset, FS_CardinalityType, FS_EmptySet
<1>3. \A r \in SUBSET S : r # {} =>
        /\ First(r) \in r /\ r \ {First(r)} \in SUBSET S
        /\ Cardinality(r \ {First(r)}) = Cardinality(r) - 1
  BY <1>2, FirstLess
<1>4. \A r \in SUBSET S : \A x \in r :
        r \ {x} \in SUBSET S /\ Cardinality(r \ {x}) = Cardinality(r) - 1
  BY <1>2, FS_RemoveElement
<1> DEFINE Good(r) == g[r] \in Int /\ (\A x \in r : g[r] = f[x] + g[r \ {x}])
           F == {n \in Nat : \A r \in SUBSET S : Cardinality(r) <= n => Good(r)}
<1>5. 0 \in F
  <2>1. ASSUME NEW r \in SUBSET S, Cardinality(r) <= 0
        PROVE  Good(r)
    <3>1. r = {} /\ r \in SUBSET S
      BY <2>1, <1>2
    <3>2. g[r] = 0
      BY <3>1, <1>1
    <3> QED BY <3>1, <3>2
  <2> QED BY <2>1
<1>6. ASSUME NEW n \in Nat, n \in F PROVE n + 1 \in F
  <2>1. ASSUME NEW r \in SUBSET S, Cardinality(r) <= n + 1
        PROVE  Good(r)
    <3>1. CASE r = {}
      <4>1. g[r] = 0
        BY <3>1, <1>1
      <4> QED BY <3>1, <4>1
    <3>2. CASE r # {}
      <4> DEFINE c == First(r)
      <4>1. /\ c \in r /\ r \ {c} \in SUBSET S /\ Cardinality(r \ {c}) <= n
            /\ Cardinality(r) \in Nat /\ g[r] = f[c] + g[r \ {c}]
        <5>1. c \in r /\ r \ {c} \in SUBSET S /\ Cardinality(r \ {c}) = Cardinality(r) - 1
          BY <1>3, <3>2
        <5>2. g[r] = f[c] + g[r \ {c}]
          BY <1>1, <3>2
        <5>3. Cardinality(r) \in Nat
          BY <1>2
        <5> HIDE DEF c
        <5> QED BY <5>1, <5>2, <5>3, <2>1
      <4>2. g[r \ {c}] \in Int /\ f[c] \in Int
        BY <4>1, <1>6
      <4>3. ASSUME NEW x \in r PROVE g[r] = f[x] + g[r \ {x}]
        <5>1. CASE x = c
          BY <4>1, <5>1
        <5>2. CASE x # c
          <6>1. /\ r \ {x} \in SUBSET S /\ Cardinality(r \ {x}) <= n
            BY <1>2, <1>4, <2>1
          <6>2. /\ x \in r \ {c} /\ c \in r \ {x} /\ (r \ {c}) \ {x} = (r \ {x}) \ {c}
            BY <4>1, <5>2
          <6> HIDE DEF c
          <6>3. g[r \ {c}] = f[x] + g[(r \ {c}) \ {x}]
            BY <1>6, <4>1, <6>2
          <6>4. g[r \ {x}] = f[c] + g[(r \ {x}) \ {c}]
            BY <1>6, <6>1, <6>2
          <6>5. (r \ {c}) \ {x} \in SUBSET S /\ Cardinality((r \ {c}) \ {x}) <= n
            BY <1>2, <1>4, <4>1, <6>2
          <6>6. g[(r \ {c}) \ {x}] \in Int /\ f[x] \in Int
            BY <1>6, <6>5
          <6> DEFINE gg == g[(r \ {c}) \ {x}]
          <6>7. /\ gg \in Int /\ f[x] \in Int /\ f[c] \in Int
                /\ g[r] = f[c] + g[r \ {c}] /\ g[r \ {c}] = f[x] + gg
                /\ g[r \ {x}] = f[c] + gg
            BY <4>1, <4>2, <6>2, <6>3, <6>4, <6>6
          <6> HIDE DEF gg
          <6> QED BY <6>7
        <5> QED BY <5>1, <5>2
      <4>4. g[r] \in Int
        <5> HIDE DEF c
        <5> QED BY <4>1, <4>2
      <4> QED BY <4>3, <4>4
    <3> QED BY <3>1, <3>2
  <2> QED BY <2>1
<1>7. \A n \in Nat : n \in F
  <2> HIDE DEF F
  <2> QED BY <1>5, <1>6, NumberInduction
<1>8. \A r \in SUBSET S : g[r] \in Int /\ \A x \in r : g[r] = f[x] + g[r \ {x}]
  BY <1>2, <1>7
<1>9. ASSUME NEW d \in SUBSET S PROVE SumOn(f, d) = g[d]
  <2> DEFINE fd == [x \in d |-> f[x]]
  <2>1. IsFiniteSet(d) /\ DOMAIN fd = d
    BY <1>2
  <2>2. PICK h : /\ \A r \in SUBSET d :
                      h[r] = IF r = {} THEN 0 ELSE fd[First(r)] + h[r \ {First(r)}]
                 /\ SumFunction(fd) = h[d]
    <3> HIDE DEF fd
    <3> QED BY <2>1, SumIsPartial
  <2> DEFINE G == {n \in Nat : \A r \in SUBSET d : Cardinality(r) <= n => h[r] = g[r]}
  <2>3. 0 \in G
    <3>1. ASSUME NEW r \in SUBSET d, Cardinality(r) <= 0 PROVE h[r] = g[r]
      <4>1. r = {} /\ r \in SUBSET S
        BY <3>1, <1>2
      <4> QED BY <4>1, <2>2, <1>1
    <3> QED BY <3>1
  <2>4. ASSUME NEW n \in Nat, n \in G PROVE n + 1 \in G
    <3>1. ASSUME NEW r \in SUBSET d, Cardinality(r) <= n + 1 PROVE h[r] = g[r]
      <4>1. CASE r = {}
        BY <4>1, <2>2, <1>1
      <4>2. CASE r # {}
        <5>1. /\ First(r) \in r /\ r \ {First(r)} \in SUBSET d
              /\ Cardinality(r \ {First(r)}) <= n
          BY <4>2, <3>1, <1>2, <1>3
        <5>2. h[r \ {First(r)}] = g[r \ {First(r)}]
          BY <5>1, <2>4
        <5>3. fd[First(r)] = f[First(r)]
          BY <5>1
        <5> HIDE DEF fd
        <5> QED BY <4>2, <5>1, <5>2, <5>3, <2>2, <1>1
      <4> QED BY <4>1, <4>2
    <3> QED BY <3>1
  <2>5. \A n \in Nat : n \in G
    <3> HIDE DEF G
    <3> QED BY <2>3, <2>4, NumberInduction
  <2>6. h[d] = g[d]
    BY <1>2, <2>5
  <2> QED BY <2>2, <2>6 DEF SumOn
<1> QED
  <2>1. SumOn(f, s) = g[s] /\ \A x \in s : SumOn(f, s \ {x}) = g[s \ {x}]
    BY <1>4, <1>9
  <2> QED BY <2>1, <1>1, <1>8

(* The sum of all of them, and of natural numbers.                           *)
LEMMA SumOfAll ==
  ASSUME NEW S, IsFiniteSet(S), NEW f \in [S -> Int]
  PROVE  SumFunction(f) = SumOn(f, S) /\ SumFunction(f) \in Int
<1>1. [x \in S |-> f[x]] = f
  OBVIOUS
<1>2. SumOn(f, S) \in Int
  BY SumOnLaws
<1> QED BY <1>1, <1>2 DEF SumOn

LEMMA SumOnAdds ==
  ASSUME NEW S, IsFiniteSet(S), NEW f \in [S -> Int],
         NEW r \in SUBSET S, NEW x \in S, x \notin r
  PROVE  SumOn(f, r \cup {x}) = f[x] + SumOn(f, r)
<1>1. r \cup {x} \in SUBSET S /\ (r \cup {x}) \ {x} = r
  OBVIOUS
<1> QED BY <1>1, SumOnLaws

LEMMA SumOnNat ==
  ASSUME NEW S, IsFiniteSet(S), NEW f \in [S -> Nat], NEW s \in SUBSET S
  PROVE  SumOn(f, s) \in Nat
<1> DEFINE F == {r \in SUBSET s : SumOn(f, r) \in Nat}
<1>1. f \in [S -> Int] /\ IsFiniteSet(s)
  BY FS_Subset
<1>2. {} \in F
  BY <1>1, SumOnLaws
<1>3. ASSUME NEW r \in SUBSET s, NEW x \in s, r \in F, x \notin r
      PROVE  r \cup {x} \in F
  <2>1. SumOn(f, r \cup {x}) = f[x] + SumOn(f, r)
    BY <1>1, <1>3, SumOnAdds
  <2> QED BY <1>3, <2>1
<1> HIDE DEF F
<1>4. s \in F
  BY <1>1, <1>2, <1>3, FiniteSetInduction
<1> QED BY <1>4 DEF F

(* A part of the sum is no more than the whole.                              *)
LEMMA SumOnPart ==
  ASSUME NEW S, IsFiniteSet(S), NEW f \in [S -> Nat], NEW t \in SUBSET S
  PROVE  SumOn(f, t) <= SumOn(f, S)
<1> DEFINE F == {r \in SUBSET S : SumOn(f, r \cap t) <= SumOn(f, r)}
<1>1. f \in [S -> Int]
  OBVIOUS
<1>2. {} \in F
  <2>1. {} \cap t = {} /\ {} \in SUBSET S
    OBVIOUS
  <2>2. SumOn(f, {}) = 0
    BY <1>1, <2>1, SumOnLaws
  <2> QED BY <2>1, <2>2
<1>3. ASSUME NEW r \in SUBSET S, NEW x \in S, r \in F, x \notin r
      PROVE  r \cup {x} \in F
  <2>1. SumOn(f, r \cup {x}) = f[x] + SumOn(f, r)
    BY <1>1, <1>3, SumOnAdds
  <2>2. SumOn(f, r) \in Nat /\ SumOn(f, r \cap t) \in Nat /\ f[x] \in Nat
    BY SumOnNat
  <2>5. SumOn(f, r \cap t) <= SumOn(f, r)
    BY <1>3
  <2>6. CASE x \in t
    <3>1. (r \cup {x}) \cap t = (r \cap t) \cup {x} /\ x \notin r \cap t
      BY <1>3, <2>6
    <3>2. SumOn(f, (r \cap t) \cup {x}) = f[x] + SumOn(f, r \cap t)
      BY <1>1, <3>1, SumOnAdds
    <3>3. SumOn(f, (r \cup {x}) \cap t) = f[x] + SumOn(f, r \cap t)
      BY <3>1, <3>2
    <3>4. SumOn(f, (r \cup {x}) \cap t) <= SumOn(f, r \cup {x})
      BY <2>1, <2>2, <2>5, <3>3
    <3> QED BY <3>4
  <2>4. CASE x \notin t
    <3>1. (r \cup {x}) \cap t = r \cap t
      BY <2>4
    <3>2. SumOn(f, (r \cup {x}) \cap t) = SumOn(f, r \cap t)
      BY <3>1, Zenon
    <3>3. SumOn(f, (r \cup {x}) \cap t) <= SumOn(f, r \cup {x})
      BY <2>1, <2>2, <2>5, <3>2
    <3> QED BY <3>3
  <2> QED BY <2>6, <2>4
<1>4. S \in F
  <2> HIDE DEF F
  <2> QED BY <1>2, <1>3, FiniteSetInduction
<1>5. S \cap t = t
  OBVIOUS
<1> QED BY <1>4, <1>5

(* When whatever counts in one sum has a place of its own in another, where  *)
(* there is at least as much, the one is no more than the other.             *)
LEMMA SumFits ==
  ASSUME NEW S, IsFiniteSet(S), NEW f \in [S -> Nat],
         NEW B, IsFiniteSet(B), NEW h \in [B -> Nat], NEW c,
         \A x \in S : f[x] > 0 => c[x] \in B /\ f[x] <= h[c[x]],
         \A x, y \in S : f[x] > 0 /\ f[y] > 0 /\ c[x] = c[y] => x = y
  PROVE  SumFunction(f) <= SumFunction(h)
<1> DEFINE at(r) == {c[x] : x \in {y \in r : f[y] > 0}}
           F == {r \in SUBSET S : SumOn(f, r) <= SumOn(h, at(r))}
<1>1. f \in [S -> Int] /\ h \in [B -> Int]
  OBVIOUS
<1>2. \A r \in SUBSET S : at(r) \in SUBSET B
  OBVIOUS
<1>3. {} \in F
  <2>1. at({}) = {} /\ {} \in SUBSET S /\ {} \in SUBSET B
    OBVIOUS
  <2>2. SumOn(f, {}) = 0 /\ SumOn(h, {}) = 0
    BY <1>1, <2>1, SumOnLaws
  <2> QED BY <2>1, <2>2
<1>4. ASSUME NEW r \in SUBSET S, NEW x \in S, r \in F, x \notin r
      PROVE  r \cup {x} \in F
  <2>1. SumOn(f, r \cup {x}) = f[x] + SumOn(f, r)
    BY <1>1, <1>4, SumOnAdds
  <2>2. SumOn(f, r) \in Nat /\ SumOn(h, at(r)) \in Nat /\ f[x] \in Nat
    BY <1>2, SumOnNat
  <2>3. SumOn(f, r) <= SumOn(h, at(r))
    BY <1>4
  <2>4. CASE f[x] > 0
    <3>1. at(r \cup {x}) = at(r) \cup {c[x]}
      BY <2>4
    <3>2. c[x] \in B /\ c[x] \notin at(r)
      BY <1>4, <2>4
    <3>3. h[c[x]] \in Nat /\ f[x] <= h[c[x]]
      BY <2>4, <3>2
    <3>4. at(r) \in SUBSET B
      BY <1>2
    <3> HIDE DEF at
    <3>5. SumOn(h, at(r) \cup {c[x]}) = h[c[x]] + SumOn(h, at(r))
      BY <1>1, <3>2, <3>4, SumOnAdds
    <3>6. SumOn(h, at(r \cup {x})) = h[c[x]] + SumOn(h, at(r))
      BY <3>1, <3>5, Zenon
    <3>7. SumOn(f, r \cup {x}) <= SumOn(h, at(r \cup {x}))
      BY <2>1, <2>2, <2>3, <3>3, <3>6
    <3> QED BY <3>7
  <2>5. CASE ~(f[x] > 0)
    <3>1. at(r \cup {x}) = at(r) /\ f[x] = 0
      BY <2>2, <2>5
    <3> HIDE DEF at
    <3>2. SumOn(f, r \cup {x}) <= SumOn(h, at(r \cup {x}))
      BY <2>1, <2>2, <2>3, <3>1
    <3> QED BY <3>2
  <2> QED BY <2>4, <2>5
<1>5. SumOn(f, S) <= SumOn(h, at(S))
  <2>1. S \in F
    <3> HIDE DEF F
    <3> QED BY <1>3, <1>4, FiniteSetInduction
  <2> QED BY <2>1
<1>6. /\ SumOn(h, at(S)) <= SumOn(h, B)
      /\ SumOn(f, S) \in Nat /\ SumOn(h, at(S)) \in Nat /\ SumOn(h, B) \in Nat
  <2>1. at(S) \in SUBSET B /\ S \in SUBSET S /\ B \in SUBSET B
    BY <1>2
  <2> HIDE DEF at
  <2>2. SumOn(h, at(S)) <= SumOn(h, B)
    BY <2>1, SumOnPart
  <2> QED BY <2>1, <2>2, SumOnNat
<1>7. SumFunction(f) = SumOn(f, S) /\ SumFunction(h) = SumOn(h, B)
  BY <1>1, SumOfAll
<1> QED BY <1>5, <1>6, <1>7

(* Sums are added term by term.                                              *)
LEMMA SumAdds ==
  ASSUME NEW S, IsFiniteSet(S), NEW f \in [S -> Int], NEW h \in [S -> Int]
  PROVE  SumFunction([x \in S |-> f[x] + h[x]]) = SumFunction(f) + SumFunction(h)
<1> DEFINE p == [x \in S |-> f[x] + h[x]]
           F == {r \in SUBSET S : SumOn(p, r) = SumOn(f, r) + SumOn(h, r)}
<1>1. p \in [S -> Int] /\ \A x \in S : p[x] = f[x] + h[x]
  OBVIOUS
<1> HIDE DEF p
<1>2. {} \in F
  <2>1. {} \in SUBSET S
    OBVIOUS
  <2>2. SumOn(f, {}) = 0 /\ SumOn(h, {}) = 0 /\ SumOn(p, {}) = 0
    BY <1>1, <2>1, SumOnLaws
  <2> QED BY <2>1, <2>2
<1>3. ASSUME NEW r \in SUBSET S, NEW x \in S, r \in F, x \notin r
      PROVE  r \cup {x} \in F
  <2>1. /\ SumOn(f, r \cup {x}) = f[x] + SumOn(f, r)
        /\ SumOn(h, r \cup {x}) = h[x] + SumOn(h, r)
        /\ SumOn(p, r \cup {x}) = p[x] + SumOn(p, r)
    BY <1>1, <1>3, SumOnAdds
  <2>2. SumOn(f, r) \in Int /\ SumOn(h, r) \in Int /\ f[x] \in Int /\ h[x] \in Int
    BY SumOnLaws
  <2>3. SumOn(p, r) = SumOn(f, r) + SumOn(h, r)
    BY <1>3
  <2> QED BY <1>1, <2>1, <2>2, <2>3
<1>4. S \in F
  <2> HIDE DEF F
  <2> QED BY <1>2, <1>3, FiniteSetInduction
<1>5. /\ SumFunction(p) = SumOn(p, S) /\ SumFunction(f) = SumOn(f, S)
      /\ SumFunction(h) = SumOn(h, S)
  BY <1>1, SumOfAll
<1> QED BY <1>4, <1>5 DEF p

(* One term more, and one term changed.                                      *)
LEMMA SumGrows ==
  ASSUME NEW S, IsFiniteSet(S), NEW x, x \notin S,
         NEW f \in [S -> Int], NEW h \in [S \cup {x} -> Int],
         \A y \in S : h[y] = f[y]
  PROVE  SumFunction(h) = SumFunction(f) + h[x]
<1> DEFINE T == S \cup {x}
<1>1. IsFiniteSet(T) /\ S \in SUBSET T /\ x \in T
  BY FS_AddElement
<1>2. [y \in S |-> h[y]] = f
  OBVIOUS
<1>3. SumOn(h, T) = h[x] + SumOn(h, S)
  BY <1>1, SumOnAdds
<1>4. SumOn(h, S) = SumFunction(f)
  BY <1>2 DEF SumOn
<1>5. SumFunction(h) = SumOn(h, T)
  BY <1>1, SumOfAll
<1>6. SumFunction(f) \in Int /\ h[x] \in Int
  BY SumOfAll
<1> QED BY <1>3, <1>4, <1>5, <1>6

LEMMA SumChanges ==
  ASSUME NEW S, IsFiniteSet(S), NEW x \in S,
         NEW f \in [S -> Int], NEW h \in [S -> Int],
         \A y \in S : y # x => h[y] = f[y]
  PROVE  SumFunction(h) = SumFunction(f) + (h[x] - f[x])
<1> DEFINE r == S \ {x}
<1>1. r \in SUBSET S /\ x \notin r /\ r \cup {x} = S
  OBVIOUS
<1>2. [y \in r |-> h[y]] = [y \in r |-> f[y]]
  OBVIOUS
<1> HIDE DEF r
<1>3. SumOn(h, S) = h[x] + SumOn(h, r) /\ SumOn(f, S) = f[x] + SumOn(f, r)
  BY <1>1, SumOnAdds
<1>4. SumOn(h, r) = SumOn(f, r)
  BY <1>2 DEF SumOn
<1>5. SumFunction(h) = SumOn(h, S) /\ SumFunction(f) = SumOn(f, S) /\ SumOn(f, r) \in Int
  BY <1>1, SumOfAll, SumOnLaws
<1>6. h[x] \in Int /\ f[x] \in Int
  OBVIOUS
<1> QED BY <1>3, <1>4, <1>5, <1>6

-----------------------------------------------------------------------------
(* The ring counts exactly the events of its window, for every number of     *)
(* buckets, every set of keys and every length of time.                      *)

(* Two times less than a turn of the ring apart do not share a slot.         *)
LEMMA SlotsDiffer ==
  ASSUME NEW n \in Nat \ {0}, NEW a \in Nat, NEW c \in Nat, a < c, c - a < n
  PROVE  a % n # c % n
<1>1. \A x \in Nat : /\ x \div n \in Int /\ x % n \in Int
                     /\ x = (n * (x \div n)) + (x % n)
  BY Z3
<1> DEFINE p == a \div n
           q == c \div n
<1>2. /\ p \in Int /\ q \in Int
      /\ a = (n * p) + (a % n)
      /\ c = (n * q) + (c % n)
  BY <1>1
<1>3. \A x \in Int : 0 < n * x => n * x >= n
  BY Z3
<1> HIDE DEF p, q
<1>4. n * (q - p) = (n * q) - (n * p)
  BY <1>2
<1>5. SUFFICES ASSUME a % n = c % n PROVE FALSE
  OBVIOUS
<1>6. c - a = n * (q - p)
  BY <1>1, <1>2, <1>4, <1>5
<1> QED BY <1>2, <1>3, <1>6

(* What the ring holds is a bucket that time reached, in its own slot, with  *)
(* every charge of it; a bucket of the window that is not in the ring was    *)
(* never charged; and nothing is charged before its time. WindowIsExact      *)
(* alone is not inductive: it says nothing of the buckets about to be reused.*)
RingSound ==
  /\ \A s \in Slot : ring[s].index # Never =>
       /\ ring[s].index \in 0 .. clock
       /\ SlotOf(ring[s].index) = s
       /\ ring[s].counts = charged[ring[s].index]
  /\ \A b \in Remembered : ring[SlotOf(b)].index # b => charged[b] = NoCounts
  /\ \A b \in 0 .. MaxClock : clock < b => charged[b] = NoCounts

WindowInv == WindowTypeOK /\ RingSound

(* A bucket index has a slot of the ring.                                    *)
LEMMA SlotOfIsSlot == \A b \in Nat : SlotOf(b) \in Slot
<1> SUFFICES ASSUME NEW b \in Nat, NEW n \in Nat \ {0}, n = Slots
             PROVE  b % n \in 0 .. n - 1
  BY WindowAssumption DEF SlotOf, Slot, Slots
<1> QED BY Z3

(* Two buckets of the window have slots of their own.                        *)
LEMMA RememberedApart ==
  ASSUME NEW b \in Remembered, NEW d \in Remembered, clock \in 0 .. MaxClock, b # d
  PROVE  SlotOf(b) # SlotOf(d)
<1>1. Slots \in Nat \ {0} /\ Slots > WindowBuckets
  BY WindowAssumption DEF Slots
<1>2. /\ b \in Nat /\ d \in Nat
      /\ b - d < Slots /\ d - b < Slots
  BY <1>1, WindowAssumption DEF Remembered
<1>3. CASE b < d
  BY <1>1, <1>2, <1>3, SlotsDiffer DEF SlotOf
<1>4. CASE d < b
  BY <1>1, <1>2, <1>4, SlotsDiffer DEF SlotOf
<1> QED BY <1>2, <1>3, <1>4

(* An empty ring is sound.                                                   *)
LEMMA WindowInitInv == WindowInit => WindowInv
<1> SUFFICES ASSUME WindowInit PROVE WindowInv
  OBVIOUS
<1>1. NoCounts \in [Keys -> Nat] /\ Never \in Int
  BY WindowAssumption DEF NoCounts, Never
<1>2. WindowTypeOK
  BY <1>1, WindowAssumption DEF WindowInit, WindowTypeOK
<1>3. RingSound
  BY DEF WindowInit, RingSound, Remembered
<1> QED BY <1>2, <1>3 DEF WindowInv

(* A charge keeps the ring sound: the slot it takes over held a bucket that  *)
(* left the window.                                                          *)
LEMMA RecordKeepsInv ==
  ASSUME WindowInv, NEW k \in Keys, Record(k)
  PROVE  WindowInv'
<1> DEFINE here == SlotOf(clock)
           more == [BucketAt(clock) EXCEPT ![k] = BucketAt(clock)[k] + 1]
<1>1. /\ clock \in Nat /\ clock \in 0 .. MaxClock /\ clock' = clock
      /\ here \in Slot /\ clock \in Remembered
      /\ Remembered' = Remembered
  BY SlotOfIsSlot, WindowAssumption DEF WindowInv, WindowTypeOK, Record, Remembered
<1>2. BucketAt(clock) = charged[clock]
  BY <1>1, WindowAssumption DEF WindowInv, RingSound, BucketAt, Never
<1>3. more \in [Keys -> Nat]
  BY <1>1, <1>2 DEF WindowInv, WindowTypeOK
<1>4. /\ ring' = [ring EXCEPT ![here] = [index |-> clock, counts |-> more]]
      /\ charged' = [charged EXCEPT ![clock] = more]
  BY <1>2 DEF Record
<1> HIDE DEF here, more
<1>5. WindowTypeOK'
  BY <1>1, <1>3, <1>4 DEF WindowInv, WindowTypeOK
<1>6. /\ ring'[here].index = clock /\ ring'[here].counts = more
      /\ charged'[clock] = more
      /\ \A s \in Slot : s # here => ring'[s] = ring[s]
      /\ \A b \in 0 .. MaxClock : b # clock => charged'[b] = charged[b]
  BY <1>1, <1>4 DEF WindowInv, WindowTypeOK
<1>7. ASSUME NEW s \in Slot, ring'[s].index # Never
      PROVE  /\ ring'[s].index \in 0 .. clock
             /\ SlotOf(ring'[s].index) = s
             /\ ring'[s].counts = charged'[ring'[s].index]
  <2>1. CASE s = here
    BY <2>1, <1>1, <1>6 DEF here
  <2>2. CASE s # here
    <3>1. ring'[s] = ring[s]
      BY <2>2, <1>6
    <3>2. /\ ring[s].index \in 0 .. clock
          /\ SlotOf(ring[s].index) = s
          /\ ring[s].counts = charged[ring[s].index]
      BY <3>1, <1>7 DEF WindowInv, RingSound
    <3>3. ring[s].index # clock
      BY <2>2, <3>2 DEF here
    <3> QED BY <3>1, <3>2, <3>3, <1>1, <1>6, WindowAssumption
  <2> QED BY <2>1, <2>2
<1>8. ASSUME NEW b \in Remembered, ring'[SlotOf(b)].index # b
      PROVE  charged'[b] = NoCounts
  <2>1. b # clock
    BY <1>6, <1>8 DEF here
  <2>2. SlotOf(b) # here /\ SlotOf(b) \in Slot
    BY <2>1, <1>1, RememberedApart, SlotOfIsSlot DEF here, Remembered
  <2> QED BY <2>1, <2>2, <1>6, <1>8 DEF WindowInv, RingSound, Remembered
<1>9. ASSUME NEW b \in 0 .. MaxClock, clock < b
      PROVE  charged'[b] = NoCounts
  BY <1>1, <1>6, <1>9 DEF WindowInv, RingSound
<1>10. RingSound'
  BY <1>1, <1>7, <1>8, <1>9 DEF RingSound, SlotOf, Slots, NoCounts, Never
<1> QED BY <1>5, <1>10 DEF WindowInv

(* The window rolls over a ring nobody touches.                              *)
LEMMA TimeKeepsInv ==
  ASSUME WindowInv, TimePasses
  PROVE  WindowInv'
<1>1. /\ clock \in Nat /\ clock' = clock + 1 /\ clock' \in 0 .. MaxClock
      /\ ring' = ring /\ charged' = charged
  BY WindowAssumption DEF WindowInv, WindowTypeOK, TimePasses
<1>2. WindowTypeOK'
  BY <1>1 DEF WindowInv, WindowTypeOK
<1>3. \A b \in Remembered' : b \in Remembered \/ b = clock + 1
  BY <1>1, WindowAssumption DEF Remembered
<1>4. charged[clock + 1] = NoCounts
  BY <1>1 DEF WindowInv, RingSound
<1>5. RingSound'
  BY <1>1, <1>3, <1>4 DEF WindowInv, RingSound, SlotOf, Slots, NoCounts, Never
<1> QED BY <1>2, <1>5 DEF WindowInv

(* Sound is enough: the window is counted exactly.                           *)
LEMMA SoundIsExact == WindowInv => WindowIsExact
<1> SUFFICES ASSUME WindowInv PROVE WindowIsExact
  OBVIOUS
<1>1. ASSUME NEW b \in Remembered
      PROVE  InWindow(b) /\ BucketAt(b) = charged[b]
  <2>1. b \in Nat /\ SlotOf(b) \in Slot /\ b # Never
    BY SlotOfIsSlot, WindowAssumption DEF Remembered, Never
  <2>2. BucketAt(b) = charged[b]
    BY <2>1 DEF WindowInv, RingSound, BucketAt
  <2> QED BY <2>2, WindowAssumption DEF Remembered, InWindow, WindowInv, WindowTypeOK
<1>2. ASSUME NEW s \in Slot, InWindow(ring[s].index)
      PROVE  ring[s].index \in Remembered /\ SlotOf(ring[s].index) = s
  <2>1. ring[s].index # Never
    BY <1>2, WindowAssumption DEF InWindow, Never, WindowInv, WindowTypeOK
  <2> QED BY <2>1, <1>2, WindowAssumption
        DEF WindowInv, WindowTypeOK, RingSound, InWindow, Remembered
<1> QED BY <1>1, <1>2 DEF WindowIsExact

(* What a charge does to the ring and to the history, point by point.        *)
LEMMA RecordPointwise ==
  ASSUME WindowTypeOK, NEW k \in Keys, Record(k), SlotOf(clock) \in Slot,
         BucketAt(clock) \in [Keys -> Nat]
  PROVE  /\ WindowTypeOK' /\ clock' = clock
         /\ ring'[SlotOf(clock)].index = clock
         /\ \A i \in Keys : ring'[SlotOf(clock)].counts[i]
                              = BucketAt(clock)[i] + (IF i = k THEN 1 ELSE 0)
         /\ \A s \in Slot : s # SlotOf(clock) => ring'[s] = ring[s]
         /\ \A b \in 0 .. MaxClock, i \in Keys :
              charged'[b][i] = charged[b][i] + (IF b = clock /\ i = k THEN 1 ELSE 0)
<1> DEFINE counts == [BucketAt(clock) EXCEPT ![k] = BucketAt(clock)[k] + 1]
           total == [charged[clock] EXCEPT ![k] = charged[clock][k] + 1]
           bucket == [index |-> clock, counts |-> counts]
<1>1. /\ clock \in 0 .. MaxClock /\ clock \in Int
      /\ charged \in [0 .. MaxClock -> [Keys -> Nat]]
      /\ ring \in [Slot -> [index : Int, counts : [Keys -> Nat]]]
  BY WindowAssumption DEF WindowTypeOK
<1>2. /\ counts \in [Keys -> Nat] /\ total \in [Keys -> Nat]
      /\ \A i \in Keys : /\ counts[i] = BucketAt(clock)[i] + (IF i = k THEN 1 ELSE 0)
                         /\ total[i] = charged[clock][i] + (IF i = k THEN 1 ELSE 0)
  BY <1>1
<1>3. /\ ring' = [ring EXCEPT ![SlotOf(clock)] = bucket]
      /\ charged' = [charged EXCEPT ![clock] = total]
      /\ clock' = clock
  BY DEF Record
<1> HIDE DEF counts, total
<1>4. bucket \in [index : Int, counts : [Keys -> Nat]]
      /\ bucket.index = clock /\ bucket.counts = counts
  BY <1>1, <1>2
<1> HIDE DEF bucket
<1>5. /\ ring' \in [Slot -> [index : Int, counts : [Keys -> Nat]]]
      /\ ring'[SlotOf(clock)] = bucket
      /\ \A s \in Slot : s # SlotOf(clock) => ring'[s] = ring[s]
  BY <1>1, <1>3, <1>4
<1>6. /\ charged' \in [0 .. MaxClock -> [Keys -> Nat]]
      /\ charged'[clock] = total
      /\ \A b \in 0 .. MaxClock : b # clock => charged'[b] = charged[b]
  BY <1>1, <1>2, <1>3
<1>7. WindowTypeOK'
  BY <1>1, <1>3, <1>5, <1>6 DEF WindowTypeOK
<1>8. \A b \in 0 .. MaxClock, i \in Keys :
        charged'[b][i] = charged[b][i] + (IF b = clock /\ i = k THEN 1 ELSE 0)
  <2> TAKE b \in 0 .. MaxClock, i \in Keys
  <2>1. charged[b][i] \in Nat
    BY <1>1
  <2>2. CASE b = clock
    BY <2>2, <1>2, <1>6
  <2>3. CASE b # clock
    BY <2>1, <2>3, <1>6
  <2> QED BY <2>2, <2>3
<1> QED BY <1>2, <1>3, <1>4, <1>5, <1>7, <1>8

(* What the window counts, as a sum over the slots that are inside it.       *)
Counted == {t \in Slot : InWindow(ring[t].index)}

(* Every bucket the ring holds was reached by time and lies in its own slot. *)
OwnSlots ==
  \A s \in Slot : ring[s].index # Never =>
    ring[s].index \in 0 .. clock /\ SlotOf(ring[s].index) = s

LEMMA CountedIsFinite == IsFiniteSet(Slot) /\ IsFiniteSet(Counted)
<1>1. Slots - 1 \in Int
  BY WindowAssumption DEF Slots
<1>2. IsFiniteSet(Slot)
  BY <1>1, FS_Interval DEF Slot
<1> QED BY <1>2, FS_Subset DEF Counted

LEMMA SpentIsNat ==
  ASSUME WindowTypeOK, NEW k \in Keys
  PROVE  Spent(k) \in Nat
<1> DEFINE f == [s \in Counted |-> ring[s].counts[k]]
<1>1. f \in [Counted -> Nat]
  BY DEF WindowTypeOK, Counted
<1>2. Spent(k) = SumFunction(f)
  BY DEF Spent, Counted
<1> HIDE DEF f
<1>3. SumFunction(f) = SumOn(f, Counted)
  BY <1>1, CountedIsFinite, SumOfAll
<1>4. SumOn(f, Counted) \in Nat
  BY <1>1, CountedIsFinite, SumOnNat
<1> QED BY <1>2, <1>3, <1>4

(* A charge is counted once, under its own key: the bucket it begins takes   *)
(* the place of one that has left the window.                                *)
LEMMA RecordSpends ==
  ASSUME WindowTypeOK, OwnSlots, NEW k \in Keys, Record(k), NEW i \in Keys
  PROVE  Spent(i)' = Spent(i) + (IF i = k THEN 1 ELSE 0)
<1> DEFINE here == SlotOf(clock)
           f == [s \in Counted |-> ring[s].counts[i]]
           h == [s \in Counted' |-> ring'[s].counts[i]]
<1>1. /\ clock \in 0 .. MaxClock /\ clock \in Nat /\ clock \in Remembered
      /\ here \in Slot
      /\ ring \in [Slot -> [index : Int, counts : [Keys -> Nat]]]
  <2>1. clock \in 0 .. MaxClock /\ clock \in Nat
    BY WindowAssumption DEF WindowTypeOK
  <2>2. clock \in Remembered
    BY <2>1, WindowAssumption DEF Remembered
  <2> QED BY <2>1, <2>2, SlotOfIsSlot DEF WindowTypeOK
<1>2. BucketAt(clock) \in [Keys -> Nat]
  BY <1>1 DEF BucketAt, NoCounts
<1>3. /\ WindowTypeOK' /\ clock' = clock
      /\ ring'[here].index = clock
      /\ ring'[here].counts[i] = BucketAt(clock)[i] + (IF i = k THEN 1 ELSE 0)
      /\ \A s \in Slot : s # here => ring'[s] = ring[s]
  BY <1>1, <1>2, RecordPointwise
<1>4. InWindow(clock)
  BY <1>1, WindowAssumption DEF InWindow
<1>5. Counted' = {t \in Slot : InWindow(ring'[t].index)}
  BY <1>3 DEF Counted, Slot, Slots, InWindow
<1>6. Counted' = Counted \cup {here}
  BY <1>1, <1>3, <1>4, <1>5 DEF Counted
<1>7. Spent(i) = SumFunction(f) /\ Spent(i)' = SumFunction(h)
  BY DEF Spent, Counted
<1>8. /\ f \in [Counted -> Int] /\ \A s \in Counted : f[s] = ring[s].counts[i]
      /\ h \in [Counted' -> Int] /\ \A s \in Counted' : h[s] = ring'[s].counts[i]
  <2>1. Slot' = Slot /\ Counted' \subseteq Slot
    BY <1>5 DEF Slot, Slots
  <2> QED BY <1>1, <1>3, <2>1 DEF WindowTypeOK, Counted
<1> HIDE DEF f, h
<1>9. \A s \in Counted : s # here => h[s] = f[s]
  BY <1>3, <1>6, <1>8 DEF Counted
<1>10. h[here] = BucketAt(clock)[i] + (IF i = k THEN 1 ELSE 0)
  BY <1>3, <1>6, <1>8
<1>11. BucketAt(clock)[i] \in Nat
  BY <1>2
<1>12. CASE ring[here].index = clock
  <2>1. here \in Counted /\ Counted' = Counted /\ f[here] = BucketAt(clock)[i]
    BY <1>1, <1>4, <1>6, <1>8, <1>12 DEF Counted, BucketAt
  <2>2. h \in [Counted -> Int]
    BY <1>8, <2>1
  <2>3. SumFunction(h) = SumFunction(f) + (h[here] - f[here])
    BY <1>8, <1>9, <2>1, <2>2, CountedIsFinite, SumChanges
  <2>4. SumFunction(f) \in Int
    BY <1>8, CountedIsFinite, SumOfAll
  <2> QED BY <1>7, <1>10, <1>11, <2>1, <2>3, <2>4
<1>13. CASE ring[here].index # clock
  <2>1. here \notin Counted
    <3> SUFFICES ASSUME InWindow(ring[here].index) PROVE FALSE
      BY DEF Counted
    <3>1. ring[here].index # Never
      BY <1>1, WindowAssumption DEF InWindow, Never
    <3>2. ring[here].index \in 0 .. clock /\ SlotOf(ring[here].index) = here
      BY <1>1, <3>1 DEF OwnSlots
    <3>3. ring[here].index \in Remembered
      BY <1>1, <3>2, WindowAssumption DEF Remembered, InWindow
    <3> QED BY <1>1, <1>13, <3>2, <3>3, RememberedApart
  <2>2. BucketAt(clock)[i] = 0
    BY <1>13 DEF BucketAt, NoCounts
  <2>3. h \in [Counted \cup {here} -> Int] /\ \A s \in Counted : h[s] = f[s]
    BY <1>6, <1>8, <1>9, <2>1
  <2>4. SumFunction(h) = SumFunction(f) + h[here]
    <3>1. f \in [Counted -> Int] /\ IsFiniteSet(Counted)
      BY <1>8, CountedIsFinite
    <3> HIDE DEF here
    <3> QED BY <2>1, <2>3, <3>1, SumGrows
  <2>5. SumFunction(f) \in Int
    BY <1>8, CountedIsFinite, SumOfAll
  <2> QED BY <1>7, <1>10, <2>2, <2>4, <2>5
<1> QED BY <1>12, <1>13

(* As time passes the window only forgets.                                   *)
LEMMA TimeForgets ==
  ASSUME WindowTypeOK, OwnSlots, TimePasses, NEW i \in Keys
  PROVE  Spent(i)' <= Spent(i)
<1> DEFINE f == [s \in Counted |-> ring[s].counts[i]]
           gone == Counted'
<1>1. /\ clock \in Nat /\ clock' = clock + 1 /\ ring' = ring
      /\ ring \in [Slot -> [index : Int, counts : [Keys -> Nat]]]
  BY WindowAssumption DEF WindowTypeOK, TimePasses
<1>2. gone = {t \in Slot : clock' - WindowBuckets <= ring'[t].index /\ ring'[t].index <= clock'}
  BY DEF Counted, Slot, Slots, InWindow
<1>3. ASSUME NEW t \in gone PROVE t \in Counted
  <2>1. /\ t \in Slot /\ ring[t].index \in Int
        /\ clock + 1 - WindowBuckets <= ring[t].index
    <3> HIDE DEF gone
    <3>1. t \in Slot /\ clock' - WindowBuckets <= ring'[t].index
      BY <1>2
    <3>2. ring'[t].index = ring[t].index /\ ring[t].index \in Int
      BY <1>1, <3>1
    <3> QED BY <1>1, <3>1, <3>2, WindowAssumption
  <2>2. ring[t].index # Never
    BY <1>1, <2>1, WindowAssumption DEF Never
  <2>3. ring[t].index \in 0 .. clock
    BY <2>1, <2>2 DEF OwnSlots
  <2> QED BY <1>1, <2>1, <2>3, WindowAssumption DEF Counted, InWindow
<1>4. Spent(i) = SumFunction(f) /\ Spent(i)' = SumFunction([s \in gone |-> ring[s].counts[i]])
  BY <1>1 DEF Spent, Counted
<1>5. f \in [Counted -> Nat] /\ [s \in gone |-> f[s]] = [s \in gone |-> ring[s].counts[i]]
  BY <1>1, <1>3 DEF Counted
<1>6. gone \in SUBSET Counted
  BY <1>3
<1> HIDE DEF f, gone
<1>7. SumOn(f, gone) <= SumOn(f, Counted)
  BY <1>5, <1>6, CountedIsFinite, SumOnPart
<1>8. SumOn(f, Counted) = SumFunction(f)
  BY <1>5, CountedIsFinite, SumOfAll
<1>9. SumOn(f, gone) = Spent(i)'
  BY <1>4, <1>5 DEF SumOn
<1> QED BY <1>4, <1>7, <1>8, <1>9

(* At every moment the ring counts every event of the window, once and in    *)
(* its own bucket, and nothing older: rolling-window.ts forgets what it      *)
(* should and nothing else.                                                  *)
THEOREM WindowCountsExactly == WindowSpec => []WindowIsExact
<1>1. WindowInit => WindowInv
  BY WindowInitInv
<1>2. WindowInv /\ [WindowNext]_windowVars => WindowInv'
  <2> SUFFICES ASSUME WindowInv, [WindowNext]_windowVars PROVE WindowInv'
    OBVIOUS
  <2>1. CASE TimePasses
    BY <2>1, TimeKeepsInv
  <2>2. ASSUME NEW k \in Keys, Record(k) PROVE WindowInv'
    BY <2>2, RecordKeepsInv
  <2>3. CASE UNCHANGED windowVars
    BY <2>3 DEF windowVars, WindowInv, WindowTypeOK, RingSound, Remembered,
                SlotOf, Slots, Slot, NoCounts, Never
  <2> QED BY <2>1, <2>2, <2>3 DEF WindowNext
<1>3. WindowInv => WindowIsExact
  BY SoundIsExact
<1> QED BY <1>1, <1>2, <1>3, PTL DEF WindowSpec

-----------------------------------------------------------------------------
(* The shares of the quota hold whatever the size of the quota, of the       *)
(* reserve, of a batch, and however many requests are in flight.             *)

(* The batch in progress must be within the share for the next archive check *)
(* to hold back enough: SharesHeld is inductive only with BatchWithinShare.  *)
SharesInv == Shares!SharesTypeOK /\ Shares!BatchWithinShare /\ Shares!SharesHeld

(* Nothing is spent at first, and the reserve and the share fit.             *)
LEMMA SharesInitInv == Shares!SharesInit => SharesInv
<1> SUFFICES ASSUME Shares!SharesInit PROVE SharesInv
  OBVIOUS
<1>1. Shares!SharesTypeOK
  BY QuotaAssumption DEF Shares!SharesInit, Shares!SharesTypeOK
<1>2. Shares!BatchWithinShare
  BY QuotaAssumption DEF Shares!SharesInit, Shares!BatchWithinShare, Shares!Consumers
<1>3. Shares!SharesHeld
  BY QuotaAssumption DEF Shares!SharesInit, Shares!SharesHeld, Shares!Consumers, Shares!Greater
<1> QED BY <1>1, <1>2, <1>3 DEF SharesInv

(* A charge raises one counter and no other.                                 *)
LEMMA ChargeRaisesOne ==
  ASSUME Shares!SharesTypeOK, NEW k \in Shares!Consumers, Shares!Charges(k)
  PROVE  /\ SpentBy' \in [Shares!Consumers -> Nat]
         /\ SpentBy'[k] = SpentBy[k] + 1
         /\ \A i \in Shares!Consumers : i # k => SpentBy'[i] = SpentBy[i]
BY DEF Shares!SharesTypeOK, Shares!Charges

(* The counters by name, as numbers.                                         *)
LEMMA CountersAreNumbers ==
  ASSUME SpentBy \in [Shares!Consumers -> Nat]
  PROVE  /\ SpentBy["sweep"] \in Nat /\ SpentBy["enrichment"] \in Nat
         /\ SpentBy["archive"] \in Nat /\ SpentBy["other"] \in Nat
BY DEF Shares!Consumers

(* A request nobody was asked for is counted on both sides.                  *)
LEMMA UnthrottledKeepsInv ==
  ASSUME SharesInv, Shares!Unthrottled
  PROVE  SharesInv'
<1> PICK k \in Shares!Consumers : Shares!Charges(k)
  BY DEF Shares!Unthrottled
<1>1. /\ unforeseen' = unforeseen + 1 /\ left' = left /\ inFlight' = inFlight
      /\ Shares!SharesTypeOK /\ Shares!BatchWithinShare /\ Shares!SharesHeld
  BY DEF Shares!Unthrottled, SharesInv
<1>2. /\ SpentBy' \in [Shares!Consumers -> Nat]
      /\ SpentBy'[k] = SpentBy[k] + 1
      /\ \A i \in Shares!Consumers : i # k => SpentBy'[i] = SpentBy[i]
  BY <1>1, ChargeRaisesOne
<1>3. Shares!SharesTypeOK'
  BY <1>1, <1>2 DEF Shares!SharesTypeOK
<1>4. /\ SpentBy'["sweep"] \in {SpentBy["sweep"], SpentBy["sweep"] + 1}
      /\ SpentBy'["enrichment"] \in {SpentBy["enrichment"], SpentBy["enrichment"] + 1}
      /\ SpentBy["sweep"] \in Nat /\ SpentBy["enrichment"] \in Nat
      /\ SpentBy["archive"] \in Nat /\ SpentBy["other"] \in Nat
      /\ SpentBy'["archive"] \in Nat /\ SpentBy'["other"] \in Nat
      /\ SpentBy'["sweep"] + SpentBy'["enrichment"] + SpentBy'["archive"] + SpentBy'["other"]
           = SpentBy["sweep"] + SpentBy["enrichment"] + SpentBy["archive"] + SpentBy["other"] + 1
  BY <1>1, <1>2 DEF Shares!SharesTypeOK, Shares!Consumers
<1>5. Shares!BatchWithinShare'
  BY <1>1, <1>4, QuotaAssumption DEF Shares!BatchWithinShare, Shares!SharesTypeOK
<1>6. Shares!SharesHeld'
  BY <1>1, <1>4, QuotaAssumption DEF Shares!SharesHeld, Shares!SharesTypeOK, Shares!Greater
<1> QED BY <1>3, <1>5, <1>6 DEF SharesInv

(* A charge that was allowed takes the place of what was set aside for it.   *)
LEMMA AllowedChargeKeepsInv ==
  ASSUME SharesInv, Shares!SweepRequests \/ Shares!EnrichmentRequests \/ Shares!ArchiveRequests
  PROVE  SharesInv'
<1>1. /\ Shares!SharesTypeOK /\ Shares!BatchWithinShare /\ Shares!SharesHeld
      /\ SpentBy["sweep"] \in Nat /\ SpentBy["enrichment"] \in Nat
      /\ SpentBy["archive"] \in Nat /\ SpentBy["other"] \in Nat
  BY CountersAreNumbers DEF SharesInv, Shares!SharesTypeOK
<1>2. CASE Shares!SweepRequests
  <2>1. /\ SpentBy' \in [Shares!Consumers -> Nat]
        /\ SpentBy'["sweep"] = SpentBy["sweep"] + 1
        /\ SpentBy'["enrichment"] = SpentBy["enrichment"]
        /\ SpentBy'["archive"] = SpentBy["archive"] /\ SpentBy'["other"] = SpentBy["other"]
        /\ SpentBy["sweep"] < SweepReserve
        /\ left' = left /\ inFlight' = inFlight /\ unforeseen' = unforeseen
    BY <1>1, <1>2, ChargeRaisesOne DEF Shares!SweepRequests, Shares!Consumers
  <2> QED BY <1>1, <2>1, QuotaAssumption
        DEF SharesInv, Shares!SharesTypeOK, Shares!BatchWithinShare, Shares!SharesHeld, Shares!Greater
<1>3. CASE Shares!EnrichmentRequests
  <2>1. /\ SpentBy' \in [Shares!Consumers -> Nat]
        /\ SpentBy'["enrichment"] = SpentBy["enrichment"] + 1
        /\ SpentBy'["sweep"] = SpentBy["sweep"]
        /\ SpentBy'["archive"] = SpentBy["archive"] /\ SpentBy'["other"] = SpentBy["other"]
        /\ left > 0 /\ left' = left - 1
        /\ inFlight' = inFlight /\ unforeseen' = unforeseen
    BY <1>1, <1>3, ChargeRaisesOne DEF Shares!EnrichmentRequests, Shares!Consumers
  <2> QED BY <1>1, <2>1, QuotaAssumption
        DEF SharesInv, Shares!SharesTypeOK, Shares!BatchWithinShare, Shares!SharesHeld, Shares!Greater
<1>4. CASE Shares!ArchiveRequests
  <2>1. /\ SpentBy' \in [Shares!Consumers -> Nat]
        /\ SpentBy'["archive"] = SpentBy["archive"] + 1
        /\ SpentBy'["sweep"] = SpentBy["sweep"]
        /\ SpentBy'["enrichment"] = SpentBy["enrichment"] /\ SpentBy'["other"] = SpentBy["other"]
        /\ inFlight > 0 /\ inFlight' = inFlight - 1
        /\ left' = left /\ unforeseen' = unforeseen
    BY <1>1, <1>4, ChargeRaisesOne DEF Shares!ArchiveRequests, Shares!Consumers
  <2> QED BY <1>1, <2>1, QuotaAssumption
        DEF SharesInv, Shares!SharesTypeOK, Shares!BatchWithinShare, Shares!SharesHeld, Shares!Greater
<1> QED BY <1>2, <1>3, <1>4

(* A batch is sized within what enrichment may still claim.                  *)
LEMMA PlanKeepsInv ==
  ASSUME SharesInv, Shares!PlanBatch
  PROVE  SharesInv'
<1>1. /\ Shares!SharesTypeOK /\ Shares!BatchWithinShare /\ Shares!SharesHeld
      /\ SpentBy["sweep"] \in Nat /\ SpentBy["enrichment"] \in Nat
      /\ SpentBy["archive"] \in Nat /\ SpentBy["other"] \in Nat
  BY CountersAreNumbers DEF SharesInv, Shares!SharesTypeOK
<1>2. /\ left = 0 /\ left' \in Nat /\ unforeseen' \in Nat /\ unforeseen' >= unforeseen
      /\ left' <= Shares!EnrichmentAllowance(SpentBy) + (unforeseen' - unforeseen)
      /\ inFlight' = inFlight /\ SpentBy' = SpentBy
  BY DEF Shares!PlanBatch
<1>3. Shares!EnrichmentAllowance(SpentBy) <= Shares!AtLeastZero(EnrichmentShare - SpentBy["enrichment"])
  BY <1>1, QuotaAssumption DEF Shares!EnrichmentAllowance, Shares!AtLeastZero, Shares!Lesser, Shares!Room
<1>4. Shares!EnrichmentAllowance(SpentBy) \in Nat
  BY <1>1, QuotaAssumption DEF Shares!EnrichmentAllowance, Shares!AtLeastZero, Shares!Lesser, Shares!Room
<1>5. Shares!BatchWithinShare'
  BY <1>1, <1>2, <1>3, <1>4, QuotaAssumption
  DEF Shares!BatchWithinShare, Shares!SharesTypeOK, Shares!AtLeastZero
<1>6. Shares!SharesHeld'
  BY <1>1, <1>2, <1>3, <1>4, QuotaAssumption
  DEF Shares!SharesHeld, Shares!SharesTypeOK, Shares!AtLeastZero, Shares!Greater
<1>7. Shares!SharesTypeOK'
  BY <1>1, <1>2 DEF Shares!SharesTypeOK
<1> QED BY <1>5, <1>6, <1>7 DEF SharesInv

(* A check of the archive leaves the sweep its reserve and enrichment its    *)
(* share, a batch in progress included, but for the brackets at once.        *)
LEMMA CheckKeepsInv ==
  ASSUME SharesInv, Shares!ArchiveChecks
  PROVE  SharesInv'
<1>1. /\ Shares!SharesTypeOK /\ Shares!BatchWithinShare /\ Shares!SharesHeld
      /\ SpentBy["sweep"] \in Nat /\ SpentBy["enrichment"] \in Nat
      /\ SpentBy["archive"] \in Nat /\ SpentBy["other"] \in Nat
  BY CountersAreNumbers DEF SharesInv, Shares!SharesTypeOK
<1>2. /\ inFlight < ArchiveConcurrency /\ inFlight' = inFlight + 1
      /\ Shares!ArchiveAllowance(SpentBy) > 0
      /\ left' = left /\ unforeseen' = unforeseen /\ SpentBy' = SpentBy
  BY DEF Shares!ArchiveChecks
<1>3. SpentBy["archive"] + SpentBy["other"] + Shares!Greater(SpentBy["sweep"], SweepReserve)
        + Shares!Greater(SpentBy["enrichment"], EnrichmentShare) < Usable
  BY <1>1, <1>2, QuotaAssumption DEF Shares!ArchiveAllowance, Shares!AtLeastZero, Shares!Room,
    Shares!Greater
<1>4. Shares!Greater(SpentBy["enrichment"] + left, EnrichmentShare)
        <= Shares!Greater(SpentBy["enrichment"], EnrichmentShare) + unforeseen
  BY <1>1, QuotaAssumption DEF Shares!BatchWithinShare, Shares!SharesTypeOK, Shares!Greater
<1>5. Shares!SharesHeld'
  BY <1>1, <1>2, <1>3, <1>4, QuotaAssumption DEF Shares!SharesHeld, Shares!SharesTypeOK, Shares!Greater
<1> QED BY <1>1, <1>2, <1>5, QuotaAssumption
      DEF SharesInv, Shares!SharesTypeOK, Shares!BatchWithinShare

(* Forgetting requests, or making fewer than planned, frees quota.           *)
LEMMA FreeingKeepsInv ==
  ASSUME SharesInv, Shares!BatchShrinks \/ Shares!Ages
  PROVE  SharesInv'
<1>1. /\ Shares!SharesTypeOK /\ Shares!BatchWithinShare /\ Shares!SharesHeld
      /\ SpentBy["sweep"] \in Nat /\ SpentBy["enrichment"] \in Nat
      /\ SpentBy["archive"] \in Nat /\ SpentBy["other"] \in Nat
  BY CountersAreNumbers DEF SharesInv, Shares!SharesTypeOK
<1>2. CASE Shares!BatchShrinks
  BY <1>1, <1>2, QuotaAssumption
  DEF Shares!BatchShrinks, SharesInv, Shares!SharesTypeOK, Shares!BatchWithinShare, Shares!SharesHeld,
    Shares!Greater
<1>3. CASE Shares!Ages
  <2>1. /\ SpentBy' \in [Shares!Consumers -> Nat]
        /\ SpentBy'["sweep"] \in Nat /\ SpentBy'["enrichment"] \in Nat
        /\ SpentBy'["archive"] \in Nat /\ SpentBy'["other"] \in Nat
        /\ SpentBy'["sweep"] <= SpentBy["sweep"] /\ SpentBy'["enrichment"] <= SpentBy["enrichment"]
        /\ SpentBy'["archive"] <= SpentBy["archive"] /\ SpentBy'["other"] <= SpentBy["other"]
        /\ left' = left /\ inFlight' = inFlight /\ unforeseen' = unforeseen
    BY <1>3 DEF Shares!Ages, Shares!Consumers
  <2> QED BY <1>1, <2>1, QuotaAssumption
        DEF SharesInv, Shares!SharesTypeOK, Shares!BatchWithinShare, Shares!SharesHeld, Shares!Greater
<1> QED BY <1>2, <1>3

(* Whatever is spent between a check and the requests it allows, the sweep's *)
(* reserve and enrichment's share stay available: the allowances of          *)
(* quota-budget.service.ts hold them back early enough.                      *)
THEOREM SharesAreHeld == Shares!SharesSpec => []Shares!SharesHeld
<1>1. Shares!SharesInit => SharesInv
  BY SharesInitInv
<1>2. SharesInv /\ [Shares!SharesNext]_Shares!sharesVars => SharesInv'
  <2> SUFFICES ASSUME SharesInv, [Shares!SharesNext]_Shares!sharesVars PROVE SharesInv'
    OBVIOUS
  <2>1. CASE Shares!Unthrottled
    BY <2>1, UnthrottledKeepsInv
  <2>2. CASE Shares!SweepRequests \/ Shares!EnrichmentRequests \/ Shares!ArchiveRequests
    BY <2>2, AllowedChargeKeepsInv
  <2>3. CASE Shares!PlanBatch
    BY <2>3, PlanKeepsInv
  <2>4. CASE Shares!ArchiveChecks
    BY <2>4, CheckKeepsInv
  <2>5. CASE Shares!BatchShrinks \/ Shares!Ages
    BY <2>5, FreeingKeepsInv
  <2>6. CASE UNCHANGED Shares!sharesVars
    BY <2>6 DEF Shares!sharesVars, SharesInv, Shares!SharesTypeOK, Shares!BatchWithinShare,
      Shares!SharesHeld
  <2> QED BY <2>1, <2>2, <2>3, <2>4, <2>5, <2>6 DEF Shares!SharesNext
<1>3. SharesInv => Shares!SharesHeld
  BY DEF SharesInv
<1> QED BY <1>1, <1>2, <1>3, PTL DEF Shares!SharesSpec

-----------------------------------------------------------------------------
(* The jobs over the window are the shares' jobs over its sums.              *)

(* The policy is the same in both.                                           *)
LEMMA SamePolicy ==
  /\ Shares!Consumers = Consumers
  /\ Shares!EnrichmentAllowance(SpentBy) = EnrichmentAllowance(SpentBy)
  /\ Shares!ArchiveAllowance(SpentBy) = ArchiveAllowance(SpentBy)
<1>1. Shares!Consumers = Consumers
  BY DEF Shares!Consumers, Consumers
<1>2. Shares!Room(SpentBy) = Room(SpentBy)
  BY DEF Shares!Room, Room, Shares!AtLeastZero, AtLeastZero
<1>3. Shares!EnrichmentAllowance(SpentBy) = EnrichmentAllowance(SpentBy)
  BY <1>2 DEF Shares!EnrichmentAllowance, EnrichmentAllowance, Shares!AtLeastZero, AtLeastZero,
              Shares!Lesser, Lesser
<1>4. Shares!ArchiveAllowance(SpentBy) = ArchiveAllowance(SpentBy)
  BY <1>2 DEF Shares!ArchiveAllowance, ArchiveAllowance, Shares!AtLeastZero, AtLeastZero
<1> QED BY <1>1, <1>3, <1>4

(* The sums are of the jobs' steps only with what they rest on: the types,   *)
(* and a ring whose buckets are in their own slots.                          *)
BudgetInv == TypeOK /\ RingSound

LEMMA SoundIsOwn == WindowInv => OwnSlots
BY DEF WindowInv, RingSound, OwnSlots

LEMMA BudgetNumbers ==
  ASSUME BudgetInv
  PROVE  /\ WindowInv /\ WindowTypeOK /\ OwnSlots
         /\ left \in Nat /\ unforeseen \in Nat /\ inFlight \in Nat
         /\ inFlight <= ArchiveConcurrency
         /\ SpentBy \in [Consumers -> Nat]
<1>1. WindowInv /\ WindowTypeOK /\ OwnSlots
  BY SoundIsOwn DEF BudgetInv, TypeOK, WindowInv
<1>2. left \in Nat /\ unforeseen \in Nat /\ inFlight \in Nat /\ inFlight <= ArchiveConcurrency
  BY QuotaAssumption DEF BudgetInv, TypeOK
<1>3. SpentBy \in [Consumers -> Nat]
  BY <1>1, SpentIsNat, BudgetAssumption DEF SpentBy
<1> QED BY <1>1, <1>2, <1>3

LEMMA BudgetInitInv == Init => BudgetInv
<1> SUFFICES ASSUME Init PROVE BudgetInv
  OBVIOUS
<1>1. WindowInv
  BY WindowInitInv DEF Init
<1>2. /\ inFlight \in 0 .. ArchiveConcurrency /\ left \in Nat /\ unforeseen \in Nat
      /\ ~(left > 0)
  BY QuotaAssumption DEF Init
<1>3. sweeping \in BOOLEAN /\ enriching \in BOOLEAN
  BY DEF Init
<1> QED BY <1>1, <1>2, <1>3, Zenon DEF BudgetInv, TypeOK, WindowInv

(* A window nobody touches counts what it counted.                           *)
LEMMA SpentUntouched ==
  ASSUME UNCHANGED windowVars
  PROVE  SpentBy' = SpentBy
BY DEF windowVars, SpentBy, Spent, InWindow, Slot, Slots, Consumers

(* An attempt is a charge of the shares.                                     *)
LEMMA AttemptCharges ==
  ASSUME BudgetInv, NEW k \in Consumers, Attempt(k)
  PROVE  WindowInv' /\ Shares!Charges(k)
<1>1. Record(k) /\ k \in Keys
  BY BudgetAssumption DEF Attempt
<1>2. WindowInv'
  BY <1>1, BudgetNumbers, RecordKeepsInv
<1>3. \A i \in Consumers : Spent(i)' = Spent(i) + (IF i = k THEN 1 ELSE 0)
  BY <1>1, BudgetNumbers, RecordSpends, BudgetAssumption
<1>4. \A i \in Consumers : SpentBy[i] = Spent(i) /\ SpentBy[i] \in Nat
  BY BudgetNumbers DEF SpentBy
<1>5. SpentBy' = [i \in Consumers |-> Spent(i)']
  BY DEF SpentBy, Consumers
<1> DEFINE more == [SpentBy EXCEPT ![k] = SpentBy[k] + 1]
<1>6. SpentBy' = more
  <2>1. DOMAIN more = Consumers /\ more = [i \in Consumers |-> more[i]]
    BY BudgetNumbers
  <2>2. \A i \in Consumers : more[i] = Spent(i)'
    BY <1>3, <1>4, BudgetNumbers
  <2> HIDE DEF more
  <2> QED BY <1>5, <2>1, <2>2
<1> QED BY <1>2, <1>6 DEF Shares!Charges

LEMMA SpentStaysNat == (WindowTypeOK => \A i \in Keys : Spent(i) \in Nat)'
<1>1. WindowTypeOK => \A i \in Keys : Spent(i) \in Nat
  BY SpentIsNat
<1> QED BY <1>1, PTL

(* The window rolls, and the sums fall or stay.                              *)
LEMMA RollsForgets ==
  ASSUME BudgetInv, TimePasses
  PROVE  /\ WindowInv' /\ SpentBy' \in [Consumers -> Nat]
         /\ \A i \in Consumers : SpentBy'[i] <= SpentBy[i]
<1>1. WindowInv' /\ WindowTypeOK'
  BY BudgetNumbers, TimeKeepsInv DEF WindowInv
<1>2. \A i \in Consumers : Spent(i)' <= Spent(i)
  BY BudgetNumbers, TimeForgets, BudgetAssumption
<1>4. SpentBy' = [i \in Consumers |-> Spent(i)'] /\ SpentBy = [i \in Consumers |-> Spent(i)]
  BY DEF SpentBy, Consumers
<1>5. \A i \in Consumers : Spent(i)' \in Nat
  BY <1>1, SpentStaysNat, BudgetAssumption
<1> QED BY <1>1, <1>2, <1>4, <1>5

(* Whole division, of natural numbers.                                       *)
LEMMA DivLaw ==
  ASSUME NEW a \in Nat, NEW n \in Nat \ {0}
  PROVE  a \div n \in Nat /\ n * (a \div n) <= a
<1>1. a \div n \in Int /\ a % n \in 0 .. n - 1 /\ a = (n * (a \div n)) + (a % n)
  BY Z3
<1>2. a \div n >= 0
  BY Z3
<1> QED BY <1>1, <1>2, Z3

LEMMA TimesLess ==
  ASSUME NEW a \in Nat, NEW b \in Nat, NEW c \in Nat, a <= b
  PROVE  c * a <= c * b
<1>1. c * (b - a) \in Nat
  BY Z3
<1>2. c * (b - a) = c * b - c * a
  BY Z3
<1> QED BY <1>1, <1>2, Z3

(* A batch sized at the average cost stays within what it was sized to.      *)
LEMMA BatchFits ==
  ASSUME NEW due \in Nat \ {0}, NEW dear \in Nat, NEW budget \in Nat, NEW n \in Nat,
         n <= (budget * due) \div (due + dear)
  PROVE  (n * dear) \div due \in Nat /\ n + ((n * dear) \div due) <= budget
<1> DEFINE m == (budget * due) \div (due + dear)
           q == (n * dear) \div due
           all == due + dear
<1>1. all \in Nat \ {0} /\ budget * due \in Nat /\ n * dear \in Nat
  BY Z3
<1>2. m \in Nat /\ all * m <= budget * due
  BY <1>1, DivLaw
<1>3. q \in Nat /\ due * q <= n * dear
  BY <1>1, DivLaw
<1>4. all * n <= all * m
  <2> HIDE DEF m, all
  <2>1. n <= m
    BY DEF m, all
  <2> QED BY <1>1, <1>2, <2>1, TimesLess
<1>5. all * n = due * n + n * dear
  BY Z3
<1>6. due * (n + q) = due * n + due * q
  <2> HIDE DEF q
  <2> QED BY <1>3, Z3
<1>7. /\ all * n \in Nat /\ all * m \in Nat /\ due * n \in Nat /\ due * q \in Nat
      /\ due * (n + q) \in Nat /\ n + q \in Nat
  <2> HIDE DEF m, q, all
  <2> QED BY <1>1, <1>2, <1>3, Z3
<1> HIDE DEF m, q, all
<1>8. due * (n + q) <= budget * due
  BY <1>1, <1>2, <1>3, <1>4, <1>5, <1>6, <1>7
<1>9. n + q <= budget
  <2> SUFFICES ASSUME budget + 1 <= n + q PROVE FALSE
    BY <1>7
  <2>1. due * (budget + 1) <= due * (n + q)
    BY <1>7, TimesLess
  <2>2. due * (budget + 1) = budget * due + due
    BY Z3
  <2> QED BY <2>1, <2>2, <1>1, <1>7, <1>8
<1> QED BY <1>3, <1>9 DEF q

(* What is planned of a pass is within the allowance, but for what its       *)
(* characters cost beyond the average.                                       *)
LEMMA PlanIsAllowed ==
  ASSUME BudgetInv, PlanBatch
  PROVE  Shares!PlanBatch
<1>1. /\ left \in Nat /\ unforeseen \in Nat /\ SpentBy \in [Consumers -> Nat]
      /\ left > 0 => enriching
  BY BudgetNumbers DEF BudgetInv, TypeOK
<1>2. /\ ~enriching /\ enriching' = TRUE
      /\ UNCHANGED <<windowVars, sweeping, inFlight>>
  BY DEF PlanBatch
<1>0. PICK due \in 1 .. MaxDue :
        \E dear \in 0 .. due :
          \E both \in AtLeastZero(BatchOf(due, dear) - (due - dear)) .. Lesser(BatchOf(due, dear), dear) :
            /\ BatchOf(due, dear) > 0
            /\ left' = BatchOf(due, dear) + both
            /\ Unforeseen(AtLeastZero(both - (BatchOf(due, dear) * dear) \div due))
  BY DEF PlanBatch
<1>3. PICK dear \in 0 .. due :
        \E both \in AtLeastZero(BatchOf(due, dear) - (due - dear)) .. Lesser(BatchOf(due, dear), dear) :
          /\ BatchOf(due, dear) > 0
          /\ left' = BatchOf(due, dear) + both
          /\ Unforeseen(AtLeastZero(both - (BatchOf(due, dear) * dear) \div due))
  BY <1>0
<1> DEFINE n == BatchOf(due, dear)
           allowance == EnrichmentAllowance(SpentBy)
           budget == Lesser(allowance, RunPace)
           most == (budget * due) \div (due + dear)
           average == (n * dear) \div due
<1>4. PICK both \in AtLeastZero(n - (due - dear)) .. Lesser(n, dear) :
        /\ n > 0 /\ left' = n + both
        /\ Unforeseen(AtLeastZero(both - average))
  BY <1>3
<1>5. due \in Nat \ {0} /\ dear \in Nat /\ due + dear \in Nat \ {0} /\ RunPace \in Nat /\ BatchSize \in Nat
  BY BudgetAssumption
<1>6. allowance \in Nat
  BY <1>1, QuotaAssumption DEF EnrichmentAllowance, AtLeastZero, Lesser, Room, Consumers
<1>7. budget \in Nat /\ budget <= allowance
  BY <1>5, <1>6 DEF Lesser
<1>8. most \in Nat
  <2> HIDE DEF budget
  <2>1. budget * due \in Nat
    BY <1>5, <1>7, Z3
  <2> QED BY <1>5, <2>1, DivLaw
<1>9. n = Lesser(Lesser(due, most), BatchSize)
  BY DEF BatchOf
<1> HIDE DEF n, most, average, budget, allowance
<1>10. n \in Nat /\ n <= most
  BY <1>5, <1>8, <1>9 DEF Lesser
<1>11. average \in Nat /\ n + average <= budget
  BY <1>5, <1>7, <1>10, BatchFits DEF most, average
<1>12. both \in Nat
  BY <1>4, <1>5, <1>10 DEF AtLeastZero, Lesser
<1>13. unforeseen' = unforeseen + AtLeastZero(both - average)
  BY <1>4 DEF Unforeseen
<1>14. /\ left = 0 /\ left' \in Nat \ {0}
       /\ unforeseen' \in Nat /\ unforeseen' >= unforeseen
       /\ left' <= allowance + (unforeseen' - unforeseen)
  BY <1>1, <1>2, <1>4, <1>6, <1>7, <1>10, <1>11, <1>12, <1>13 DEF AtLeastZero
<1>15. SpentBy' = SpentBy /\ inFlight' = inFlight
  BY <1>2, SpentUntouched
<1> QED BY <1>14, <1>15, SamePolicy DEF Shares!PlanBatch, allowance

(* Every step of the jobs is one of the shares, or none; and the window      *)
(* stays exact.                                                              *)
LEMMA BudgetStep ==
  ASSUME BudgetInv, [Next]_budgetVars
  PROVE  BudgetInv' /\ [Shares!SharesNext]_Shares!sharesVars
<1>1. /\ WindowInv /\ WindowTypeOK /\ OwnSlots
      /\ left \in Nat /\ unforeseen \in Nat /\ inFlight \in Nat
      /\ inFlight <= ArchiveConcurrency
      /\ SpentBy \in [Consumers -> Nat]
      /\ sweeping \in BOOLEAN /\ enriching \in BOOLEAN /\ (left > 0 => enriching)
  BY BudgetNumbers DEF BudgetInv, TypeOK
<1>2. ASSUME UNCHANGED windowVars
      PROVE  WindowInv' /\ SpentBy' = SpentBy
  <2>1. WindowInv'
    BY <1>1, <1>2 DEF windowVars, WindowInv, WindowTypeOK, RingSound, Remembered,
                      SlotOf, Slots, Slot, NoCounts, Never
  <2> QED BY <1>2, <2>1, SpentUntouched
<1>3. ASSUME WindowInv', sweeping' \in BOOLEAN, enriching' \in BOOLEAN,
             left' \in Nat, unforeseen' \in Nat, inFlight' \in Nat,
             inFlight' <= ArchiveConcurrency, left' > 0 => enriching'
      PROVE  BudgetInv'
  <2>1. inFlight' \in 0 .. ArchiveConcurrency
    BY <1>3, QuotaAssumption
  <2> QED BY <1>3, <2>1, Zenon DEF BudgetInv, TypeOK, WindowInv
<1>4. CASE SweepBegins \/ SweepEnds \/ PassEnds
  <2>1. /\ UNCHANGED windowVars /\ UNCHANGED <<left, inFlight, unforeseen>>
        /\ sweeping' \in BOOLEAN /\ enriching' \in BOOLEAN /\ (left' > 0 => enriching')
    <3>1. CASE SweepBegins
      BY <1>1, <3>1 DEF SweepBegins
    <3>2. CASE SweepEnds
      <4>1. sweeping' = FALSE /\ UNCHANGED <<windowVars, enriching, left, inFlight, unforeseen>>
        BY <3>2 DEF SweepEnds
      <4> QED BY <1>1, <4>1
    <3>3. CASE PassEnds
      <4>1. left' = 0 /\ enriching' = FALSE /\ UNCHANGED <<windowVars, sweeping, left, inFlight, unforeseen>>
        BY <3>3 DEF PassEnds
      <4>2. ~(left' > 0)
        BY <4>1
      <4> QED BY <1>1, <4>1, <4>2
    <3> QED BY <1>4, <3>1, <3>2, <3>3
  <2> QED BY <1>1, <1>2, <1>3, <2>1 DEF Shares!sharesVars
<1>5. CASE SweepRequests
  <2>1. /\ Attempt("sweep") /\ UNCHANGED <<sweeping, enriching, left, inFlight>>
        /\ unforeseen' = unforeseen + (IF Spent("sweep") < SweepReserve THEN 0 ELSE 1)
        /\ "sweep" \in Consumers
    BY <1>5 DEF SweepRequests, Unforeseen, jobVars, Consumers
  <2>2. WindowInv' /\ Shares!Charges("sweep")
    BY <2>1, AttemptCharges
  <2>3. BudgetInv'
    BY <1>1, <1>3, <2>1, <2>2
  <2>4. SpentBy["sweep"] = Spent("sweep")
    BY <2>1 DEF SpentBy
  <2>5. CASE Spent("sweep") < SweepReserve
    <3>1. unforeseen' = unforeseen
      BY <1>1, <2>1, <2>5
    <3>2. Shares!SweepRequests
      BY <2>1, <2>2, <2>4, <2>5, <3>1 DEF Shares!SweepRequests
    <3> QED BY <2>3, <3>2 DEF Shares!SharesNext
  <2>6. CASE ~(Spent("sweep") < SweepReserve)
    <3>1. unforeseen' = unforeseen + 1
      BY <2>1, <2>6
    <3>2. Shares!Unthrottled
      BY <2>1, <2>2, <3>1, SamePolicy DEF Shares!Unthrottled
    <3> QED BY <2>3, <3>2 DEF Shares!SharesNext
  <2> QED BY <2>5, <2>6
<1>6. CASE PlanBatch
  <2>1. Shares!PlanBatch
    BY <1>6, PlanIsAllowed
  <2>2. /\ left' \in Nat /\ unforeseen' \in Nat /\ enriching' = TRUE
        /\ UNCHANGED windowVars /\ UNCHANGED <<sweeping, inFlight>>
    BY <1>6, <2>1 DEF PlanBatch, Shares!PlanBatch
  <2>3. BudgetInv'
    BY <1>1, <1>2, <1>3, <2>2
  <2> QED BY <2>1, <2>3 DEF Shares!SharesNext
<1>7. CASE EnrichmentRequests
  <2>1. /\ Attempt("enrichment") /\ left > 0 /\ left' = left - 1
        /\ UNCHANGED <<sweeping, enriching, inFlight, unforeseen>>
        /\ "enrichment" \in Consumers
    BY <1>7 DEF EnrichmentRequests, Consumers
  <2>2. WindowInv' /\ Shares!Charges("enrichment")
    BY <2>1, AttemptCharges
  <2>3. BudgetInv'
    BY <1>1, <1>3, <2>1, <2>2
  <2>4. Shares!EnrichmentRequests
    BY <2>1, <2>2 DEF Shares!EnrichmentRequests
  <2> QED BY <2>3, <2>4 DEF Shares!SharesNext
<1>8. CASE CharacterDropped
  <2>1. /\ left > 0 /\ left' = left - 1 /\ left' \in Nat /\ left' < left
        /\ UNCHANGED windowVars /\ UNCHANGED <<sweeping, enriching, inFlight, unforeseen>>
    BY <1>1, <1>8 DEF CharacterDropped
  <2>2. BudgetInv'
    BY <1>1, <1>2, <1>3, <2>1
  <2>3. Shares!BatchShrinks
    BY <1>2, <2>1 DEF Shares!BatchShrinks
  <2> QED BY <2>2, <2>3 DEF Shares!SharesNext
<1>9. CASE ArchiveChecks
  <2>1. /\ ArchiveAllowance(SpentBy) > 0 /\ inFlight < ArchiveConcurrency
        /\ inFlight' = inFlight + 1
        /\ UNCHANGED windowVars /\ UNCHANGED <<sweeping, enriching, left, unforeseen>>
    BY <1>9 DEF ArchiveChecks
  <2>2. BudgetInv'
    BY <1>1, <1>2, <1>3, <2>1, QuotaAssumption
  <2>3. Shares!ArchiveChecks
    BY <1>2, <2>1, SamePolicy DEF Shares!ArchiveChecks
  <2> QED BY <2>2, <2>3 DEF Shares!SharesNext
<1>10. CASE ArchiveRequests
  <2>1. /\ Attempt("archive") /\ inFlight > 0 /\ inFlight' = inFlight - 1
        /\ UNCHANGED <<sweeping, enriching, left, unforeseen>>
        /\ "archive" \in Consumers
    BY <1>10 DEF ArchiveRequests, Consumers
  <2>2. WindowInv' /\ Shares!Charges("archive")
    BY <2>1, AttemptCharges
  <2>3. BudgetInv'
    BY <1>1, <1>3, <2>1, <2>2, QuotaAssumption
  <2>4. Shares!ArchiveRequests
    BY <2>1, <2>2 DEF Shares!ArchiveRequests
  <2> QED BY <2>3, <2>4 DEF Shares!SharesNext
<1>11. CASE Unthrottled
  <2>1. PICK k \in Consumers : Attempt(k)
    BY <1>11 DEF Unthrottled, Consumers
  <2>2. unforeseen' = unforeseen + 1 /\ UNCHANGED <<sweeping, enriching, left, inFlight>>
    BY <1>11 DEF Unthrottled, Unforeseen, jobVars
  <2>3. WindowInv' /\ Shares!Charges(k)
    BY <2>1, AttemptCharges
  <2>4. BudgetInv'
    BY <1>1, <1>3, <2>2, <2>3
  <2>5. Shares!Unthrottled
    BY <2>2, <2>3, SamePolicy DEF Shares!Unthrottled
  <2> QED BY <2>4, <2>5 DEF Shares!SharesNext
<1>12. CASE Rolls
  <2>1. TimePasses /\ UNCHANGED <<sweeping, enriching, left, inFlight, unforeseen>>
    BY <1>12 DEF Rolls, jobVars
  <2>2. /\ WindowInv' /\ SpentBy' \in [Consumers -> Nat]
        /\ \A i \in Consumers : SpentBy'[i] <= SpentBy[i]
    BY <2>1, RollsForgets
  <2>3. BudgetInv'
    BY <1>1, <1>3, <2>1, <2>2
  <2>4. Shares!Ages
    BY <2>1, <2>2, SamePolicy DEF Shares!Ages
  <2> QED BY <2>3, <2>4 DEF Shares!SharesNext
<1>13. CASE UNCHANGED budgetVars
  <2>1. UNCHANGED windowVars /\ UNCHANGED <<sweeping, enriching, left, inFlight, unforeseen>>
    BY <1>13, Zenon DEF budgetVars, windowVars
  <2> QED BY <1>1, <1>2, <1>3, <2>1 DEF Shares!sharesVars
<1> QED BY <1>4, <1>5, <1>6, <1>7, <1>8, <1>9, <1>10, <1>11, <1>12, <1>13, Zenon DEF Next

(* The quota of quota-budget.service.ts, counted in its ring and spent by    *)
(* jobs one request at a time, is the plain promise of QuotaShares: every    *)
(* step of a job is a step of the shares over what the window counts.        *)
THEOREM JobsKeepShares == Spec => KeepsShares
<1>1. Init => Shares!SharesInit
  <2> SUFFICES ASSUME Init PROVE Shares!SharesInit
    OBVIOUS
  <2>1. \A k \in Consumers : Spent(k) = 0
    <3>1. Counted = {}
      BY WindowAssumption DEF Init, WindowInit, Counted, InWindow, Never
    <3>2. ASSUME NEW k \in Consumers PROVE Spent(k) = 0
      <4> DEFINE f == [s \in Counted |-> ring[s].counts[k]]
      <4>1. Spent(k) = SumFunction(f)
        BY DEF Spent, Counted
      <4>2. f \in [Counted -> Int]
        BY <3>1
      <4> HIDE DEF f
      <4>3. SumFunction(f) = SumOn(f, Counted) /\ SumOn(f, Counted) = 0
        BY <3>1, <4>2, CountedIsFinite, SumOfAll, SumOnLaws
      <4> QED BY <4>1, <4>3
    <3> QED BY <3>2
  <2> QED BY <2>1 DEF Init, Shares!SharesInit, SpentBy, Shares!Consumers, Consumers
<1> QED BY <1>1, BudgetInitInv, BudgetStep, PTL
      DEF Spec, KeepsShares, Shares!SharesSpec

(* And the window the jobs share counts what they were charged, once,       *)
(* however their requests and the turns of the ring interleave.              *)
THEOREM BudgetCountsExactly == Spec => []WindowIsExact
<1>1. BudgetInv => WindowIsExact
  BY BudgetNumbers, SoundIsExact
<1> QED BY <1>1, BudgetInitInv, BudgetStep, PTL DEF Spec

(* So the sweep keeps its reserve and enrichment its share of whatever the   *)
(* ring counts, whatever the jobs spend between a check and the requests it  *)
(* allowed (quota-budget.service.ts, allowance).                             *)
THEOREM BudgetHoldsShares == Spec => []SharesHeld
<1>1. BudgetInv /\ Shares!SharesHeld => SharesHeld
  BY DEF BudgetInv, SharesHeld
<1>2. Spec => []Shares!SharesHeld
  BY JobsKeepShares, SharesAreHeld DEF KeepsShares
<1> QED BY <1>1, <1>2, BudgetInitInv, BudgetStep, PTL DEF Spec

-----------------------------------------------------------------------------
(* The Raider.io minute, for every window, every share of it and every order *)
(* of charges, saves, failures and restarts.                                 *)

(* No more than was charged in bucket b.                                     *)
WasCharged(counts, b) == \A k \in Keys : counts[k] <= charged[b][k]

(* What the ring holds was charged, and lies in the slot of its bucket.      *)
HeldWasCharged ==
  \A s \in Slot : ring[s].index # Never =>
    /\ ring[s].index \in 0 .. clock
    /\ SlotOf(ring[s].index) = s
    /\ WasCharged(ring[s].counts, ring[s].index)

(* So was what is saved or about to be.                                      *)
SavedWasCharged ==
  \A b \in 0 .. MaxClock :
    /\ WasCharged(saved[b], b)
    /\ writing # NoWrite => WasCharged(writing[b], b)

(* A process that has not restored its minute has written nothing, and what  *)
(* it was charged meanwhile is none of what is saved: the sum that Restore   *)
(* makes counts no request twice.                                            *)
RestoreAddsUp ==
  process # "up" =>
    /\ writing = NoWrite
    /\ \A s \in Slot : ring[s].index # Never =>
         \A k \in Keys :
           ring[s].counts[k] + saved[ring[s].index][k] <= charged[ring[s].index][k]
    /\ ~changed => \A s \in Slot : ring[s].index = Never

(* With nothing charged since, the write under way holds the minute, or the  *)
(* document does if the last write landed.                                   *)
QuietIsSaved ==
  process = "up" /\ ~changed =>
    \A b \in Remembered, k \in Keys :
      IF writing # NoWrite THEN BucketAt(b)[k] <= writing[b][k]
      ELSE ~failed => BucketAt(b)[k] <= saved[b][k]

MinuteInv ==
  /\ MinuteTypeOK
  /\ HeldWasCharged
  /\ SavedWasCharged
  /\ RestoreAddsUp
  /\ QuietIsSaved

(* The types of the minute one by one.                                       *)
MinuteTyped ==
  /\ WindowTypeOK
  /\ process \in {"down", "booting", "up"} /\ live \in BOOLEAN
  /\ allowed \in [Rationed -> 0 .. PageBatch]
  /\ changed \in BOOLEAN /\ failed \in BOOLEAN
  /\ saved \in [0 .. MaxClock -> [Keys -> Nat]]
  /\ writing # NoWrite => writing \in [0 .. MaxClock -> [Keys -> Nat]]
  /\ unasked \in [Keys -> Nat]

LEMMA MinuteTypes == MinuteTypeOK <=> MinuteTyped
<1> DEFINE F == [0 .. MaxClock -> [Keys -> Nat]]
<1>1. {changed, failed} \subseteq BOOLEAN <=> changed \in BOOLEAN /\ failed \in BOOLEAN
  OBVIOUS
<1>2. {saved} \cup ({writing} \ {NoWrite}) \subseteq F
        <=> saved \in F /\ (writing # NoWrite => writing \in F)
  <2> HIDE DEF F
  <2> QED OBVIOUS
<1> QED BY <1>1, <1>2, Zenon DEF MinuteTypeOK, MinuteTyped

(* A bucket of the clock has a slot and a count for every key, none above    *)
(* what was charged in it.                                                   *)
LEMMA BucketsWereCharged ==
  ASSUME WindowTypeOK, HeldWasCharged
  PROVE  \A b \in 0 .. MaxClock : /\ SlotOf(b) \in Slot /\ b # Never
                                 /\ BucketAt(b) \in [Keys -> Nat]
                                 /\ WasCharged(BucketAt(b), b)
<1> SUFFICES ASSUME NEW b \in 0 .. MaxClock
             PROVE  /\ SlotOf(b) \in Slot /\ b # Never
                    /\ BucketAt(b) \in [Keys -> Nat]
                    /\ WasCharged(BucketAt(b), b)
  OBVIOUS
<1>1. b \in Nat /\ SlotOf(b) \in Slot /\ b # Never
  BY SlotOfIsSlot, WindowAssumption DEF Never
<1>2. charged[b] \in [Keys -> Nat]
  BY DEF WindowTypeOK
<1>3. CASE ring[SlotOf(b)].index = b
  BY <1>1, <1>3 DEF BucketAt, WindowTypeOK, HeldWasCharged
<1>4. CASE ring[SlotOf(b)].index # b
  BY <1>1, <1>2, <1>4 DEF BucketAt, NoCounts, WasCharged
<1> QED BY <1>1, <1>3, <1>4

LEMMA ClockIsNat == clock \in 0 .. MaxClock => clock \in Nat /\ clock <= MaxClock
BY WindowAssumption

LEMMA MinuteInitInv == MinuteInit => MinuteInv
<1> SUFFICES ASSUME MinuteInit PROVE MinuteInv
  OBVIOUS
<1>1. WindowTypeOK
  BY WindowAssumption DEF MinuteInit, WindowInit, WindowTypeOK, NoCounts, Never
<1>2. \A s \in Slot : ring[s].index = Never
  BY DEF MinuteInit, WindowInit
<1>3. /\ saved \in [0 .. MaxClock -> [Keys -> Nat]] /\ saved = charged
      /\ charged \in [0 .. MaxClock -> [Keys -> Nat]]
      /\ writing = NoWrite
  BY DEF MinuteInit, WindowInit, NoBuckets, NoCounts
<1>4. MinuteTypeOK
  <2>1. allowed \in [Rationed -> 0 .. PageBatch] /\ unasked \in [Keys -> Nat]
    BY MinuteAssumption DEF MinuteInit, NobodyAllowed
  <2>2. /\ process \in {"down", "booting", "up"} /\ live \in BOOLEAN
        /\ changed \in BOOLEAN /\ failed \in BOOLEAN
    BY DEF MinuteInit
  <2> QED BY <1>1, <1>3, <2>1, <2>2, MinuteTypes, Zenon DEF MinuteTyped
<1>5. HeldWasCharged /\ RestoreAddsUp
  BY <1>2, <1>3 DEF HeldWasCharged, RestoreAddsUp
<1>6. SavedWasCharged
  BY <1>3 DEF SavedWasCharged, WasCharged
<1>7. QuietIsSaved
  BY DEF MinuteInit, QuietIsSaved
<1> QED BY <1>4, <1>5, <1>6, <1>7 DEF MinuteInv

(* A charge, by whichever job and before or after the minute is restored.    *)
LEMMA ChargeKeepsMinute ==
  ASSUME MinuteInv, NEW k \in Keys, Charge(k)
  PROVE  /\ WindowTypeOK'
         /\ HeldWasCharged' /\ SavedWasCharged' /\ RestoreAddsUp' /\ QuietIsSaved'
<1>1. /\ WindowTypeOK /\ HeldWasCharged /\ SavedWasCharged /\ RestoreAddsUp
      /\ saved \in [0 .. MaxClock -> [Keys -> Nat]]
      /\ writing # NoWrite => writing \in [0 .. MaxClock -> [Keys -> Nat]]
      /\ clock \in 0 .. MaxClock /\ clock \in Nat
      /\ charged \in [0 .. MaxClock -> [Keys -> Nat]]
      /\ ring \in [Slot -> [index : Int, counts : [Keys -> Nat]]]
  BY MinuteTypes, ClockIsNat, Zenon DEF MinuteInv, MinuteTyped, WindowTypeOK
<1>2. /\ SlotOf(clock) \in Slot /\ clock # Never
      /\ BucketAt(clock) \in [Keys -> Nat] /\ WasCharged(BucketAt(clock), clock)
  BY <1>1, BucketsWereCharged
<1>3. Record(k) /\ changed' = TRUE /\ UNCHANGED <<process, writing, saved, failed>>
  BY DEF Charge
<1>4. /\ WindowTypeOK' /\ clock' = clock
      /\ ring'[SlotOf(clock)].index = clock
      /\ \A i \in Keys : ring'[SlotOf(clock)].counts[i]
                           = BucketAt(clock)[i] + (IF i = k THEN 1 ELSE 0)
      /\ \A s \in Slot : s # SlotOf(clock) => ring'[s] = ring[s]
      /\ \A b \in 0 .. MaxClock, i \in Keys :
           charged'[b][i] = charged[b][i] + (IF b = clock /\ i = k THEN 1 ELSE 0)
  BY <1>1, <1>2, <1>3, RecordPointwise
<1>5. \A b \in 0 .. MaxClock, i \in Keys :
        charged[b][i] \in Nat /\ charged'[b][i] \in Nat /\ charged[b][i] <= charged'[b][i]
  <2> TAKE b \in 0 .. MaxClock, i \in Keys
  <2>1. charged[b][i] \in Nat
    BY <1>1
  <2>2. charged'[b][i] = charged[b][i] + (IF b = clock /\ i = k THEN 1 ELSE 0)
    BY <1>4
  <2>3. ASSUME NEW m \in Nat, NEW n, NEW yes \in BOOLEAN, n = m + (IF yes THEN 1 ELSE 0)
        PROVE  n \in Nat /\ m <= n
    BY <2>3
  <2> QED BY <2>1, <2>2, <2>3
<1>6. ASSUME NEW s \in Slot, ring'[s].index # Never
      PROVE  /\ ring'[s].index \in 0 .. clock
             /\ SlotOf(ring'[s].index) = s
             /\ \A i \in Keys : ring'[s].counts[i] <= charged'[ring'[s].index][i]
  <2>1. CASE s = SlotOf(clock)
    <3>1. ring'[s].index = clock /\ clock \in 0 .. clock
      BY <2>1, <1>1, <1>4
    <3>2. ASSUME NEW i \in Keys
          PROVE  ring'[s].counts[i] <= charged'[clock][i]
      <4>1. /\ BucketAt(clock)[i] \in Nat /\ charged[clock][i] \in Nat
            /\ BucketAt(clock)[i] <= charged[clock][i]
        BY <1>1, <1>2, <1>5 DEF WasCharged
      <4>2. ring'[s].counts[i] = BucketAt(clock)[i] + (IF i = k THEN 1 ELSE 0)
        BY <2>1, <1>4
      <4>3. charged'[clock][i] = charged[clock][i] + (IF i = k THEN 1 ELSE 0)
        BY <1>1, <1>4
      <4> QED BY <4>1, <4>2, <4>3
    <3> QED BY <2>1, <3>1, <3>2
  <2>2. CASE s # SlotOf(clock)
    <3>1. /\ ring[s].index \in 0 .. clock /\ SlotOf(ring[s].index) = s
          /\ WasCharged(ring[s].counts, ring[s].index) /\ ring'[s] = ring[s]
      BY <2>2, <1>1, <1>4, <1>6 DEF HeldWasCharged
    <3>2. ring[s].index \in 0 .. MaxClock
      BY <3>1, <1>1, ClockIsNat, WindowAssumption
    <3>3. \A i \in Keys : /\ ring[s].counts[i] \in Nat
                         /\ charged[ring[s].index][i] \in Nat
                         /\ ring[s].counts[i] <= charged[ring[s].index][i]
      BY <3>1, <3>2, <1>1, <1>5 DEF WasCharged
    <3>4. \A i \in Keys : charged[ring[s].index][i] <= charged'[ring[s].index][i]
                         /\ charged'[ring[s].index][i] \in Nat
      BY <3>2, <3>3, <1>4, <1>5
    <3>5. \A i \in Keys : ring[s].counts[i] <= charged'[ring[s].index][i]
      BY <3>3, <3>4
    <3> QED BY <3>1, <3>5
  <2> QED BY <2>1, <2>2
<1>7. HeldWasCharged'
  BY <1>4, <1>6 DEF HeldWasCharged, WasCharged, SlotOf
<1>8. SavedWasCharged'
  <2>1. ASSUME NEW b \in 0 .. MaxClock, NEW i \in Keys
        PROVE  /\ saved'[b][i] <= charged'[b][i]
               /\ writing' # NoWrite => writing'[b][i] <= charged'[b][i]
    <3>1. charged[b][i] \in Nat /\ charged[b][i] <= charged'[b][i] /\ charged'[b][i] \in Nat
      BY <1>5
    <3>2. saved[b][i] \in Nat /\ saved[b][i] <= charged[b][i]
      BY <1>1 DEF SavedWasCharged, WasCharged
    <3>3. ASSUME writing # NoWrite
          PROVE  writing[b][i] \in Nat /\ writing[b][i] <= charged[b][i]
      BY <3>3, <1>1 DEF SavedWasCharged, WasCharged
    <3> QED BY <1>3, <3>1, <3>2, <3>3
  <2> QED BY <2>1, <1>4 DEF SavedWasCharged, WasCharged
<1>9. RestoreAddsUp'
  <2>1. SUFFICES ASSUME process' # "up"
        PROVE  /\ writing' = NoWrite
               /\ \A s \in Slot : ring'[s].index # Never =>
                    \A i \in Keys :
                      ring'[s].counts[i] + saved'[ring'[s].index][i]
                        <= charged'[ring'[s].index][i]
    BY <1>3 DEF RestoreAddsUp
  <2>2. ASSUME NEW s \in Slot, ring'[s].index # Never, NEW i \in Keys
        PROVE  ring'[s].counts[i] + saved[ring'[s].index][i] <= charged'[ring'[s].index][i]
    <3>1. CASE s = SlotOf(clock)
      <4>1. saved[clock][i] \in Nat /\ saved[clock][i] <= charged[clock][i]
        BY <1>1 DEF SavedWasCharged, WasCharged
      <4>2. BucketAt(clock)[i] + saved[clock][i] <= charged[clock][i]
        <5>1. CASE ring[SlotOf(clock)].index = clock
          BY <5>1, <2>1, <1>1, <1>2, <1>3 DEF RestoreAddsUp, BucketAt
        <5>2. CASE ring[SlotOf(clock)].index # clock
          BY <5>2, <4>1, <1>1 DEF BucketAt, NoCounts
        <5> QED BY <5>1, <5>2
      <4>3. /\ ring'[s].index = clock
            /\ ring'[s].counts[i] = BucketAt(clock)[i] + (IF i = k THEN 1 ELSE 0)
        BY <3>1, <1>4
      <4>4. charged'[clock][i] = charged[clock][i] + (IF i = k THEN 1 ELSE 0)
        BY <1>1, <1>4
      <4>5. BucketAt(clock)[i] \in Nat /\ charged[clock][i] \in Nat
        BY <1>1, <1>2
      <4> QED BY <4>1, <4>2, <4>3, <4>4, <4>5
    <3>2. CASE s # SlotOf(clock)
      <4>1. /\ ring'[s] = ring[s] /\ ring[s].index \in 0 .. clock
            /\ ring[s].counts[i] + saved[ring[s].index][i] <= charged[ring[s].index][i]
        BY <3>2, <2>1, <2>2, <1>1, <1>3, <1>4 DEF HeldWasCharged, RestoreAddsUp
      <4>3. ring[s].index \in 0 .. MaxClock
        BY <4>1, <1>1, ClockIsNat, WindowAssumption
      <4>2. /\ ring[s].counts[i] \in Nat /\ saved[ring[s].index][i] \in Nat
            /\ charged[ring[s].index][i] \in Nat
        BY <4>1, <4>3, <1>1
      <4>4. /\ charged[ring[s].index][i] <= charged'[ring[s].index][i]
            /\ charged'[ring[s].index][i] \in Nat
        BY <4>3, <4>2, <1>4, <1>5
      <4> QED BY <4>1, <4>2, <4>4
    <3> QED BY <3>1, <3>2
  <2> QED BY <2>1, <2>2, <1>1, <1>3 DEF RestoreAddsUp
<1>10. QuietIsSaved'
  BY <1>3 DEF QuietIsSaved
<1> QED BY <1>4, <1>7, <1>8, <1>9, <1>10

(* All but the types, which each step treats in its own way.                 *)
MinuteSound == HeldWasCharged /\ SavedWasCharged /\ RestoreAddsUp /\ QuietIsSaved

(* Nothing of the window, the store or the process changes.                  *)
LEMMA MinuteUntouched ==
  ASSUME MinuteSound, UNCHANGED <<windowVars, process, store>>
  PROVE  MinuteSound'
<1>1. UNCHANGED <<clock, ring, charged, process, changed, writing, saved, failed>>
  BY Zenon DEF windowVars, store
<1>2. HeldWasCharged' /\ SavedWasCharged'
  BY <1>1 DEF MinuteSound, HeldWasCharged, SavedWasCharged, WasCharged, SlotOf
<1>3. RestoreAddsUp'
  BY <1>1 DEF MinuteSound, RestoreAddsUp
<1>4. QuietIsSaved'
  BY <1>1 DEF MinuteSound, QuietIsSaved, Remembered, BucketAt, SlotOf
<1> QED BY <1>2, <1>3, <1>4 DEF MinuteSound

(* A bucket that time reaches holds nothing yet: the slot it will take still *)
(* has one of a turn of the ring ago.                                        *)
LEMMA SecondKeepsMinute ==
  ASSUME MinuteInv, TimePasses, UNCHANGED <<process, store>>
  PROVE  WindowTypeOK' /\ MinuteSound'
<1>1. /\ WindowTypeOK /\ HeldWasCharged /\ SavedWasCharged /\ RestoreAddsUp /\ QuietIsSaved
      /\ saved \in [0 .. MaxClock -> [Keys -> Nat]]
      /\ writing # NoWrite => writing \in [0 .. MaxClock -> [Keys -> Nat]]
      /\ clock \in Nat /\ clock <= MaxClock
  BY MinuteTypes, ClockIsNat, Zenon DEF MinuteInv, MinuteTyped, WindowTypeOK
<1>2. clock < MaxClock /\ clock' = clock + 1 /\ UNCHANGED <<ring, charged>>
  BY DEF TimePasses
<1>3. UNCHANGED <<process, changed, writing, saved, failed>>
  BY Zenon DEF store
<1>4. WindowTypeOK'
  BY <1>1, <1>2, WindowAssumption DEF WindowTypeOK
<1>5. HeldWasCharged'
  <2>1. \A i \in 0 .. clock : i \in 0 .. clock'
    BY <1>1, <1>2
  <2> QED BY <1>1, <1>2, <2>1 DEF HeldWasCharged, WasCharged, SlotOf
<1>6. SavedWasCharged'
  BY <1>1, <1>2, <1>3 DEF SavedWasCharged, WasCharged
<1>7. RestoreAddsUp'
  BY <1>1, <1>2, <1>3 DEF RestoreAddsUp
<1>8. QuietIsSaved'
  <2>1. SUFFICES ASSUME process = "up", ~changed, NEW b \in Remembered', NEW k \in Keys
                 PROVE  IF writing # NoWrite THEN BucketAt(b)[k] <= writing[b][k]
                        ELSE ~failed => BucketAt(b)[k] <= saved[b][k]
    BY <1>2, <1>3 DEF QuietIsSaved, BucketAt, SlotOf
  <2>2. /\ b \in 0 .. MaxClock
        /\ b \in Remembered \/ b = clock + 1
    BY <1>1, <1>2, WindowAssumption DEF Remembered
  <2>3. CASE b \in Remembered
    BY <2>1, <2>3, <1>1 DEF QuietIsSaved
  <2>4. CASE b = clock + 1
    <3>1. SlotOf(b) \in Slot /\ b # Never
      BY <2>2, <1>1, BucketsWereCharged
    <3>2. ring[SlotOf(b)].index # b
      BY <2>4, <3>1, <1>1 DEF HeldWasCharged
    <3>3. BucketAt(b)[k] = 0
      BY <3>2 DEF BucketAt, NoCounts
    <3>4. saved[b][k] \in Nat /\ (writing # NoWrite => writing[b][k] \in Nat)
      BY <2>2, <1>1
    <3> QED BY <3>3, <3>4
  <2> QED BY <2>2, <2>3, <2>4
<1> QED BY <1>4, <1>5, <1>6, <1>7, <1>8 DEF MinuteSound

(* A flush takes the minute as it stands.                                    *)
LEMMA FlushKeepsMinute ==
  ASSUME MinuteInv, Flush
  PROVE  MinuteTyped' /\ MinuteSound'
<1>1. /\ MinuteTyped
      /\ WindowTypeOK /\ HeldWasCharged /\ SavedWasCharged
      /\ clock \in Nat /\ clock <= MaxClock
  BY MinuteTypes, ClockIsNat, Zenon DEF MinuteInv, MinuteTyped, WindowTypeOK
<1>2. /\ process = "up" /\ changed' = FALSE /\ writing' = Snapshot
      /\ UNCHANGED <<clock, ring, charged, process, live, allowed, saved, failed, unasked>>
  BY DEF Flush, Taken, windowVars, jobs
<1>3. \A b \in 0 .. MaxClock : Snapshot[b] = IF InWindow(b) THEN BucketAt(b) ELSE NoCounts
  BY DEF Snapshot
<1>4. \A b \in 0 .. MaxClock : /\ BucketAt(b) \in [Keys -> Nat]
                              /\ WasCharged(BucketAt(b), b)
  BY <1>1, BucketsWereCharged
<1>5. NoCounts \in [Keys -> Nat] /\ \A b \in 0 .. MaxClock : WasCharged(NoCounts, b)
  <2>1. NoCounts \in [Keys -> Nat]
    BY DEF NoCounts
  <2>2. \A b \in 0 .. MaxClock : charged[b] \in [Keys -> Nat]
    BY <1>1 DEF WindowTypeOK
  <2> QED BY <2>1, <2>2 DEF NoCounts, WasCharged
<1>6. /\ Snapshot \in [0 .. MaxClock -> [Keys -> Nat]]
      /\ \A b \in 0 .. MaxClock : WasCharged(Snapshot[b], b)
  <2>1. \A b \in 0 .. MaxClock : /\ Snapshot[b] \in [Keys -> Nat]
                                /\ WasCharged(Snapshot[b], b)
    BY <1>3, <1>4, <1>5
  <2>2. Snapshot = [b \in 0 .. MaxClock |-> Snapshot[b]]
    BY DEF Snapshot
  <2> QED BY <2>1, <2>2
<1>7. Snapshot # NoWrite
  <2>1. DOMAIN Snapshot = 0 .. MaxClock /\ clock \in 0 .. MaxClock
    BY <1>1 DEF Snapshot, WindowTypeOK
  <2>2. DOMAIN NoWrite = {}
    BY DEF NoWrite
  <2> QED BY <2>1, <2>2
<1>8. MinuteTyped'
  <2>1. WindowTypeOK'
    BY <1>1, <1>2 DEF WindowTypeOK, Slot, Slots
  <2> QED BY <1>1, <1>2, <1>6, <2>1 DEF MinuteTyped
<1>9. HeldWasCharged'
  BY <1>1, <1>2 DEF HeldWasCharged, WasCharged, SlotOf
<1>10. SavedWasCharged'
  BY <1>1, <1>2, <1>6 DEF SavedWasCharged, WasCharged
<1>11. RestoreAddsUp'
  BY <1>2 DEF RestoreAddsUp
<1>12. QuietIsSaved'
  <2>1. ASSUME NEW b \in Remembered, NEW k \in Keys PROVE BucketAt(b)[k] <= Snapshot[b][k]
    <3>1. b \in 0 .. MaxClock /\ InWindow(b)
      BY <1>1, WindowAssumption DEF Remembered, InWindow
    <3>2. Snapshot[b] = BucketAt(b) /\ BucketAt(b)[k] \in Nat
      BY <3>1, <1>3, <1>4
    <3> QED BY <3>2
  <2> QED BY <2>1, <1>2, <1>7 DEF QuietIsSaved, Remembered, BucketAt, SlotOf
<1> QED BY <1>8, <1>9, <1>10, <1>11, <1>12 DEF MinuteSound

(* The write lands whole, or leaves the document as it was.                  *)
LEMMA WriteKeepsMinute ==
  ASSUME MinuteInv, WriteEnds
  PROVE  MinuteTyped' /\ MinuteSound'
<1>1. /\ MinuteTyped
      /\ WindowTypeOK /\ HeldWasCharged /\ SavedWasCharged /\ RestoreAddsUp /\ QuietIsSaved
  BY MinuteTypes, Zenon DEF MinuteInv, MinuteTyped
<1>2. /\ writing # NoWrite /\ writing' = NoWrite
      /\ \/ saved' = writing /\ failed' = FALSE
         \/ saved' = saved /\ failed' = TRUE
      /\ UNCHANGED <<clock, ring, charged, process, live, allowed, changed, unasked>>
  BY Zenon DEF WriteEnds, windowVars, jobs
<1>3. process = "up"
  BY <1>1, <1>2 DEF RestoreAddsUp
<1>4. MinuteTyped'
  <2>1. WindowTypeOK'
    BY <1>1, <1>2 DEF WindowTypeOK, Slot, Slots
  <2>2. saved' \in [0 .. MaxClock -> [Keys -> Nat]] /\ failed' \in BOOLEAN
    BY <1>1, <1>2 DEF MinuteTyped
  <2> QED BY <1>1, <1>2, <2>1, <2>2 DEF MinuteTyped
<1>5. HeldWasCharged'
  BY <1>1, <1>2 DEF HeldWasCharged, WasCharged, SlotOf
<1>6. SavedWasCharged'
  BY <1>1, <1>2 DEF SavedWasCharged, WasCharged
<1>7. RestoreAddsUp'
  BY <1>2, <1>3 DEF RestoreAddsUp
<1>8. QuietIsSaved'
  BY <1>1, <1>2, <1>3 DEF QuietIsSaved, Remembered, BucketAt, SlotOf
<1> QED BY <1>4, <1>5, <1>6, <1>7, <1>8 DEF MinuteSound

(* A process that stops leaves the document, with or without the write under *)
(* way, and begins again with an empty ring.                                 *)
LEMMA StopKeepsMinute ==
  ASSUME MinuteInv, Stops
  PROVE  MinuteTyped' /\ MinuteSound'
<1>1. MinuteTyped /\ WindowTypeOK /\ SavedWasCharged
  BY MinuteTypes, Zenon DEF MinuteInv, MinuteTyped
<1>2. /\ process' = "down" /\ writing' = NoWrite
      /\ live' = FALSE /\ allowed' = NobodyAllowed /\ changed' = FALSE /\ failed' = FALSE
      /\ ring' = [s \in Slot |-> [index |-> Never, counts |-> NoCounts]]
      /\ UNCHANGED <<clock, charged, unasked>>
  BY DEF Stops
<1>3. saved' = saved \/ (writing # NoWrite /\ saved' = writing)
  BY DEF Stops
<1>4. \A s \in Slot : ring'[s].index = Never
  BY <1>2
<1>5. MinuteTyped'
  <2>1. ring' \in [Slot -> [index : Int, counts : [Keys -> Nat]]]
    BY <1>2, WindowAssumption DEF NoCounts, Never
  <2>2. WindowTypeOK'
    BY <1>1, <1>2, <2>1 DEF WindowTypeOK, Slot, Slots
  <2>3. saved' \in [0 .. MaxClock -> [Keys -> Nat]]
    BY <1>1, <1>3 DEF MinuteTyped
  <2>4. allowed' \in [Rationed -> 0 .. PageBatch]
    BY <1>2, MinuteAssumption DEF NobodyAllowed
  <2> QED BY <1>1, <1>2, <2>2, <2>3, <2>4 DEF MinuteTyped
<1>6. HeldWasCharged' /\ RestoreAddsUp'
  BY <1>2, <1>4 DEF HeldWasCharged, RestoreAddsUp
<1>7. SavedWasCharged'
  BY <1>1, <1>2, <1>3 DEF SavedWasCharged, WasCharged
<1>8. QuietIsSaved'
  BY <1>2 DEF QuietIsSaved
<1> QED BY <1>5, <1>6, <1>7, <1>8 DEF MinuteSound

(* What Restore puts in a slot: the one saved bucket of the window that      *)
(* belongs there, added to what was charged to it meanwhile, or what the     *)
(* slot held.                                                                *)
LEMMA RestoredSlot ==
  ASSUME clock \in 0 .. MaxClock, NEW s \in Slot
  PROVE  \/ /\ Restored(s) = ring[s]
            /\ \A b \in Remembered : SlotOf(b) = s => saved[b] = NoCounts
         \/ \E b \in Remembered :
              /\ SlotOf(b) = s
              /\ Restored(s) = [index |-> b,
                               counts |-> [k \in Keys |-> BucketAt(b)[k] + saved[b][k]]]
<1> DEFINE mine == {b \in Restorable : SlotOf(b) = s /\ saved[b] # NoCounts}
<1>1. Restorable = Remembered
  BY WindowAssumption DEF Restorable, Remembered, InWindow
<1>2. Restored(s) = IF mine = {} THEN ring[s]
                    ELSE [index |-> Max(mine),
                          counts |-> [k \in Keys |-> BucketAt(Max(mine))[k]
                                                     + saved[Max(mine)][k]]]
  BY DEF Restored
<1>3. CASE mine = {}
  <2>1. \A b \in Remembered : SlotOf(b) = s => saved[b] = NoCounts
    BY <1>1, <1>3
  <2>2. Restored(s) = ring[s]
    BY <1>2, <1>3
  <2> QED BY <2>1, <2>2
<1>4. CASE mine # {}
  <2>1. PICK b \in Remembered : SlotOf(b) = s /\ b \in mine
    BY <1>1, <1>4
  <2>2. \A d \in mine : d = b
    BY <2>1, <1>1, RememberedApart
  <2>3. b \in Int
    BY <2>1, WindowAssumption DEF Remembered
  <2>4. mine = {b}
    BY <2>1, <2>2
  <2> HIDE DEF mine
  <2>5. Max(mine) = b
    BY <2>3, <2>4 DEF Max
  <2> QED BY <1>2, <1>4, <2>1, <2>5
<1> QED BY <1>3, <1>4

(* The minute comes back with what was charged while it was being read.      *)
LEMMA RestoreKeepsMinute ==
  ASSUME MinuteInv, Restore
  PROVE  MinuteTyped' /\ MinuteSound'
<1>1. /\ MinuteTyped
      /\ WindowTypeOK /\ HeldWasCharged /\ SavedWasCharged /\ RestoreAddsUp
      /\ saved \in [0 .. MaxClock -> [Keys -> Nat]]
      /\ charged \in [0 .. MaxClock -> [Keys -> Nat]]
      /\ ring \in [Slot -> [index : Int, counts : [Keys -> Nat]]]
      /\ clock \in 0 .. MaxClock /\ clock \in Nat /\ clock <= MaxClock
  BY MinuteTypes, ClockIsNat, Zenon DEF MinuteInv, MinuteTyped, WindowTypeOK
<1>2. /\ process = "booting" /\ process' = "up"
      /\ (ring' = [s \in Slot |-> Restored(s)]) \/ ring' = ring
      /\ UNCHANGED <<clock, charged, live, allowed, changed, writing, saved, failed, unasked>>
  BY Zenon DEF Restore, jobs, store
<1>3. /\ writing = NoWrite
      /\ ~changed => \A s \in Slot : ring[s].index = Never
  BY <1>1, <1>2 DEF RestoreAddsUp
<1>4. \A b \in 0 .. MaxClock : /\ SlotOf(b) \in Slot /\ b # Never
                              /\ BucketAt(b) \in [Keys -> Nat]
                              /\ WasCharged(BucketAt(b), b)
  BY <1>1, BucketsWereCharged
<1>5. \A b \in Remembered : b \in 0 .. MaxClock /\ b \in 0 .. clock /\ b \in Int
  BY <1>1, WindowAssumption DEF Remembered
<1>6. ASSUME NEW b \in 0 .. MaxClock, NEW k \in Keys
      PROVE  /\ BucketAt(b)[k] \in Nat /\ saved[b][k] \in Nat
             /\ BucketAt(b)[k] + saved[b][k] \in Nat
             /\ BucketAt(b)[k] + saved[b][k] <= charged[b][k]
  <2>1. /\ BucketAt(b)[k] \in Nat /\ saved[b][k] \in Nat
        /\ saved[b][k] <= charged[b][k] /\ charged[b][k] \in Nat
    BY <1>1, <1>4 DEF SavedWasCharged, WasCharged
  <2>2. CASE ring[SlotOf(b)].index = b
    <3>1. SlotOf(b) \in Slot /\ ring[SlotOf(b)].index # Never
      BY <2>2, <1>4
    <3>2. ring[SlotOf(b)].counts[k] + saved[b][k] <= charged[b][k]
      BY <2>2, <3>1, <1>1, <1>2 DEF RestoreAddsUp
    <3>3. BucketAt(b)[k] = ring[SlotOf(b)].counts[k]
      BY <2>2 DEF BucketAt
    <3> QED BY <2>1, <3>2, <3>3
  <2>3. CASE ring[SlotOf(b)].index # b
    <3>1. BucketAt(b)[k] = 0
      BY <2>3 DEF BucketAt, NoCounts
    <3> QED BY <2>1, <3>1
  <2> QED BY <2>1, <2>2, <2>3
<1>7. ASSUME NEW s \in Slot
      PROVE  \/ ring'[s] = ring[s]
             \/ \E b \in Remembered :
                  /\ SlotOf(b) = s /\ ring'[s].index = b
                  /\ ring'[s].counts = [k \in Keys |-> BucketAt(b)[k] + saved[b][k]]
  <2>1. CASE ring' = ring
    BY <2>1
  <2>2. CASE ring' = [r \in Slot |-> Restored(r)]
    <3>1. ring'[s] = Restored(s)
      BY <2>2
    <3>2. CASE Restored(s) = ring[s]
      BY <3>1, <3>2
    <3>3. ASSUME NEW b \in Remembered, SlotOf(b) = s,
                 Restored(s) = [index |-> b,
                                counts |-> [k \in Keys |-> BucketAt(b)[k] + saved[b][k]]]
          PROVE  /\ ring'[s].index = b
                 /\ ring'[s].counts = [k \in Keys |-> BucketAt(b)[k] + saved[b][k]]
      BY <3>1, <3>3
    <3> QED BY <3>2, <3>3, <1>1, RestoredSlot
  <2> QED BY <1>2, <2>1, <2>2
<1>8. MinuteTyped'
  <2>1. DOMAIN ring' = Slot /\ ring' = [s \in Slot |-> ring'[s]]
    BY <1>1, <1>2
  <2>2. \A s \in Slot : ring'[s] \in [index : Int, counts : [Keys -> Nat]]
    <3> SUFFICES ASSUME NEW s \in Slot
                 PROVE  ring'[s] \in [index : Int, counts : [Keys -> Nat]]
      OBVIOUS
    <3>1. CASE ring'[s] = ring[s]
      BY <3>1, <1>1
    <3>2. CASE ring'[s] # ring[s]
      <4>1. ring'[s] = Restored(s)
        BY <3>2, <1>2
      <4>2. PICK b \in Remembered :
              Restored(s) = [index |-> b,
                             counts |-> [k \in Keys |-> BucketAt(b)[k] + saved[b][k]]]
        BY <3>2, <4>1, <1>1, RestoredSlot
      <4>3. [k \in Keys |-> BucketAt(b)[k] + saved[b][k]] \in [Keys -> Nat]
        BY <1>5, <1>6
      <4> QED BY <4>1, <4>2, <4>3, <1>5
    <3> QED BY <3>1, <3>2
  <2>3. ring' \in [Slot -> [index : Int, counts : [Keys -> Nat]]]
    BY <2>1, <2>2
  <2>4. WindowTypeOK'
    BY <1>1, <1>2, <2>3 DEF WindowTypeOK, Slot, Slots
  <2> QED BY <1>1, <1>2, <1>3, <2>4 DEF MinuteTyped
<1>9. HeldWasCharged'
  <2>1. ASSUME NEW s \in Slot, ring'[s].index # Never
        PROVE  /\ ring'[s].index \in 0 .. clock
               /\ SlotOf(ring'[s].index) = s
               /\ \A k \in Keys : ring'[s].counts[k] <= charged[ring'[s].index][k]
    <3>1. CASE ring'[s] = ring[s]
      BY <2>1, <3>1, <1>1 DEF HeldWasCharged, WasCharged
    <3>2. CASE \E b \in Remembered :
                 /\ SlotOf(b) = s /\ ring'[s].index = b
                 /\ ring'[s].counts = [k \in Keys |-> BucketAt(b)[k] + saved[b][k]]
      BY <3>2, <1>5, <1>6
    <3> QED BY <3>1, <3>2, <1>7
  <2> QED BY <2>1, <1>2 DEF HeldWasCharged, WasCharged, SlotOf
<1>10. SavedWasCharged'
  BY <1>1, <1>2 DEF SavedWasCharged, WasCharged
<1>11. RestoreAddsUp'
  BY <1>2 DEF RestoreAddsUp
<1>12. QuietIsSaved'
  <2>1. SUFFICES ASSUME ~changed, NEW b \in Remembered, NEW k \in Keys
                 PROVE  (IF ring'[SlotOf(b)].index = b THEN ring'[SlotOf(b)].counts
                         ELSE NoCounts)[k] <= saved[b][k]
    BY <1>2, <1>3 DEF QuietIsSaved, Remembered, BucketAt, SlotOf
  <2>2. SlotOf(b) \in Slot /\ b # Never /\ saved[b][k] \in Nat
    BY <1>4, <1>5, <1>6
  <2>3. \A d \in 0 .. MaxClock : BucketAt(d) = NoCounts
    BY <2>1, <1>3, <1>4 DEF BucketAt
  <2>4. CASE ring'[SlotOf(b)] = ring[SlotOf(b)]
    BY <2>1, <2>2, <2>4, <1>3 DEF NoCounts
  <2>5. CASE \E d \in Remembered :
               /\ SlotOf(d) = SlotOf(b) /\ ring'[SlotOf(b)].index = d
               /\ ring'[SlotOf(b)].counts = [i \in Keys |-> BucketAt(d)[i] + saved[d][i]]
    <3>1. CASE ring'[SlotOf(b)].index = b
      <4>1. ring'[SlotOf(b)].counts[k] = BucketAt(b)[k] + saved[b][k]
        BY <2>5, <3>1
      <4>2. BucketAt(b)[k] = 0
        BY <2>3, <1>5 DEF NoCounts
      <4> QED BY <2>2, <3>1, <4>1, <4>2
    <3>2. CASE ring'[SlotOf(b)].index # b
      BY <2>2, <3>2 DEF NoCounts
    <3> QED BY <3>1, <3>2
  <2> QED BY <2>2, <2>4, <2>5, <1>7
<1> QED BY <1>8, <1>9, <1>10, <1>11, <1>12 DEF MinuteSound

(* Every step keeps the minute, one case per action.                         *)
LEMMA MinuteNextInv == MinuteInv /\ [MinuteNext]_minuteVars => MinuteInv'
<1> SUFFICES ASSUME MinuteInv, [MinuteNext]_minuteVars PROVE MinuteTyped' /\ MinuteSound'
  BY MinuteTypes, Zenon DEF MinuteInv, MinuteSound, MinuteTyped, MinuteTypeOK
<1>1. MinuteTyped /\ MinuteSound /\ Rationed \subseteq Keys
  BY MinuteTypes, MinuteAssumption DEF MinuteInv, MinuteSound
<1>2. ASSUME NEW k \in Keys, Charge(k),
             allowed' \in [Rationed -> 0 .. PageBatch], live' \in BOOLEAN,
             unasked' \in [Keys -> Nat]
      PROVE  MinuteTyped' /\ MinuteSound'
  <2>1. WindowTypeOK' /\ MinuteSound'
    BY <1>2, ChargeKeepsMinute DEF MinuteSound
  <2>2. changed' = TRUE /\ UNCHANGED <<process, writing, saved, failed>>
    BY <1>2 DEF Charge
  <2> QED BY <1>1, <1>2, <2>1, <2>2 DEF MinuteTyped
<1>3. ASSUME UNCHANGED <<windowVars, store, unasked>>,
             process' = process \/ (process = "down" /\ process' = "booting"),
             allowed' \in [Rationed -> 0 .. PageBatch], live' \in BOOLEAN
      PROVE  MinuteTyped' /\ MinuteSound'
  <2>1. /\ UNCHANGED <<clock, ring, charged>>
        /\ UNCHANGED <<changed, writing, saved, failed, unasked>>
    BY <1>3, Zenon DEF windowVars, store
  <2>2. WindowTypeOK'
    BY <1>1, <2>1 DEF MinuteTyped, WindowTypeOK, Slot, Slots
  <2>3. MinuteTyped'
    BY <1>1, <1>3, <2>1, <2>2 DEF MinuteTyped
  <2>4. CASE process' = process
    BY <1>1, <1>3, <2>3, <2>4, MinuteUntouched
  <2>5. CASE process = "down" /\ process' = "booting"
    <3>1. HeldWasCharged' /\ SavedWasCharged'
      BY <1>1, <2>1 DEF MinuteSound, HeldWasCharged, SavedWasCharged, WasCharged, SlotOf
    <3>2. RestoreAddsUp' /\ QuietIsSaved'
      BY <1>1, <2>1, <2>5 DEF MinuteSound, RestoreAddsUp, QuietIsSaved
    <3> QED BY <2>3, <3>1, <3>2 DEF MinuteSound
  <2> QED BY <1>3, <2>4, <2>5
<1>4. CASE SecondPasses
  <2>1. TimePasses /\ UNCHANGED <<process, live, allowed, unasked>> /\ UNCHANGED store
    BY <1>4, Zenon DEF SecondPasses, jobs
  <2>2. WindowTypeOK' /\ MinuteSound'
    BY <2>1, SecondKeepsMinute
  <2>3. UNCHANGED <<changed, writing, saved, failed>>
    BY <2>1, Zenon DEF store
  <2> QED BY <1>1, <2>1, <2>2, <2>3 DEF MinuteTyped
<1>5. CASE PassTurns
  BY <1>1, <1>3, <1>5 DEF PassTurns, MinuteTyped
<1>6. CASE Boots
  <2>1. UNCHANGED <<windowVars, store, unasked, live, allowed>>
    BY <1>6, Zenon DEF Boots, jobs
  <2> QED BY <1>1, <1>3, <1>6, <2>1 DEF Boots, MinuteTyped
<1>7. ASSUME NEW job \in Rationed, NEW pages \in 1 .. PageBatch, Asks(job, pages)
      PROVE  MinuteTyped' /\ MinuteSound'
  <2>1. pages \in 0 .. PageBatch
    OBVIOUS
  <2>2. allowed' \in [Rationed -> 0 .. PageBatch]
    BY <1>1, <1>7, <2>1 DEF Asks, MinuteTyped
  <2> QED BY <1>1, <1>3, <1>7, <2>2 DEF Asks, MinuteTyped
<1>8. ASSUME NEW job \in Rationed, Requests(job) PROVE MinuteTyped' /\ MinuteSound'
  <2>1. allowed[job] - 1 \in 0 .. PageBatch
    BY <1>1, <1>8, MinuteAssumption DEF Requests, MinuteTyped
  <2>2. allowed' \in [Rationed -> 0 .. PageBatch]
    BY <1>1, <1>8, <2>1 DEF Requests, MinuteTyped
  <2> QED BY <1>1, <1>2, <1>8, <2>2 DEF Requests, MinuteTyped
<1>9. ASSUME NEW k \in Keys, Unasked(k) PROVE MinuteTyped' /\ MinuteSound'
  <2>1. unasked' \in [Keys -> Nat]
    BY <1>1, <1>9 DEF Unasked, MinuteTyped
  <2> QED BY <1>1, <1>2, <1>9, <2>1 DEF Unasked, jobs, MinuteTyped
<1>10. CASE Flush \/ WriteEnds \/ Stops \/ Restore
  BY <1>10, FlushKeepsMinute, WriteKeepsMinute, StopKeepsMinute, RestoreKeepsMinute
<1>11. CASE UNCHANGED minuteVars
  <2>1. UNCHANGED <<windowVars, store, unasked, process, live, allowed>>
    BY <1>11, Zenon DEF minuteVars, jobs
  <2> QED BY <1>1, <1>3, <2>1 DEF MinuteTyped
<1> QED BY <1>4, <1>5, <1>6, <1>7, <1>8, <1>9, <1>10, <1>11, Zenon DEF MinuteNext

(* A restart forgets nothing that was saved and counts no request twice, in  *)
(* whatever order charges, writes, failures, stops and the read of the       *)
(* document come.                                                            *)
THEOREM MinuteIsRestored == MinuteSpec => []MinuteSurvives
<1>1. MinuteInv => MinuteSurvives
  <2> SUFFICES ASSUME MinuteInv PROVE MinuteSurvives
    OBVIOUS
  <2>1. /\ MinuteTyped /\ MinuteTypeOK /\ WindowTypeOK /\ HeldWasCharged /\ QuietIsSaved
        /\ clock \in Nat /\ clock <= MaxClock
    BY MinuteTypes, ClockIsNat, Zenon DEF MinuteInv, MinuteTyped, WindowTypeOK
  <2>2. \A b \in Remembered, k \in Keys : BucketAt(b)[k] <= charged[b][k]
    <3>1. \A b \in Remembered : b \in 0 .. MaxClock
      BY DEF Remembered
    <3> QED BY <3>1, <2>1, BucketsWereCharged DEF WasCharged
  <2>3. \A s \in Slot : InWindow(ring[s].index) => SlotOf(ring[s].index) = s
    <3>1. ~InWindow(Never)
      BY <2>1, WindowAssumption DEF InWindow, Never
    <3> QED BY <2>1, <3>1 DEF HeldWasCharged
  <2>4. process = "up" /\ ~changed /\ writing = NoWrite /\ ~failed =>
          \A b \in Remembered, k \in Keys : BucketAt(b)[k] <= saved[b][k]
    BY <2>1 DEF QuietIsSaved
  <2> QED BY <2>1, <2>2, <2>3, <2>4 DEF MinuteSurvives
<1> QED BY <1>1, MinuteInitInv, MinuteNextInv, PTL DEF MinuteSpec

-----------------------------------------------------------------------------
(* What the archive and the whole minute may use, restarts included.         *)

(* Buckets, from the first of the window on.                                 *)
FromWindow == {b \in 0 .. MaxClock : clock - WindowBuckets <= b}

(* What a stored minute may still bring back, of one job and of them all.    *)
StoredOf(minute, k) == SumFunction([b \in FromWindow |-> minute[b][k]])
StoredInAll(minute) == SumFunction([k \in Keys |-> StoredOf(minute, k)])

(* The two bounds of MinuteHeld.                                             *)
ArchiveFits(n) == n <= ArchiveShare + unasked["mplusArchive"]
MinuteFits(n) == n < MinuteUsable + 2 * PageBatch + SumFunction(unasked)

StoredFits(minute) ==
  ArchiveFits(StoredOf(minute, "mplusArchive")) /\ MinuteFits(StoredInAll(minute))

(* MinuteHeld is not inductive: a restart makes what is saved count again.   *)
(* So what is saved or being written must fit as well, and before the minute *)
(* is restored, together with what is charged meanwhile.                     *)
SharesFit ==
  /\ MinuteHeld
  /\ StoredFits(saved)
  /\ writing # NoWrite => StoredFits(writing)
  /\ process # "up" =>
       /\ allowed = NobodyAllowed
       /\ ArchiveFits(Spent("mplusArchive") + StoredOf(saved, "mplusArchive"))
       /\ MinuteFits(SpentInAll + StoredInAll(saved))

(* Sums compared term by term.                                               *)
LEMMA SumBelow ==
  ASSUME NEW S, IsFiniteSet(S), NEW f \in [S -> Nat], NEW h \in [S -> Nat],
         \A x \in S : f[x] <= h[x]
  PROVE  SumFunction(f) <= SumFunction(h)
<1> DEFINE c == [x \in S |-> x]
<1>1. /\ \A x \in S : f[x] > 0 => c[x] \in S /\ f[x] <= h[c[x]]
      /\ \A x, y \in S : f[x] > 0 /\ f[y] > 0 /\ c[x] = c[y] => x = y
  OBVIOUS
<1> HIDE DEF c
<1> QED BY <1>1, SumFits

LEMMA SumOfZeros ==
  ASSUME NEW S, IsFiniteSet(S), NEW f \in [S -> Int], \A x \in S : f[x] = 0
  PROVE  SumFunction(f) = 0
<1> DEFINE twice == [x \in S |-> f[x] + f[x]]
<1>1. twice = f
  OBVIOUS
<1>2. SumFunction(twice) = SumFunction(f) + SumFunction(f)
  BY SumAdds
<1> HIDE DEF twice
<1>3. SumFunction(f) = SumFunction(f) + SumFunction(f)
  BY <1>1, <1>2, Zenon
<1>4. SumFunction(f) \in Int
  BY SumOfAll
<1>5. \A n \in Int : n = n + n => n = 0
  OBVIOUS
<1> QED BY <1>3, <1>4, <1>5, Zenon

LEMMA SumIsNat ==
  ASSUME NEW S, IsFiniteSet(S), NEW f \in [S -> Nat]
  PROVE  SumFunction(f) \in Nat
<1>1. f \in [S -> Int] /\ S \in SUBSET S
  OBVIOUS
<1> QED BY <1>1, SumOfAll, SumOnNat

LEMMA FromWindowIsFinite == IsFiniteSet(FromWindow) /\ IsFiniteSet(0 .. MaxClock)
<1>1. IsFiniteSet(0 .. MaxClock)
  BY WindowAssumption, FS_Interval
<1> QED BY <1>1, FS_Subset DEF FromWindow

(* A stored minute holds numbers of requests.                                *)
LEMMA StoredIsNat ==
  ASSUME NEW minute \in [0 .. MaxClock -> [Keys -> Nat]]
  PROVE  (\A k \in Keys : StoredOf(minute, k) \in Nat) /\ StoredInAll(minute) \in Nat
<1>1. ASSUME NEW k \in Keys PROVE StoredOf(minute, k) \in Nat
  <2> DEFINE f == [b \in FromWindow |-> minute[b][k]]
  <2>1. f \in [FromWindow -> Nat]
    BY DEF FromWindow
  <2> HIDE DEF f
  <2>2. SumFunction(f) \in Nat
    BY <2>1, FromWindowIsFinite, SumIsNat
  <2> QED BY <2>2 DEF StoredOf, f
<1> DEFINE h == [k \in Keys |-> StoredOf(minute, k)]
<1>2. h \in [Keys -> Nat]
  BY <1>1
<1> HIDE DEF h
<1>3. SumFunction(h) \in Nat
  BY <1>2, MinuteAssumption, SumIsNat
<1> QED BY <1>1, <1>3 DEF StoredInAll, h

(* Everything the bounds compare is a number.                                *)
MinuteNumbers ==
  /\ \A k \in Keys : Spent(k) \in Nat /\ StoredOf(saved, k) \in Nat
  /\ SpentInAll \in Nat /\ StoredInAll(saved) \in Nat
  /\ writing # NoWrite => StoredOf(writing, "mplusArchive") \in Nat /\ StoredInAll(writing) \in Nat
  /\ unasked["mplusArchive"] \in Nat /\ SumFunction(unasked) \in Nat
  /\ allowed["mplus"] \in Nat /\ allowed["mplusArchive"] \in Nat
  /\ allowed["mplus"] <= PageBatch /\ allowed["mplusArchive"] <= PageBatch

LEMMA MinuteCounts == MinuteInv => MinuteNumbers
<1> SUFFICES ASSUME MinuteInv PROVE MinuteNumbers
  OBVIOUS
<1>1. /\ WindowTypeOK /\ unasked \in [Keys -> Nat] /\ allowed \in [Rationed -> 0 .. PageBatch]
      /\ saved \in [0 .. MaxClock -> [Keys -> Nat]]
      /\ writing # NoWrite => writing \in [0 .. MaxClock -> [Keys -> Nat]]
  BY MinuteTypes, Zenon DEF MinuteInv, MinuteTyped
<1>2. /\ "mplus" \in Rationed /\ "mplusArchive" \in Rationed
      /\ "mplus" \in Keys /\ "mplusArchive" \in Keys /\ IsFiniteSet(Keys) /\ PageBatch \in Nat
  BY MinuteAssumption DEF Rationed
<1>3. \A k \in Keys : Spent(k) \in Nat
  BY <1>1, SpentIsNat
<1>4. SpentInAll \in Nat
  <2> DEFINE f == [k \in Keys |-> Spent(k)]
  <2>1. f \in [Keys -> Nat]
    BY <1>3
  <2> HIDE DEF f
  <2>2. SumFunction(f) \in Nat
    BY <1>2, <2>1, SumIsNat
  <2> QED BY <2>2 DEF SpentInAll, f
<1>5. (\A k \in Keys : StoredOf(saved, k) \in Nat) /\ StoredInAll(saved) \in Nat
  BY <1>1, StoredIsNat
<1>6. writing # NoWrite => StoredOf(writing, "mplusArchive") \in Nat /\ StoredInAll(writing) \in Nat
  BY <1>1, <1>2, StoredIsNat
<1>7. unasked["mplusArchive"] \in Nat /\ SumFunction(unasked) \in Nat
  BY <1>1, <1>2, SumIsNat
<1>8. /\ allowed["mplus"] \in 0 .. PageBatch /\ allowed["mplusArchive"] \in 0 .. PageBatch
  BY <1>1, <1>2
<1> QED BY <1>2, <1>3, <1>4, <1>5, <1>6, <1>7, <1>8 DEF MinuteNumbers

LEMMA HeldIsOwn == HeldWasCharged => OwnSlots
BY DEF HeldWasCharged, OwnSlots

(* A charge is one more of its job and one more in all.                      *)
LEMMA ChargeSpendsOne ==
  ASSUME MinuteInv, NEW k \in Keys, Charge(k)
  PROVE  /\ \A i \in Keys : Spent(i)' = Spent(i) + (IF i = k THEN 1 ELSE 0)
         /\ SpentInAll' = SpentInAll + 1
<1>1. WindowTypeOK /\ OwnSlots /\ Record(k) /\ IsFiniteSet(Keys)
  BY HeldIsOwn, MinuteAssumption DEF MinuteInv, MinuteTypeOK, Charge
<1>2. \A i \in Keys : Spent(i)' = Spent(i) + (IF i = k THEN 1 ELSE 0)
  BY <1>1, RecordSpends
<1>3. \A i \in Keys : Spent(i) \in Nat
  BY <1>1, SpentIsNat
<1> DEFINE f == [i \in Keys |-> Spent(i)]
           h == [i \in Keys |-> Spent(i) + (IF i = k THEN 1 ELSE 0)]
<1>4. h = [i \in Keys |-> Spent(i)']
  BY <1>2
<1>5. SpentInAll = SumFunction(f) /\ SpentInAll' = SumFunction(h)
  BY <1>4 DEF SpentInAll
<1>6. /\ f \in [Keys -> Int] /\ h \in [Keys -> Int] /\ h[k] = f[k] + 1
      /\ \A i \in Keys : i # k => h[i] = f[i]
  BY <1>3
<1> HIDE DEF f, h
<1>7. SumFunction(h) = SumFunction(f) + (h[k] - f[k]) /\ SumFunction(f) \in Int /\ f[k] \in Int
  BY <1>1, <1>6, SumChanges, SumOfAll
<1> QED BY <1>2, <1>5, <1>6, <1>7

(* What is stored brings back less and less.                                 *)
LEMMA StoredForgets ==
  ASSUME TimePasses, clock \in 0 .. MaxClock,
         NEW minute \in [0 .. MaxClock -> [Keys -> Nat]]
  PROVE  /\ \A k \in Keys : SumFunction([b \in FromWindow' |-> minute[b][k]]) <= StoredOf(minute, k)
         /\ SumFunction([k \in Keys |-> SumFunction([b \in FromWindow' |-> minute[b][k]])])
              <= StoredInAll(minute)
<1> DEFINE later == FromWindow'
           kept(k) == SumFunction([b \in later |-> minute[b][k]])
<1>1. later \in SUBSET FromWindow
  <2>1. clock \in Int /\ clock' = clock + 1
    BY DEF TimePasses
  <2> QED BY <2>1, WindowAssumption DEF FromWindow
<1> HIDE DEF later
<1>2. ASSUME NEW k \in Keys PROVE kept(k) \in Nat /\ kept(k) <= StoredOf(minute, k)
  <2> DEFINE f == [b \in FromWindow |-> minute[b][k]]
  <2>1. f \in [FromWindow -> Nat]
    BY DEF FromWindow
  <2>2. [b \in later |-> f[b]] = [b \in later |-> minute[b][k]]
    BY <1>1
  <2>3. StoredOf(minute, k) = SumFunction(f)
    BY DEF StoredOf
  <2> HIDE DEF f
  <2>4. SumOn(f, later) <= SumOn(f, FromWindow) /\ SumOn(f, later) \in Nat
    BY <1>1, <2>1, FromWindowIsFinite, SumOnPart, SumOnNat
  <2>5. SumOn(f, FromWindow) = SumFunction(f)
    BY <2>1, FromWindowIsFinite, SumOfAll
  <2>6. SumOn(f, later) = kept(k)
    BY <2>2 DEF SumOn
  <2> QED BY <2>3, <2>4, <2>5, <2>6
<1> DEFINE g == [k \in Keys |-> kept(k)]
           h == [k \in Keys |-> StoredOf(minute, k)]
<1>3. g \in [Keys -> Nat] /\ h \in [Keys -> Nat] /\ \A k \in Keys : g[k] <= h[k]
  BY <1>2, StoredIsNat
<1>4. SumFunction(h) = StoredInAll(minute)
  BY DEF StoredInAll
<1>5. SumFunction(g) <= SumFunction(h)
  <2> HIDE DEF g, h
  <2> QED BY <1>3, MinuteAssumption, SumBelow
<1> QED BY <1>2, <1>4, <1>5 DEF later

LEMMA SpentForgets ==
  ASSUME MinuteInv, TimePasses
  PROVE  (\A k \in Keys : Spent(k)' <= Spent(k)) /\ SpentInAll' <= SpentInAll
<1>1. WindowTypeOK /\ OwnSlots /\ WindowTypeOK'
  <2>1. WindowTypeOK /\ OwnSlots
    BY HeldIsOwn DEF MinuteInv, MinuteTypeOK
  <2> QED BY <2>1, WindowAssumption DEF WindowTypeOK, TimePasses, Slot, Slots
<1>2. \A k \in Keys : Spent(k)' <= Spent(k)
  BY <1>1, TimeForgets
<1>3. \A k \in Keys : Spent(k) \in Nat /\ Spent(k)' \in Nat
  BY <1>1, SpentIsNat, SpentStaysNat
<1> DEFINE g == [k \in Keys |-> Spent(k)']
           h == [k \in Keys |-> Spent(k)]
<1>4. SpentInAll' = SumFunction(g) /\ SpentInAll = SumFunction(h)
  BY DEF SpentInAll
<1>5. g \in [Keys -> Nat] /\ h \in [Keys -> Nat] /\ \A k \in Keys : g[k] <= h[k]
  BY <1>2, <1>3
<1> HIDE DEF g, h
<1>6. SumFunction(g) <= SumFunction(h)
  BY <1>5, MinuteAssumption, SumBelow
<1> QED BY <1>2, <1>4, <1>6

(* The snapshot stores no more than the window counts.                       *)
LEMMA SnapshotFits ==
  ASSUME WindowTypeOK, OwnSlots
  PROVE  /\ \A k \in Keys : StoredOf(Snapshot, k) <= Spent(k)
         /\ StoredInAll(Snapshot) <= SpentInAll
<1>1. /\ ring \in [Slot -> [index : Int, counts : [Keys -> Nat]]]
      /\ \A b \in 0 .. MaxClock : SlotOf(b) \in Slot
      /\ Snapshot \in [0 .. MaxClock -> [Keys -> Nat]]
  <2>1. \A b \in 0 .. MaxClock : b \in Nat
    OBVIOUS
  <2>2. \A b \in 0 .. MaxClock : SlotOf(b) \in Slot
    BY <2>1, SlotOfIsSlot
  <2>3. \A b \in 0 .. MaxClock : BucketAt(b) \in [Keys -> Nat]
    BY <2>2 DEF WindowTypeOK, BucketAt, NoCounts
  <2> QED BY <2>2, <2>3 DEF WindowTypeOK, Snapshot, NoCounts
<1>2. ASSUME NEW k \in Keys PROVE StoredOf(Snapshot, k) <= Spent(k)
  <2> DEFINE f == [b \in FromWindow |-> Snapshot[b][k]]
             h == [s \in Counted |-> ring[s].counts[k]]
             c == [b \in FromWindow |-> SlotOf(b)]
  <2>1. f \in [FromWindow -> Nat] /\ h \in [Counted -> Nat]
    BY <1>1 DEF FromWindow, Counted
  <2>2. StoredOf(Snapshot, k) = SumFunction(f) /\ Spent(k) = SumFunction(h)
    BY DEF StoredOf, Spent, Counted
  <2>3. ASSUME NEW b \in FromWindow, f[b] > 0
        PROVE  /\ ring[SlotOf(b)].index = b /\ InWindow(b)
               /\ c[b] = SlotOf(b) /\ c[b] \in Counted /\ f[b] <= h[c[b]]
    <3>1. b \in 0 .. MaxClock /\ f[b] = Snapshot[b][k]
      BY DEF FromWindow
    <3>2. Snapshot[b] = IF InWindow(b) THEN BucketAt(b) ELSE NoCounts
      BY <3>1 DEF Snapshot
    <3>3. NoCounts[k] = 0
      BY DEF NoCounts
    <3>4. InWindow(b) /\ f[b] = BucketAt(b)[k]
      BY <2>3, <3>1, <3>2, <3>3
    <3>5. ring[SlotOf(b)].index = b /\ f[b] = ring[SlotOf(b)].counts[k]
      BY <2>3, <3>3, <3>4 DEF BucketAt
    <3>6. c[b] = SlotOf(b) /\ c[b] \in Counted
      BY <1>1, <3>1, <3>4, <3>5 DEF Counted
    <3>7. h[c[b]] = f[b] /\ f[b] \in Nat
      BY <2>1, <3>5, <3>6
    <3> QED BY <3>4, <3>5, <3>6, <3>7
  <2>4. ASSUME NEW b \in FromWindow, NEW d \in FromWindow, f[b] > 0, f[d] > 0, c[b] = c[d]
        PROVE  b = d
    BY <2>3, <2>4
  <2> HIDE DEF f, h, c
  <2>5. SumFunction(f) <= SumFunction(h)
    BY <2>1, <2>3, <2>4, FromWindowIsFinite, CountedIsFinite, SumFits
  <2> QED BY <2>2, <2>5
<1> DEFINE g == [k \in Keys |-> StoredOf(Snapshot, k)]
           p == [k \in Keys |-> Spent(k)]
<1>3. g \in [Keys -> Nat] /\ p \in [Keys -> Nat] /\ \A k \in Keys : g[k] <= p[k]
  BY <1>1, <1>2, StoredIsNat, SpentIsNat
<1>4. StoredInAll(Snapshot) = SumFunction(g) /\ SpentInAll = SumFunction(p)
  BY DEF StoredInAll, SpentInAll
<1> HIDE DEF g, p
<1>5. SumFunction(g) <= SumFunction(p)
  BY <1>3, MinuteAssumption, SumBelow
<1> QED BY <1>2, <1>4, <1>5

(* A slot after Restore: as it was, or the saved bucket that belongs there   *)
(* added to what was charged to it meanwhile.                                *)
LEMMA RestoreBySlot ==
  ASSUME clock \in 0 .. MaxClock, Restore, NEW s \in Slot
  PROVE  \/ ring'[s] = ring[s]
         \/ \E b \in Remembered :
              /\ SlotOf(b) = s /\ ring'[s].index = b
              /\ ring'[s].counts = [k \in Keys |-> BucketAt(b)[k] + saved[b][k]]
<1>1. (ring' = [r \in Slot |-> Restored(r)]) \/ ring' = ring
  BY DEF Restore
<1>2. CASE ring' = ring
  BY <1>2
<1>3. CASE ring' = [r \in Slot |-> Restored(r)]
  <2>1. ring'[s] = Restored(s)
    BY <1>3
  <2>2. CASE Restored(s) = ring[s]
    BY <2>1, <2>2
  <2>3. ASSUME NEW b \in Remembered, SlotOf(b) = s,
               Restored(s) = [index |-> b,
                              counts |-> [k \in Keys |-> BucketAt(b)[k] + saved[b][k]]]
        PROVE  /\ ring'[s].index = b
               /\ ring'[s].counts = [k \in Keys |-> BucketAt(b)[k] + saved[b][k]]
    BY <2>1, <2>3
  <2> QED BY <2>2, <2>3, RestoredSlot
<1> QED BY <1>1, <1>2, <1>3

(* Restored, the window counts no more than what it counted and what was     *)
(* saved of it.                                                              *)
LEMMA RestoreSpends ==
  ASSUME MinuteInv, MinuteInv', Restore
  PROVE  /\ \A k \in Keys : Spent(k)' <= Spent(k) + StoredOf(saved, k)
         /\ SpentInAll' <= SpentInAll + StoredInAll(saved)
<1>1. /\ WindowTypeOK /\ WindowTypeOK' /\ OwnSlots
      /\ ring \in [Slot -> [index : Int, counts : [Keys -> Nat]]]
      /\ saved \in [0 .. MaxClock -> [Keys -> Nat]]
      /\ clock \in 0 .. MaxClock /\ clock \in Nat
  BY MinuteTypes, HeldIsOwn, ClockIsNat, Zenon DEF MinuteInv, MinuteTyped, WindowTypeOK, MinuteTypeOK
<1>2. clock' = clock
  BY DEF Restore
<1>3. \A b \in Remembered : /\ b \in FromWindow /\ b \in 0 .. MaxClock /\ InWindow(b)
                           /\ SlotOf(b) \in Slot /\ BucketAt(b) \in [Keys -> Nat]
  <2> SUFFICES ASSUME NEW b \in Remembered
               PROVE  /\ b \in FromWindow /\ b \in 0 .. MaxClock /\ InWindow(b)
                      /\ SlotOf(b) \in Slot /\ BucketAt(b) \in [Keys -> Nat]
    OBVIOUS
  <2>1. b \in 0 .. MaxClock /\ b \in Nat /\ b \in FromWindow /\ InWindow(b)
    BY <1>1, WindowAssumption DEF Remembered, FromWindow, InWindow
  <2>2. SlotOf(b) \in Slot
    BY <2>1, SlotOfIsSlot
  <2>3. BucketAt(b) \in [Keys -> Nat]
    BY <1>1, <2>2 DEF BucketAt, NoCounts
  <2> QED BY <2>1, <2>2, <2>3
<1> DEFINE now == Counted'
<1>4. /\ now \subseteq Slot /\ IsFiniteSet(now)
      /\ \A s \in now : InWindow(ring'[s].index)
      /\ \A k \in Keys : Spent(k)' = SumFunction([s \in now |-> ring'[s].counts[k]])
  <2>1. now = {t \in Slot : InWindow(ring'[t].index)}
    BY <1>2 DEF Counted, Slot, Slots, InWindow
  <2>2. IsFiniteSet(now)
    BY <2>1, CountedIsFinite, FS_Subset
  <2>3. \A k \in Keys : Spent(k)' = SumFunction([s \in now |-> ring'[s].counts[k]])
    BY DEF Spent, Counted
  <2> HIDE DEF now
  <2> QED BY <2>1, <2>2, <2>3
<1> HIDE DEF now
<1>5. ASSUME NEW k \in Keys PROVE Spent(k)' <= Spent(k) + StoredOf(saved, k)
  <2> DEFINE f == [s \in now |-> IF ring'[s] = ring[s] THEN ring[s].counts[k]
                                 ELSE BucketAt(ring'[s].index)[k]]
             g == [s \in now |-> IF ring'[s] = ring[s] THEN 0
                                 ELSE saved[ring'[s].index][k]]
             old == [s \in Counted |-> ring[s].counts[k]]
             put == [b \in FromWindow |-> saved[b][k]]
             same == [s \in now |-> s]
             into == [s \in now |-> ring'[s].index]
  <2>1. /\ old \in [Counted -> Nat] /\ put \in [FromWindow -> Nat]
        /\ Spent(k) = SumFunction(old) /\ StoredOf(saved, k) = SumFunction(put)
    BY <1>1 DEF Counted, FromWindow, Spent, StoredOf
  <2>2. ASSUME NEW s \in now
        PROVE  /\ f[s] \in Nat /\ g[s] \in Nat /\ ring'[s].counts[k] = f[s] + g[s]
               /\ f[s] > 0 => same[s] \in Counted /\ f[s] <= old[same[s]]
               /\ g[s] > 0 => /\ into[s] \in FromWindow /\ g[s] <= put[into[s]]
                              /\ SlotOf(into[s]) = s
    <3>1. s \in Slot /\ ring[s].counts[k] \in Nat /\ InWindow(ring'[s].index)
      BY <1>1, <1>4
    <3>2. CASE ring'[s] = ring[s]
      <4>1. f[s] = ring[s].counts[k] /\ g[s] = 0 /\ same[s] = s
        BY <3>2
      <4>2. s \in Counted /\ old[s] = ring[s].counts[k]
        BY <3>1, <3>2 DEF Counted
      <4> HIDE DEF f, g, old, put, same, into
      <4> QED BY <3>1, <3>2, <4>1, <4>2
    <3>3. CASE ring'[s] # ring[s]
      <4>1. PICK b \in Remembered :
              /\ SlotOf(b) = s /\ ring'[s].index = b
              /\ ring'[s].counts = [i \in Keys |-> BucketAt(b)[i] + saved[b][i]]
        BY <3>1, <3>3, <1>1, RestoreBySlot
      <4>2. /\ f[s] = BucketAt(b)[k] /\ g[s] = saved[b][k] /\ same[s] = s /\ into[s] = b
            /\ ring'[s].counts[k] = BucketAt(b)[k] + saved[b][k]
        BY <3>3, <4>1
      <4>3. BucketAt(b)[k] \in Nat /\ saved[b][k] \in Nat
        BY <1>1, <1>3
      <4>4. b \in FromWindow /\ put[b] = saved[b][k]
        BY <1>3
      <4>5. BucketAt(b)[k] > 0 => s \in Counted /\ old[s] = BucketAt(b)[k]
        <5>1. SUFFICES ASSUME BucketAt(b)[k] > 0 PROVE s \in Counted /\ old[s] = BucketAt(b)[k]
          OBVIOUS
        <5>2. ring[s].index = b /\ BucketAt(b) = ring[s].counts
          BY <4>1, <5>1 DEF BucketAt, NoCounts
        <5>3. s \in Counted
          BY <3>1, <5>2, <1>3 DEF Counted
        <5> QED BY <5>2, <5>3
      <4> HIDE DEF f, g, old, put, same, into
      <4> QED BY <4>1, <4>2, <4>3, <4>4, <4>5
    <3> QED BY <3>2, <3>3
  <2>3. \A s, t \in now : same[s] = same[t] => s = t
    OBVIOUS
  <2>4. f \in [now -> Nat] /\ g \in [now -> Nat]
    BY <2>2
  <2>5. [s \in now |-> ring'[s].counts[k]] = [s \in now |-> f[s] + g[s]]
    BY <2>2
  <2> HIDE DEF f, g, old, put, same, into
  <2>6. SumFunction(f) <= SumFunction(old)
    <3>1. \A s, t \in now : f[s] > 0 /\ f[t] > 0 /\ same[s] = same[t] => s = t
      BY <2>3
    <3>2. \A s \in now : f[s] > 0 => same[s] \in Counted /\ f[s] <= old[same[s]]
      BY <2>2
    <3> QED BY <1>4, <2>1, <2>4, <3>1, <3>2, CountedIsFinite, SumFits
  <2>7. SumFunction(g) <= SumFunction(put)
    <3>1. \A s, t \in now : g[s] > 0 /\ g[t] > 0 /\ into[s] = into[t] => s = t
      BY <2>2
    <3>2. \A s \in now : g[s] > 0 => into[s] \in FromWindow /\ g[s] <= put[into[s]]
      BY <2>2
    <3> QED BY <1>4, <2>1, <2>4, <3>1, <3>2, FromWindowIsFinite, SumFits
  <2>8. SumFunction([s \in now |-> f[s] + g[s]]) = SumFunction(f) + SumFunction(g)
    <3>1. f \in [now -> Int] /\ g \in [now -> Int]
      BY <2>4
    <3> QED BY <1>4, <3>1, SumAdds
  <2>9. /\ SumFunction(f) \in Nat /\ SumFunction(g) \in Nat
        /\ SumFunction(old) \in Nat /\ SumFunction(put) \in Nat
    BY <1>4, <2>1, <2>4, CountedIsFinite, FromWindowIsFinite, SumIsNat
  <2>10. Spent(k)' = SumFunction(f) + SumFunction(g)
    BY <1>4, <2>5, <2>8
  <2> QED BY <2>1, <2>6, <2>7, <2>9, <2>10
<1>6. \A k \in Keys : Spent(k)' \in Nat /\ Spent(k) \in Nat /\ StoredOf(saved, k) \in Nat
  BY <1>1, SpentIsNat, SpentStaysNat, StoredIsNat
<1> DEFINE p == [k \in Keys |-> Spent(k)']
           q == [k \in Keys |-> Spent(k)]
           r == [k \in Keys |-> StoredOf(saved, k)]
           both == [k \in Keys |-> q[k] + r[k]]
<1>7. SpentInAll' = SumFunction(p) /\ SpentInAll = SumFunction(q) /\ StoredInAll(saved) = SumFunction(r)
  BY DEF SpentInAll, StoredInAll
<1>8. /\ p \in [Keys -> Nat] /\ q \in [Keys -> Int] /\ r \in [Keys -> Int]
      /\ both \in [Keys -> Nat] /\ \A k \in Keys : p[k] <= both[k]
  BY <1>5, <1>6
<1> HIDE DEF p, q, r
<1>9. SumFunction(both) = SumFunction(q) + SumFunction(r)
  BY <1>8, MinuteAssumption, SumAdds
<1> HIDE DEF both
<1>10. SumFunction(p) <= SumFunction(both)
  BY <1>8, MinuteAssumption, SumBelow
<1> QED BY <1>5, <1>7, <1>9, <1>10

(* A stored minute still fits when no job may have made fewer requests than  *)
(* before, and no time has passed.                                           *)
LEMMA StoredUntouched ==
  ASSUME clock' = clock
  PROVE  /\ \A k \in Keys : saved' = saved => StoredOf(saved, k)' = StoredOf(saved, k)
         /\ saved' = saved => StoredInAll(saved)' = StoredInAll(saved)
         /\ \A k \in Keys : writing' = writing => StoredOf(writing, k)' = StoredOf(writing, k)
         /\ writing' = writing => StoredInAll(writing)' = StoredInAll(writing)
         /\ \A k \in Keys : saved' = writing => StoredOf(saved, k)' = StoredOf(writing, k)
         /\ saved' = writing => StoredInAll(saved)' = StoredInAll(writing)
BY DEF StoredOf, StoredInAll, FromWindow

LEMMA SpentStays ==
  ASSUME UNCHANGED windowVars
  PROVE  (\A k \in Keys : Spent(k)' = Spent(k)) /\ SpentInAll' = SpentInAll
BY DEF windowVars, SpentInAll, Spent, InWindow, Slot, Slots

LEMMA MinuteCountsNext == (MinuteInv => MinuteNumbers)'
BY MinuteCounts, PTL

(* The invariant in numbers.                                                 *)
LEMMA FitsInNumbers ==
  SharesFit <=>
    /\ Spent("mplusArchive") + allowed["mplusArchive"] <= ArchiveShare + unasked["mplusArchive"]
    /\ SpentInAll + allowed["mplus"] + allowed["mplusArchive"]
         < MinuteUsable + 2 * PageBatch + SumFunction(unasked)
    /\ StoredOf(saved, "mplusArchive") <= ArchiveShare + unasked["mplusArchive"]
    /\ StoredInAll(saved) < MinuteUsable + 2 * PageBatch + SumFunction(unasked)
    /\ writing # NoWrite =>
         /\ StoredOf(writing, "mplusArchive") <= ArchiveShare + unasked["mplusArchive"]
         /\ StoredInAll(writing) < MinuteUsable + 2 * PageBatch + SumFunction(unasked)
    /\ process # "up" =>
         /\ allowed = NobodyAllowed
         /\ Spent("mplusArchive") + StoredOf(saved, "mplusArchive")
              <= ArchiveShare + unasked["mplusArchive"]
         /\ SpentInAll + StoredInAll(saved)
              < MinuteUsable + 2 * PageBatch + SumFunction(unasked)
BY Zenon DEF SharesFit, MinuteHeld, StoredFits, ArchiveFits, MinuteFits

LEMMA FitsInNumbersNext ==
  SharesFit' <=>
    /\ Spent("mplusArchive")' + allowed'["mplusArchive"] <= ArchiveShare + unasked'["mplusArchive"]
    /\ SpentInAll' + allowed'["mplus"] + allowed'["mplusArchive"]
         < MinuteUsable + 2 * PageBatch + SumFunction(unasked')
    /\ StoredOf(saved, "mplusArchive")' <= ArchiveShare + unasked'["mplusArchive"]
    /\ StoredInAll(saved)' < MinuteUsable + 2 * PageBatch + SumFunction(unasked')
    /\ writing' # NoWrite =>
         /\ StoredOf(writing, "mplusArchive")' <= ArchiveShare + unasked'["mplusArchive"]
         /\ StoredInAll(writing)' < MinuteUsable + 2 * PageBatch + SumFunction(unasked')
    /\ process' # "up" =>
         /\ allowed' = NobodyAllowed
         /\ Spent("mplusArchive")' + StoredOf(saved, "mplusArchive")'
              <= ArchiveShare + unasked'["mplusArchive"]
         /\ SpentInAll' + StoredInAll(saved)'
              < MinuteUsable + 2 * PageBatch + SumFunction(unasked')
BY Zenon DEF SharesFit, MinuteHeld, StoredFits, ArchiveFits, MinuteFits, NobodyAllowed, NoWrite

LEMMA MinuteConstants ==
  /\ "mplus" \in Rationed /\ "mplusArchive" \in Rationed
  /\ "mplus" \in Keys /\ "mplusArchive" \in Keys /\ IsFiniteSet(Keys)
  /\ PageBatch \in Nat /\ PageBatch > 0 /\ MinuteUsable \in Nat /\ ArchiveShare \in Nat
  /\ ArchiveShare <= MinuteUsable
  /\ NobodyAllowed["mplus"] = 0 /\ NobodyAllowed["mplusArchive"] = 0
BY MinuteAssumption DEF Rationed, NobodyAllowed

(* A request that was allowed takes the place of its allowance; one that     *)
(* nobody asked for raises both sides.                                       *)
LEMMA ChargeFits ==
  ASSUME MinuteInv, MinuteInv', SharesFit, NEW k \in Keys, Charge(k),
         \/ Unasked(k)
         \/ k \in Rationed /\ Requests(k)
  PROVE  SharesFit'
<1>1. /\ MinuteNumbers /\ MinuteNumbers'
      /\ Spent("mplusArchive")' = Spent("mplusArchive") + (IF k = "mplusArchive" THEN 1 ELSE 0)
      /\ SpentInAll' = SpentInAll + 1
      /\ clock' = clock /\ UNCHANGED <<process, writing, saved>>
      /\ allowed \in [Rationed -> 0 .. PageBatch] /\ unasked \in [Keys -> Nat]
  <2>1. MinuteNumbers /\ MinuteNumbers'
    BY MinuteCounts, MinuteCountsNext
  <2>2. clock' = clock /\ UNCHANGED <<process, writing, saved>>
    BY DEF Charge, Record
  <2>3. allowed \in [Rationed -> 0 .. PageBatch] /\ unasked \in [Keys -> Nat]
    BY DEF MinuteInv, MinuteTypeOK
  <2> QED BY <2>1, <2>2, <2>3, ChargeSpendsOne, MinuteConstants
<1>2. /\ StoredOf(saved, "mplusArchive")' = StoredOf(saved, "mplusArchive")
      /\ StoredInAll(saved)' = StoredInAll(saved)
      /\ StoredOf(writing, "mplusArchive")' = StoredOf(writing, "mplusArchive")
      /\ StoredInAll(writing)' = StoredInAll(writing)
  BY <1>1, StoredUntouched, MinuteConstants
<1>3. CASE Unasked(k)
  <2>1. allowed' = allowed /\ unasked' = [unasked EXCEPT ![k] = @ + 1]
    BY <1>3 DEF Unasked, jobs
  <2>2. /\ unasked'["mplusArchive"]
             = unasked["mplusArchive"] + (IF k = "mplusArchive" THEN 1 ELSE 0)
        /\ unasked' \in [Keys -> Int] /\ unasked'[k] = unasked[k] + 1
        /\ unasked \in [Keys -> Int] /\ unasked[k] \in Nat
        /\ \A i \in Keys : i # k => unasked'[i] = unasked[i]
    BY <1>1, <2>1, MinuteConstants
  <2>3. SumFunction(unasked') = SumFunction(unasked) + 1
    <3>1. SumFunction(unasked') = SumFunction(unasked) + (unasked'[k] - unasked[k])
      BY <2>2, MinuteConstants, SumChanges
    <3> QED BY <1>1, <2>2, <3>1 DEF MinuteNumbers
  <2> QED BY <1>1, <1>2, <2>1, <2>2, <2>3, MinuteConstants, FitsInNumbers, FitsInNumbersNext
        DEF MinuteNumbers
<1>4. CASE k \in Rationed /\ Requests(k)
  <2>1. allowed[k] > 0 /\ allowed' = [allowed EXCEPT ![k] = @ - 1] /\ unasked' = unasked
    BY <1>4 DEF Requests
  <2>2. process = "up"
    <3>1. NobodyAllowed[k] = 0
      BY <1>4 DEF NobodyAllowed
    <3> QED BY <2>1, <3>1 DEF SharesFit
  <2>3. /\ allowed'["mplus"] = allowed["mplus"] - (IF k = "mplus" THEN 1 ELSE 0)
        /\ allowed'["mplusArchive"]
             = allowed["mplusArchive"] - (IF k = "mplusArchive" THEN 1 ELSE 0)
        /\ k = "mplus" \/ k = "mplusArchive"
    <3>1. k = "mplus" \/ k = "mplusArchive"
      BY <1>4 DEF Rationed
    <3> QED BY <1>1, <1>4, <2>1, <3>1, MinuteConstants DEF MinuteNumbers
  <2> QED BY <1>1, <1>2, <2>1, <2>2, <2>3, MinuteConstants, FitsInNumbers, FitsInNumbersNext
        DEF MinuteNumbers
<1> QED BY <1>3, <1>4

(* A job is allowed what there is room for.                                  *)
LEMMA AskFits ==
  ASSUME MinuteInv, MinuteInv', SharesFit,
         NEW job \in Rationed, NEW pages \in 1 .. PageBatch, Asks(job, pages)
  PROVE  SharesFit'
<1>1. /\ MinuteNumbers /\ allowed \in [Rationed -> 0 .. PageBatch]
      /\ pages \in Nat /\ pages <= PageBatch /\ pages > 0
  <2>1. MinuteNumbers /\ allowed \in [Rationed -> 0 .. PageBatch]
    BY MinuteCounts DEF MinuteInv, MinuteTypeOK
  <2>2. pages \in Nat /\ pages <= PageBatch /\ pages > 0
    BY MinuteConstants
  <2> QED BY <2>1, <2>2
<1>2. /\ process = "up" /\ allowed[job] = 0 /\ AllowanceFor(job) >= Needed(job, pages)
      /\ allowed' = [allowed EXCEPT ![job] = pages]
      /\ UNCHANGED windowVars /\ UNCHANGED <<process, changed, writing, saved, failed, unasked>>
  BY DEF Asks, store
<1>3. /\ \A k \in Keys : Spent(k)' = Spent(k)
      /\ SpentInAll' = SpentInAll
      /\ StoredOf(saved, "mplusArchive")' = StoredOf(saved, "mplusArchive")
      /\ StoredInAll(saved)' = StoredInAll(saved)
      /\ StoredOf(writing, "mplusArchive")' = StoredOf(writing, "mplusArchive")
      /\ StoredInAll(writing)' = StoredInAll(writing)
  BY <1>2, SpentStays, StoredUntouched, MinuteConstants DEF windowVars
<1>4. CASE job = "mplus"
  <2>1. SpentInAll < MinuteUsable
    BY <1>1, <1>2, <1>4, MinuteConstants DEF AllowanceFor, Needed, MinuteNumbers
  <2>2. allowed'["mplus"] = pages /\ allowed'["mplusArchive"] = allowed["mplusArchive"]
    BY <1>1, <1>2, <1>4, MinuteConstants
  <2> QED BY <1>1, <1>2, <1>3, <2>1, <2>2, MinuteConstants, FitsInNumbers, FitsInNumbersNext
        DEF MinuteNumbers
<1>5. CASE job = "mplusArchive"
  <2>1. /\ SpentInAll + pages <= MinuteUsable
        /\ Spent("mplusArchive") + pages <= ArchiveShare
    BY <1>1, <1>2, <1>5, MinuteConstants DEF AllowanceFor, Needed, Less, MinuteNumbers
  <2>2. allowed'["mplusArchive"] = pages /\ allowed'["mplus"] = allowed["mplus"]
    BY <1>1, <1>2, <1>5, MinuteConstants
  <2> QED BY <1>1, <1>2, <1>3, <2>1, <2>2, MinuteConstants, FitsInNumbers, FitsInNumbersNext
        DEF MinuteNumbers
<1> QED BY <1>4, <1>5 DEF Rationed

(* Time passes: the ring and the store both count less.                      *)
LEMMA SecondFits ==
  ASSUME MinuteInv, MinuteInv', SharesFit, SecondPasses
  PROVE  SharesFit'
<1>1. /\ MinuteNumbers /\ MinuteNumbers' /\ clock \in 0 .. MaxClock
      /\ saved \in [0 .. MaxClock -> [Keys -> Nat]]
      /\ writing # NoWrite => writing \in [0 .. MaxClock -> [Keys -> Nat]]
  BY MinuteCounts, MinuteCountsNext, MinuteTypes, Zenon
  DEF MinuteInv, MinuteTyped, MinuteTypeOK, WindowTypeOK
<1>2. TimePasses /\ UNCHANGED <<process, allowed, writing, saved, unasked>>
  BY Zenon DEF SecondPasses, jobs, store
<1>3. Spent("mplusArchive")' <= Spent("mplusArchive") /\ SpentInAll' <= SpentInAll
  BY <1>2, SpentForgets, MinuteConstants
<1>4. /\ StoredOf(saved, "mplusArchive")' <= StoredOf(saved, "mplusArchive")
      /\ StoredInAll(saved)' <= StoredInAll(saved)
  <2>1. /\ StoredOf(saved, "mplusArchive")'
             = SumFunction([b \in FromWindow' |-> saved[b]["mplusArchive"]])
        /\ StoredInAll(saved)'
             = SumFunction([k \in Keys |-> SumFunction([b \in FromWindow' |-> saved[b][k]])])
    BY <1>2 DEF StoredOf, StoredInAll
  <2> QED BY <1>1, <1>2, <2>1, StoredForgets, MinuteConstants
<1>5. ASSUME writing # NoWrite
      PROVE  /\ StoredOf(writing, "mplusArchive")' <= StoredOf(writing, "mplusArchive")
             /\ StoredInAll(writing)' <= StoredInAll(writing)
  <2>1. /\ StoredOf(writing, "mplusArchive")'
             = SumFunction([b \in FromWindow' |-> writing[b]["mplusArchive"]])
        /\ StoredInAll(writing)'
             = SumFunction([k \in Keys |-> SumFunction([b \in FromWindow' |-> writing[b][k]])])
    BY <1>2 DEF StoredOf, StoredInAll
  <2> QED BY <1>1, <1>2, <1>5, <2>1, StoredForgets, MinuteConstants
<1>6. writing' # NoWrite =>
        StoredOf(writing, "mplusArchive")' \in Nat /\ StoredInAll(writing)' \in Nat
  BY <1>1 DEF MinuteNumbers
<1>7. /\ Spent("mplusArchive")' \in Nat /\ SpentInAll' \in Nat
      /\ StoredOf(saved, "mplusArchive")' \in Nat /\ StoredInAll(saved)' \in Nat
  BY <1>1, MinuteConstants DEF MinuteNumbers
<1>8. /\ unasked["mplusArchive"] \in Nat /\ SumFunction(unasked) \in Nat
      /\ allowed["mplus"] \in Nat /\ allowed["mplusArchive"] \in Nat
      /\ Spent("mplusArchive") \in Nat /\ SpentInAll \in Nat
      /\ StoredOf(saved, "mplusArchive") \in Nat /\ StoredInAll(saved) \in Nat
      /\ writing # NoWrite => StoredOf(writing, "mplusArchive") \in Nat /\ StoredInAll(writing) \in Nat
      /\ ArchiveShare \in Nat /\ MinuteUsable \in Nat /\ PageBatch \in Nat
  BY <1>1, MinuteConstants DEF MinuteNumbers
<1>9. /\ unasked' = unasked /\ allowed' = allowed /\ writing' = writing /\ process' = process
  BY <1>2
<1>10. /\ Spent("mplusArchive")' + allowed'["mplusArchive"] <= ArchiveShare + unasked'["mplusArchive"]
       /\ SpentInAll' + allowed'["mplus"] + allowed'["mplusArchive"]
            < MinuteUsable + 2 * PageBatch + SumFunction(unasked')
       /\ StoredOf(saved, "mplusArchive")' <= ArchiveShare + unasked'["mplusArchive"]
       /\ StoredInAll(saved)' < MinuteUsable + 2 * PageBatch + SumFunction(unasked')
  BY <1>3, <1>4, <1>7, <1>8, <1>9, FitsInNumbers
<1>11. writing' # NoWrite =>
        /\ StoredOf(writing, "mplusArchive")' <= ArchiveShare + unasked'["mplusArchive"]
        /\ StoredInAll(writing)' < MinuteUsable + 2 * PageBatch + SumFunction(unasked')
  BY <1>5, <1>6, <1>8, <1>9, FitsInNumbers
<1>12. process' # "up" =>
         /\ allowed' = NobodyAllowed
         /\ Spent("mplusArchive")' + StoredOf(saved, "mplusArchive")'
              <= ArchiveShare + unasked'["mplusArchive"]
         /\ SpentInAll' + StoredInAll(saved)'
              < MinuteUsable + 2 * PageBatch + SumFunction(unasked')
  BY <1>3, <1>4, <1>7, <1>8, <1>9, FitsInNumbers
<1> QED BY <1>10, <1>11, <1>12, FitsInNumbersNext

(* The store takes what the window counts, or keeps what it has.             *)
LEMMA SaveFits ==
  ASSUME MinuteInv, SharesFit, Flush \/ WriteEnds
  PROVE  SharesFit'
<1>1. /\ MinuteNumbers /\ WindowTypeOK /\ OwnSlots /\ RestoreAddsUp
  BY MinuteCounts, HeldIsOwn DEF MinuteInv, MinuteTypeOK
<1>2. UNCHANGED windowVars /\ UNCHANGED <<process, allowed, unasked>>
  BY Zenon DEF Flush, WriteEnds, jobs
<1>3. /\ Spent("mplusArchive")' = Spent("mplusArchive") /\ SpentInAll' = SpentInAll
      /\ clock' = clock
  BY <1>2, SpentStays, MinuteConstants DEF windowVars
<1>4. CASE Flush
  <2>1. process = "up" /\ writing' = Snapshot /\ saved' = saved
    BY <1>4 DEF Flush, Taken
  <2>2. /\ StoredOf(saved, "mplusArchive")' = StoredOf(saved, "mplusArchive")
        /\ StoredInAll(saved)' = StoredInAll(saved)
    BY <1>3, <2>1, StoredUntouched, MinuteConstants
  <2>3. /\ StoredOf(writing, "mplusArchive")' = StoredOf(Snapshot, "mplusArchive")
        /\ StoredInAll(writing)' = StoredInAll(Snapshot)
    BY <1>3, <2>1 DEF StoredOf, StoredInAll, FromWindow
  <2>4. /\ StoredOf(Snapshot, "mplusArchive") <= Spent("mplusArchive")
        /\ StoredInAll(Snapshot) <= SpentInAll
    BY <1>1, SnapshotFits, MinuteConstants
  <2>5. StoredOf(Snapshot, "mplusArchive") \in Nat /\ StoredInAll(Snapshot) \in Nat
    <3>1. \A b \in 0 .. MaxClock : b \in Nat
      OBVIOUS
    <3>2. \A b \in 0 .. MaxClock : BucketAt(b) \in [Keys -> Nat]
      BY <1>1, <3>1, SlotOfIsSlot DEF WindowTypeOK, BucketAt, NoCounts
    <3>3. Snapshot \in [0 .. MaxClock -> [Keys -> Nat]]
      BY <3>2 DEF Snapshot, NoCounts
    <3> QED BY <3>3, StoredIsNat, MinuteConstants
  <2> QED BY <1>1, <1>2, <1>3, <2>1, <2>2, <2>3, <2>4, <2>5, MinuteConstants, FitsInNumbers,
             FitsInNumbersNext DEF MinuteNumbers
<1>5. CASE WriteEnds
  <2>1. writing # NoWrite /\ writing' = NoWrite /\ (saved' = writing \/ saved' = saved)
    BY <1>5 DEF WriteEnds
  <2>2. process = "up"
    BY <1>1, <2>1 DEF RestoreAddsUp
  <2>3. CASE saved' = writing
    <3>1. /\ StoredOf(saved, "mplusArchive")' = StoredOf(writing, "mplusArchive")
          /\ StoredInAll(saved)' = StoredInAll(writing)
      BY <1>3, <2>3, StoredUntouched, MinuteConstants
    <3> QED BY <1>1, <1>2, <1>3, <2>1, <2>2, <3>1, FitsInNumbers, FitsInNumbersNext
  <2>4. CASE saved' = saved
    <3>1. /\ StoredOf(saved, "mplusArchive")' = StoredOf(saved, "mplusArchive")
          /\ StoredInAll(saved)' = StoredInAll(saved)
      BY <1>3, <2>4, StoredUntouched, MinuteConstants
    <3> QED BY <1>1, <1>2, <1>3, <2>1, <2>2, <3>1, FitsInNumbers, FitsInNumbersNext
  <2> QED BY <2>1, <2>3, <2>4
<1> QED BY <1>4, <1>5

(* A process that stops counts nothing, and leaves a document that fits.     *)
LEMMA StopFits ==
  ASSUME MinuteInv, MinuteInv', SharesFit, Stops
  PROVE  SharesFit'
<1>1. MinuteNumbers /\ MinuteNumbers'
  BY MinuteCounts, MinuteCountsNext
<1>2. /\ process' = "down" /\ writing' = NoWrite /\ allowed' = NobodyAllowed
      /\ saved' = saved \/ (writing # NoWrite /\ saved' = writing)
      /\ ring' = [s \in Slot |-> [index |-> Never, counts |-> NoCounts]]
      /\ clock' = clock /\ unasked' = unasked
  BY DEF Stops
<1>3. \A k \in Keys : Spent(k)' = 0
  <2>1. clock \in Nat
    BY ClockIsNat DEF MinuteInv, MinuteTypeOK, WindowTypeOK
  <2>2. {t \in Slot : InWindow(ring'[t].index)} = {}
    BY <1>2, <2>1, WindowAssumption DEF InWindow, Never
  <2>3. ASSUME NEW k \in Keys PROVE Spent(k)' = 0
    <3> DEFINE f == [s \in {t \in Slot : InWindow(ring'[t].index)} |-> ring'[s].counts[k]]
    <3>1. Spent(k)' = SumFunction(f)
      BY <1>2 DEF Spent, Slot, Slots, InWindow
    <3>2. f \in [{} -> Int] /\ IsFiniteSet({})
      BY <2>2, FS_EmptySet
    <3> HIDE DEF f
    <3>3. SumFunction(f) = 0
      BY <3>2, SumOfZeros
    <3> QED BY <3>1, <3>3
  <2> QED BY <2>3
<1>4. SpentInAll' = 0
  <2> DEFINE f == [k \in Keys |-> 0]
  <2>1. SpentInAll' = SumFunction(f)
    BY <1>3 DEF SpentInAll
  <2>2. f \in [Keys -> Int] /\ \A k \in Keys : f[k] = 0
    OBVIOUS
  <2> HIDE DEF f
  <2>3. SumFunction(f) = 0
    BY <2>2, MinuteConstants, SumOfZeros
  <2> QED BY <2>1, <2>3
<1>5. CASE saved' = saved
  <2>1. /\ StoredOf(saved, "mplusArchive")' = StoredOf(saved, "mplusArchive")
        /\ StoredInAll(saved)' = StoredInAll(saved)
    BY <1>2, <1>5, StoredUntouched, MinuteConstants
  <2> QED BY <1>1, <1>2, <1>3, <1>4, <2>1, MinuteConstants, FitsInNumbers, FitsInNumbersNext
        DEF MinuteNumbers
<1>6. CASE writing # NoWrite /\ saved' = writing
  <2>1. /\ StoredOf(saved, "mplusArchive")' = StoredOf(writing, "mplusArchive")
        /\ StoredInAll(saved)' = StoredInAll(writing)
    BY <1>2, <1>6, StoredUntouched, MinuteConstants
  <2> QED BY <1>1, <1>2, <1>3, <1>4, <1>6, <2>1, MinuteConstants, FitsInNumbers, FitsInNumbersNext
        DEF MinuteNumbers
<1> QED BY <1>2, <1>5, <1>6

(* What is restored was set aside for it.                                    *)
LEMMA RestoreFits ==
  ASSUME MinuteInv, MinuteInv', SharesFit, Restore
  PROVE  SharesFit'
<1>1. MinuteNumbers /\ MinuteNumbers'
  BY MinuteCounts, MinuteCountsNext
<1>2. /\ process = "booting" /\ process' = "up" /\ clock' = clock
      /\ UNCHANGED <<allowed, writing, saved, unasked>>
  BY DEF Restore, jobs, store
<1>3. /\ Spent("mplusArchive")' <= Spent("mplusArchive") + StoredOf(saved, "mplusArchive")
      /\ SpentInAll' <= SpentInAll + StoredInAll(saved)
  BY RestoreSpends, MinuteConstants
<1>4. /\ StoredOf(saved, "mplusArchive")' = StoredOf(saved, "mplusArchive")
      /\ StoredInAll(saved)' = StoredInAll(saved)
      /\ StoredOf(writing, "mplusArchive")' = StoredOf(writing, "mplusArchive")
      /\ StoredInAll(writing)' = StoredInAll(writing)
  BY <1>2, StoredUntouched, MinuteConstants
<1>5. allowed["mplus"] = 0 /\ allowed["mplusArchive"] = 0
  BY <1>2, MinuteConstants, FitsInNumbers
<1>6. Spent("mplusArchive")' \in Nat /\ SpentInAll' \in Nat
  BY <1>1, MinuteConstants DEF MinuteNumbers
<1> QED BY <1>1, <1>2, <1>3, <1>4, <1>5, <1>6, MinuteConstants, FitsInNumbers, FitsInNumbersNext
      DEF MinuteNumbers

(* Nothing that the bounds compare changes.                                  *)
LEMMA RestFits ==
  ASSUME SharesFit, UNCHANGED <<windowVars, allowed, writing, saved, unasked>>,
         process' = process \/ (process = "down" /\ process' = "booting")
  PROVE  SharesFit'
<1>1. clock' = clock /\ UNCHANGED windowVars /\ UNCHANGED <<allowed, writing, saved, unasked>>
  BY DEF windowVars
<1>2. /\ Spent("mplusArchive")' = Spent("mplusArchive") /\ SpentInAll' = SpentInAll
      /\ StoredOf(saved, "mplusArchive")' = StoredOf(saved, "mplusArchive")
      /\ StoredInAll(saved)' = StoredInAll(saved)
      /\ StoredOf(writing, "mplusArchive")' = StoredOf(writing, "mplusArchive")
      /\ StoredInAll(writing)' = StoredInAll(writing)
  BY <1>1, SpentStays, StoredUntouched, MinuteConstants
<1> QED BY <1>1, <1>2, FitsInNumbers, FitsInNumbersNext

LEMMA FitsNext ==
  ASSUME MinuteInv, MinuteInv', SharesFit, [MinuteNext]_minuteVars
  PROVE  SharesFit'
<1>1. CASE SecondPasses
  BY <1>1, SecondFits
<1>2. CASE PassTurns
  BY <1>2, RestFits DEF PassTurns, store
<1>3. CASE Flush \/ WriteEnds
  BY <1>3, SaveFits
<1>4. CASE Stops
  BY <1>4, StopFits
<1>5. CASE Boots
  BY <1>5, RestFits DEF Boots, jobs, store
<1>6. CASE Restore
  BY <1>6, RestoreFits
<1>7. ASSUME NEW job \in Rationed, Requests(job) PROVE SharesFit'
  <2>1. job \in Keys /\ Charge(job)
    BY <1>7, MinuteAssumption DEF Requests
  <2> QED BY <1>7, <2>1, ChargeFits
<1>8. ASSUME NEW job \in Rationed, NEW pages \in 1 .. PageBatch, Asks(job, pages) PROVE SharesFit'
  BY <1>8, AskFits
<1>9. ASSUME NEW k \in Keys, Unasked(k) PROVE SharesFit'
  <2>1. Charge(k)
    BY <1>9 DEF Unasked
  <2> QED BY <1>9, <2>1, ChargeFits
<1>10. CASE UNCHANGED minuteVars
  <2>1. UNCHANGED <<windowVars, allowed, writing, saved, unasked, process>>
    BY <1>10, Zenon DEF minuteVars, jobs, store
  <2> QED BY <2>1, RestFits
<1> QED BY <1>1, <1>2, <1>3, <1>4, <1>5, <1>6, <1>7, <1>8, <1>9, <1>10, Zenon DEF MinuteNext

(* Nothing is counted, stored or allowed at first.                           *)
LEMMA FitsInit == MinuteInit => SharesFit
<1> SUFFICES ASSUME MinuteInit PROVE SharesFit
  OBVIOUS
<1>1. /\ writing = NoWrite /\ allowed = NobodyAllowed
      /\ saved = NoBuckets /\ unasked = [k \in Keys |-> 0]
      /\ ring = [s \in Slot |-> [index |-> Never, counts |-> NoCounts]] /\ clock = 0
  BY DEF MinuteInit, WindowInit
<1>3. \A k \in Keys : Spent(k) = 0
  <2>1. ASSUME NEW k \in Keys PROVE Spent(k) = 0
    <3> DEFINE f == [s \in Counted |-> ring[s].counts[k]]
    <3>1. \A s \in Counted : ring[s].counts[k] = 0
      BY <1>1 DEF Counted, NoCounts
    <3>2. f \in [Counted -> Int] /\ \A s \in Counted : f[s] = 0
      BY <3>1
    <3>3. Spent(k) = SumFunction(f)
      BY DEF Spent, Counted
    <3> HIDE DEF f
    <3> QED BY <3>2, <3>3, CountedIsFinite, SumOfZeros
  <2> QED BY <2>1
<1>4. \A k \in Keys : StoredOf(saved, k) = 0
  <2>1. ASSUME NEW k \in Keys PROVE StoredOf(saved, k) = 0
    <3> DEFINE f == [b \in FromWindow |-> saved[b][k]]
    <3>1. f \in [FromWindow -> Int] /\ \A b \in FromWindow : f[b] = 0
      BY <1>1 DEF FromWindow, NoBuckets, NoCounts
    <3>2. StoredOf(saved, k) = SumFunction(f)
      BY DEF StoredOf
    <3> HIDE DEF f
    <3> QED BY <3>1, <3>2, FromWindowIsFinite, SumOfZeros
  <2> QED BY <2>1
<1>5. SpentInAll = 0 /\ StoredInAll(saved) = 0 /\ SumFunction(unasked) = 0
  <2> DEFINE f == [k \in Keys |-> 0]
  <2>1. SpentInAll = SumFunction(f) /\ StoredInAll(saved) = SumFunction(f) /\ unasked = f
    BY <1>1, <1>3, <1>4 DEF SpentInAll, StoredInAll
  <2>2. f \in [Keys -> Int] /\ \A k \in Keys : f[k] = 0
    OBVIOUS
  <2> HIDE DEF f
  <2>3. SumFunction(f) = 0
    BY <2>2, MinuteConstants, SumOfZeros
  <2> QED BY <2>1, <2>3
<1>6. unasked["mplusArchive"] = 0
  BY <1>1, MinuteConstants
<1> QED BY <1>1, <1>3, <1>4, <1>5, <1>6, MinuteConstants, FitsInNumbers

(* The archive keeps to its share of any minute and the minute is passed by  *)
(* no more than two batches and what nobody asked for, restarts, failed      *)
(* writes and lost documents included (raiderio-budget.service.ts:196-207).  *)
THEOREM MinuteIsHeld == MinuteSpec => []MinuteHeld
<1>1. SharesFit => MinuteHeld
  BY DEF SharesFit
<1> QED BY <1>1, FitsInit, FitsNext, MinuteInitInv, MinuteNextInv, PTL DEF MinuteSpec

=============================================================================
