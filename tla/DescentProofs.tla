--------------------------- MODULE DescentProofs ---------------------------
(***************************************************************************)
(* What the operators of Descent return, for every denominator, floor,     *)
(* learning rate and precision that the assumption allows.                 *)
(***************************************************************************)
EXTENDS Descent, SequenceTheorems, FiniteSetTheorems, TLAPS

(* An injective listing of a finite set by its cardinality lists all of it. *)
LEMMA ListingIsOnto ==
  ASSUME NEW S, IsFiniteSet(S), NEW s \in [1..Cardinality(S) -> S], IsInjective(s)
  PROVE  \A x \in S : \E i \in DOMAIN s : s[i] = x
<1>1. Cardinality(S) \in Nat
  BY FS_CardinalityType
<1>2. Cardinality(1..Cardinality(S)) = Cardinality(S)
  BY <1>1, FS_Interval
<1>3. s \in Injection(1..Cardinality(S), S)
  BY DEF Injection
<1>4. s \in Surjection(1..Cardinality(S), S)
  BY <1>2, <1>3, FS_Injection
<1> QED BY <1>4 DEF Surjection

(* The cardinality of 1..n. *)
LEMMA IntervalCardinality ==
  ASSUME NEW n \in Nat
  PROVE  IsFiniteSet(1..n) /\ Cardinality(1..n) = n
<1>1. 1 \in Int /\ n \in Int
  OBVIOUS
<1>2. IsFiniteSet(1..n) /\ Cardinality(1..n) = IF 1 > n THEN 0 ELSE n - 1 + 1
  BY <1>1, FS_Interval
<1> QED BY <1>2

(* A list of at most four integers has an integer sum. *)
LEMMA SumType ==
  ASSUME NEW s, \A i \in DOMAIN s : s[i] \in Int
  PROVE  Sum(s) \in Int
BY DEF Sum, At

---------------------------------------------------------------------------
(* FibEntry::new: the sort moves the slots, and neither loses nor repeats   *)
(* one.                                                                     *)
LEMMA SortIsBijection ==
  ASSUME NEW n \in Nat, NEW weighted,
         DOMAIN weighted = 1..n,
         \A i \in 1..n : weighted[i].nexthop \in Int
  PROVE  \A k \in 1..n : \E i \in 1..n : Cardinality(Before(weighted, i)) = k
<1> DEFINE rank == [i \in 1..n |-> Cardinality(Before(weighted, i))]
<1>0. IsFiniteSet(1..n) /\ Cardinality(1..n) = n
  BY IntervalCardinality
<1>1. ASSUME NEW i \in 1..n
      PROVE  /\ Before(weighted, i) \in SUBSET (1..n)
             /\ i \in Before(weighted, i)
             /\ IsFiniteSet(Before(weighted, i))
  <2>1. Before(weighted, i) \in SUBSET (1..n) /\ i \in Before(weighted, i)
    BY DEF Before
  <2> QED BY <2>1, <1>0, FS_Subset
<1>2. ASSUME NEW i \in 1..n
      PROVE  rank[i] \in 1..n
  <2>1. Cardinality(Before(weighted, i)) <= n
    BY <1>0, <1>1, FS_Subset
  <2>2. Cardinality(Before(weighted, i)) \in Nat
    BY <1>1, FS_CardinalityType
  <2>3. Cardinality(Before(weighted, i)) # 0
    BY <1>1, FS_EmptySet
  <2> QED BY <2>1, <2>2, <2>3
<1>3. ASSUME NEW i \in 1..n, NEW j \in 1..n, rank[i] = rank[j]
      PROVE  i = j
  <2>1. Cardinality(Before(weighted, i)) = Cardinality(Before(weighted, j))
    BY <1>3
  <2>2. weighted[i].nexthop \in Int /\ weighted[j].nexthop \in Int
    OBVIOUS
  <2>3. CASE j \in Before(weighted, i)
    <3>1. Before(weighted, j) \in SUBSET Before(weighted, i)
      BY <2>2, <2>3 DEF Before
    <3>2. Before(weighted, j) = Before(weighted, i)
      BY <1>1, <2>1, <3>1, FS_Subset
    <3>3. i \in Before(weighted, j)
      BY <1>1, <3>2
    <3> QED BY <2>2, <2>3, <3>3 DEF Before
  <2>4. CASE i \in Before(weighted, j)
    <3>1. Before(weighted, i) \in SUBSET Before(weighted, j)
      BY <2>2, <2>4 DEF Before
    <3>2. Before(weighted, i) = Before(weighted, j)
      BY <1>1, <2>1, <3>1, FS_Subset
    <3>3. j \in Before(weighted, i)
      BY <1>1, <3>2
    <3> QED BY <2>2, <2>4, <3>3 DEF Before
  <2> QED BY <2>2, <2>3, <2>4 DEF Before
<1>4. rank \in Injection(1..n, 1..n)
  <2>1. rank \in [1..n -> 1..n]
    BY <1>2
  <2>2. IsInjective(rank)
    BY <1>3 DEF IsInjective
  <2> QED BY <2>1, <2>2 DEF Injection
<1>5. rank \in Surjection(1..n, 1..n)
  <2> HIDE DEF rank
  <2> QED BY <1>0, <1>4, FS_Injection
<1> QED BY <1>5 DEF Surjection

(* So the entry has the length and the slots of the list, in particular its *)
(* nexthops.                                                                *)
LEMMA FibEntryProperties ==
  ASSUME NEW T, NEW weighted \in Seq(T),
         \A i \in DOMAIN weighted : weighted[i].nexthop \in Int
  PROVE  /\ FibEntry(weighted) \in Seq(T)
         /\ Len(FibEntry(weighted)) = Len(weighted)
         /\ NexthopsOf(FibEntry(weighted)) = NexthopsOf(weighted)
<1> DEFINE n == Len(weighted)
           slot(k) == CHOOSE i \in DOMAIN weighted : Cardinality(Before(weighted, i)) = k
           entry == [k \in DOMAIN weighted |-> weighted[slot(k)]]
<1>1. n \in Nat /\ DOMAIN weighted = 1..n
  OBVIOUS
<1>2. \A k \in 1..n : \E i \in 1..n : Cardinality(Before(weighted, i)) = k
  BY <1>1, SortIsBijection
<1>3. ASSUME NEW k \in 1..n
      PROVE  slot(k) \in 1..n /\ Cardinality(Before(weighted, slot(k))) = k
  BY <1>1, <1>2
<1>4. FibEntry(weighted) = entry
  BY DEF FibEntry
<1>5. \A k \in 1..n : weighted[k] \in T
  BY <1>1
<1>6. entry \in Seq(T) /\ Len(entry) = n
  BY <1>1, <1>3, <1>5, IsASeq
<1>7. NexthopsOf(entry) \subseteq NexthopsOf(weighted)
  BY <1>1, <1>3 DEF NexthopsOf
<1>8. ASSUME NEW i \in 1..n
      PROVE  weighted[i].nexthop \in NexthopsOf(entry)
  <2>1. \E k \in 1..n : slot(k) = i
    <3> DEFINE place == [k \in 1..n |-> slot(k)]
    <3>1. place \in [1..n -> 1..n]
      BY <1>3
    <3>2. IsInjective(place)
      BY <1>3 DEF IsInjective
    <3>3. IsFiniteSet(1..n) /\ Cardinality(1..n) = n
      BY <1>1, IntervalCardinality
    <3>4. \A x \in 1..n : \E k \in DOMAIN place : place[k] = x
      <4>1. place \in [1..Cardinality(1..n) -> 1..n]
        BY <3>1, <3>3
      <4> HIDE DEF place, n
      <4> QED BY <3>2, <3>3, <4>1, ListingIsOnto
    <3> QED BY <3>4
  <2> QED BY <1>1, <2>1 DEF NexthopsOf
<1>9. NexthopsOf(weighted) \subseteq NexthopsOf(entry)
  BY <1>1, <1>8, ZenonT(60) DEF NexthopsOf
<1> QED BY <1>4, <1>6, <1>7, <1>9

---------------------------------------------------------------------------
(* A HashMap from at most MAX_NEXTHOPS nexthops of N to numbers. *)
WeightMap(w, N) ==
  /\ IsFiniteSet(DOMAIN w) /\ Cardinality(DOMAIN w) <= MAX_NEXTHOPS
  /\ DOMAIN w \subseteq N
  /\ \A nh \in DOMAIN w : w[nh] \in Int

(* The nexthops of a list, and how many there are. *)
LEMMA RangeCardinality ==
  ASSUME NEW N, NEW nhs \in Seq(N)
  PROVE  /\ IsFiniteSet(Range(nhs)) /\ Cardinality(Range(nhs)) <= Len(nhs)
         /\ Range(nhs) \subseteq N
         /\ IsInjective(nhs) => Cardinality(Range(nhs)) = Len(nhs)
<1> DEFINE n == Len(nhs)
           R == Range(nhs)
<1>1. n \in Nat /\ DOMAIN nhs = 1..n /\ \A i \in 1..n : nhs[i] \in N
  OBVIOUS
<1>2. nhs \in Surjection(1..n, R) /\ R \subseteq N
  BY <1>1 DEF Surjection, Range
<1>3. IsInjective(nhs) => nhs \in Injection(1..n, R)
  BY <1>1, <1>2 DEF Injection, Surjection
<1>4. IsFiniteSet(1..n) /\ Cardinality(1..n) = n
  BY <1>1, IntervalCardinality
<1> HIDE DEF n, R
<1>5. /\ IsFiniteSet(R) /\ Cardinality(R) <= Cardinality(1..n)
      /\ Cardinality(R) = Cardinality(1..n) <=> nhs \in Injection(1..n, R)
  BY <1>2, <1>4, FS_Surjection
<1> QED BY <1>2, <1>3, <1>4, <1>5 DEF n, R

(* One and MINIMUM_WEIGHT are natural numbers. *)
LEMMA UnitTypes == One \in Nat /\ MINIMUM_WEIGHT \in Nat
<1>1. One \in Nat
  BY DescentAssumption DEF One
<1> QED BY <1>1, DescentAssumption DEF MINIMUM_WEIGHT

(* reconcile: after it the map covers the nexthops; and it has no other key *)
(* when the nexthops are distinct.                                          *)
LEMMA ReconcileProperties ==
  ASSUME NEW N, NEW w, WeightMap(w, N),
         NEW nhs \in Seq(N), Len(nhs) \in 1..MAX_NEXTHOPS
  PROVE  /\ WeightMap(reconcile(w, nhs), N)
         /\ IsInjective(nhs) => DOMAIN reconcile(w, nhs) = Range(nhs)
<1> DEFINE v == reconcile(w, nhs)
<1>0. /\ IsFiniteSet(Range(nhs)) /\ Cardinality(Range(nhs)) <= Len(nhs)
      /\ Range(nhs) \subseteq N
      /\ IsInjective(nhs) => Cardinality(Range(nhs)) = Len(nhs)
  BY RangeCardinality
<1>1. CASE \/ Cardinality(DOMAIN w) # Len(nhs)
           \/ \E i \in DOMAIN nhs : nhs[i] \notin DOMAIN w
  <2>1. v = [nh \in Range(nhs) |-> One \div Len(nhs)]
    BY <1>1 DEF reconcile
  <2>2. One \div Len(nhs) \in Int
    BY UnitTypes, DescentAssumption
  <2>3. Cardinality(Range(nhs)) <= MAX_NEXTHOPS
    BY <1>0, DescentAssumption, FS_CardinalityType
  <2> QED BY <1>0, <2>1, <2>2, <2>3 DEF WeightMap
<1>2. CASE /\ Cardinality(DOMAIN w) = Len(nhs)
           /\ \A i \in DOMAIN nhs : nhs[i] \in DOMAIN w
  <2>1. v = w
    BY <1>2 DEF reconcile
  <2>2. Range(nhs) \in SUBSET DOMAIN w
    BY <1>2 DEF Range
  <2>3. IsInjective(nhs) => Range(nhs) = DOMAIN w
    BY <1>0, <1>2, <2>2, FS_Subset DEF WeightMap
  <2> QED BY <2>1, <2>3
<1> QED BY <1>1, <1>2

Windows(ws) ==
  \A nh \in DOMAIN ws : ws[nh].avg_srtt_us \in Nat /\ ws[nh].min_rtt_min \in Nat

(* The gradient step moves the weights and keeps the keys. *)
LEMMA DescendProperties ==
  ASSUME NEW N, NEW w, WeightMap(w, N), NEW nhs \in Seq(N), NEW ws, Windows(ws)
  PROVE  /\ WeightMap(descend(w, nhs, ws), N)
         /\ DOMAIN descend(w, nhs, ws) = DOMAIN w
<1>1. DOMAIN descend(w, nhs, ws) = DOMAIN w
  BY DEF descend
<1>2. ASSUME NEW nh \in DOMAIN w
      PROVE  descend(w, nhs, ws)[nh] \in Int
  <2> DEFINE times == Cardinality({i \in DOMAIN nhs : nhs[i] = nh})
             cost == (gradient(ws[nh]) * One) \div RateInverse
  <2>1. times \in Nat
    <3>1. Len(nhs) \in Nat /\ DOMAIN nhs = 1..Len(nhs)
      OBVIOUS
    <3>2. IsFiniteSet(1..Len(nhs))
      BY <3>1, IntervalCardinality
    <3>3. {i \in DOMAIN nhs : nhs[i] = nh} \in SUBSET (1..Len(nhs))
      BY <3>1
    <3>4. IsFiniteSet({i \in DOMAIN nhs : nhs[i] = nh})
      BY <3>2, <3>3, FS_Subset
    <3> QED BY <3>4, FS_CardinalityType
  <2>2. nh \in DOMAIN ws => gradient(ws[nh]) \in Int
    BY DEF Windows, gradient, Positive
  <2>3. nh \in DOMAIN ws => cost \in Int
    <3>1. nh \in DOMAIN ws => gradient(ws[nh]) * One \in Int
      BY <2>2, UnitTypes
    <3> QED BY <3>1, DescentAssumption
  <2>4. nh \in DOMAIN ws => times * cost \in Int
    <3> HIDE DEF times, cost
    <3> QED BY <2>1, <2>3
  <2>5. descend(w, nhs, ws)[nh] = IF nh \notin Range(nhs) THEN w[nh]
                                  ELSE IF nh \in DOMAIN ws THEN w[nh] - times * cost
                                  ELSE MINIMUM_WEIGHT
    BY DEF descend
  <2> HIDE DEF times, cost
  <2>6. w[nh] \in Int
    BY DEF WeightMap
  <2> QED BY <2>4, <2>5, <2>6, UnitTypes
<1> QED BY <1>1, <1>2 DEF WeightMap

(* A non-empty set of at most four positions has a last one. *)
LEMMA LastPosition ==
  ASSUME NEW S \in SUBSET (1..4), S # {}
  PROVE  \E k \in S : \A j \in S : j <= k
<1>0. \A j \in S : j \in {1, 2, 3, 4}
  OBVIOUS
<1>1. CASE 4 \in S
  BY <1>0, <1>1
<1>2. CASE 4 \notin S /\ 3 \in S
  BY <1>0, <1>2
<1>3. CASE 4 \notin S /\ 3 \notin S /\ 2 \in S
  BY <1>0, <1>3
<1>4. CASE 4 \notin S /\ 3 \notin S /\ 2 \notin S
  <2>1. \A j \in S : j = 1
    BY <1>0, <1>4
  <2>2. PICK j \in S : TRUE
    OBVIOUS
  <2> QED BY <2>1, <2>2
<1> QED BY <1>1, <1>2, <1>3, <1>4

(* project's threshold is a number, whichever candidate is the last. *)
LEMMA ThresholdType ==
  ASSUME NEW n \in 0..4, NEW v, DOMAIN v = 1..n, \A i \in 1..n : v[i] \in Int,
         NEW r \in Int, NEW round \in {0, 1}
  PROVE  threshold(v, r, round) \in Int
<1>1. ASSUME NEW k \in 1..n
      PROVE  candidate(v, r, round, k) \in Int
  <2> DEFINE prefix == [i \in 1..k |-> v[i]]
  <2>1. \A i \in DOMAIN prefix : prefix[i] \in Int
    OBVIOUS
  <2>2. Sum(prefix) \in Int
    BY <2>1, SumType
  <2> HIDE DEF prefix
  <2>3. round * (k - 1) \in Int
    OBVIOUS
  <2>4. Sum(prefix) - r + round * (k - 1) \in Int
    BY <2>2, <2>3
  <2>5. (Sum(prefix) - r + round * (k - 1)) \div k \in Int
    BY <2>4
  <2> QED BY <2>5 DEF candidate, prefix
<1>2. survivors(v, r, round) \in SUBSET (1..n)
  BY DEF survivors
<1>3. CASE survivors(v, r, round) = {}
  BY <1>3 DEF threshold
<1>4. CASE survivors(v, r, round) # {}
  <2>1. survivors(v, r, round) \in SUBSET (1..4)
    BY <1>2
  <2>2. \E k \in survivors(v, r, round) : \A j \in survivors(v, r, round) : j <= k
    BY <1>4, <2>1, LastPosition
  <2> DEFINE last == CHOOSE k \in survivors(v, r, round) :
                       \A j \in survivors(v, r, round) : j <= k
  <2>3. last \in 1..n
    BY <1>2, <2>2
  <2>4. threshold(v, r, round) = candidate(v, r, round, last)
    BY <1>4 DEF threshold
  <2> HIDE DEF last
  <2> QED BY <1>1, <2>3, <2>4
<1> QED BY <1>3, <1>4

(* project keeps the keys and leaves no weight below the floor. *)
LEMMA ProjectProperties ==
  ASSUME NEW N, NEW w, WeightMap(w, N),
         NEW order \in DescendingOrders(DOMAIN w, w), NEW round \in {0, 1}
  PROVE  /\ WeightMap(project(w, order, round), N)
         /\ DOMAIN project(w, order, round) = DOMAIN w
         /\ \A nh \in DOMAIN w : project(w, order, round)[nh] >= MINIMUM_WEIGHT
<1> DEFINE n == Cardinality(DOMAIN w)
           v == [i \in DOMAIN order |-> w[order[i]] - MINIMUM_WEIGHT]
           r == One - Len(order) * MINIMUM_WEIGHT
           tau == threshold(v, r, round)
<1>1. n \in 0..4
  BY DescentAssumption, FS_CardinalityType DEF WeightMap
<1>2. order \in [1..n -> DOMAIN w] /\ DOMAIN order = 1..n
  BY DEF DescendingOrders
<1>3. Len(order) = n
  BY <1>1, <1>2
<1>4. r \in Int
  BY <1>1, <1>3, UnitTypes
<1>5. DOMAIN v = 1..n /\ \A i \in 1..n : v[i] \in Int
  BY <1>2, UnitTypes DEF WeightMap
<1>6. tau \in Int
  <2> HIDE DEF v, r, n
  <2> QED BY <1>1, <1>4, <1>5, ThresholdType
<1>7. project(w, order, round) =
        [nh \in DOMAIN w |-> Positive(w[nh] - MINIMUM_WEIGHT - tau) + MINIMUM_WEIGHT]
  BY DEF project
<1> HIDE DEF tau
<1>8. ASSUME NEW nh \in DOMAIN w
      PROVE  /\ project(w, order, round)[nh] \in Int
             /\ project(w, order, round)[nh] >= MINIMUM_WEIGHT
  BY <1>6, <1>7, UnitTypes DEF WeightMap, Positive
<1>9. DOMAIN project(w, order, round) = DOMAIN w
  BY <1>7
<1> QED BY <1>8, <1>9 DEF WeightMap

(* One tick of the descent for an NLRI with at most MAX_NEXTHOPS nexthops:  *)
(* no weight is below the floor, and the weights are those of exactly the   *)
(* nexthops where these are distinct.                                       *)
LEMMA StepProperties ==
  ASSUME NEW N, NEW w, WeightMap(w, N),
         NEW nhs \in Seq(N), Len(nhs) \in 1..MAX_NEXTHOPS,
         NEW ws, Windows(ws), NEW x \in step(w, nhs, ws)
  PROVE  /\ WeightMap(x, N)
         /\ \A nh \in DOMAIN x : x[nh] >= MINIMUM_WEIGHT
         /\ IsInjective(nhs) => DOMAIN x = Range(nhs)
<1> DEFINE start == reconcile(w, nhs)
           moved == descend(start, nhs, ws)
<1>1. WeightMap(start, N) /\ (IsInjective(nhs) => DOMAIN start = Range(nhs))
  BY ReconcileProperties
<1> HIDE DEF start
<1>2. WeightMap(moved, N) /\ DOMAIN moved = DOMAIN start
  BY <1>1, DescendProperties
<1>3. PICK order \in DescendingOrders(DOMAIN moved, moved), round \in {0, 1} :
        x = project(moved, order, round)
  BY DEF step, start
<1> HIDE DEF moved
<1>4. /\ WeightMap(project(moved, order, round), N)
      /\ DOMAIN project(moved, order, round) = DOMAIN moved
      /\ \A nh \in DOMAIN moved : project(moved, order, round)[nh] >= MINIMUM_WEIGHT
  BY <1>2, ProjectProperties
<1> QED BY <1>1, <1>2, <1>3, <1>4

Slot(N) == [nexthop : N, weight : Nat]

(* quantise turns a projected map into slots for exactly its nexthops. *)
LEMMA QuantiseProperties ==
  ASSUME NEW N, NEW w, WeightMap(w, N),
         \A nh \in DOMAIN w : w[nh] >= MINIMUM_WEIGHT,
         NEW weighted \in quantise(w)
  PROVE  /\ weighted \in Seq(Slot(N))
         /\ NexthopsOf(weighted) = DOMAIN w
<1> DEFINE n == Cardinality(DOMAIN w)
           key == [nh \in DOMAIN w |-> w[nh] % Precision]
           floor(order) == [i \in DOMAIN order |-> w[order[i]] \div Precision]
           extra(order, i) ==
             IF i <= (WEIGHT_DENOMINATOR - Sum(floor(order))) % U16 THEN 1 ELSE 0
<1>1. PICK order \in DescendingOrders(DOMAIN w, key) :
        weighted = [i \in DOMAIN order |->
                      Weighted(order[i], floor(order)[i] + extra(order, i))]
  BY DEF quantise
<1>2. n \in Nat /\ IsFiniteSet(DOMAIN w)
  BY FS_CardinalityType DEF WeightMap
<1>3. order \in [1..n -> DOMAIN w] /\ DOMAIN order = 1..n /\ IsInjective(order)
  BY DEF DescendingOrders
<1>4. \A nh \in DOMAIN w : \E i \in 1..n : order[i] = nh
  BY <1>2, <1>3, ListingIsOnto
<1>5. ASSUME NEW i \in 1..n
      PROVE  floor(order)[i] \in Nat
  <2>1. floor(order)[i] = w[order[i]] \div Precision
    BY <1>3
  <2>2. w[order[i]] \in Nat
    BY <1>3, UnitTypes DEF WeightMap
  <2> QED BY <2>1, <2>2, DescentAssumption
<1> HIDE DEF floor, key
<1>6. ASSUME NEW i \in 1..n
      PROVE  weighted[i] \in Slot(N) /\ weighted[i].nexthop = order[i]
  <2>1. extra(order, i) \in {0, 1}
    OBVIOUS
  <2>2. weighted[i] = Weighted(order[i], floor(order)[i] + extra(order, i))
    BY <1>1, <1>3
  <2> HIDE DEF extra
  <2>3. floor(order)[i] + extra(order, i) \in Nat
    BY <1>5, <2>1
  <2>4. order[i] \in N
    BY <1>3 DEF WeightMap
  <2> QED BY <2>2, <2>3, <2>4 DEF Slot, Weighted
<1>7. DOMAIN weighted = 1..n /\ weighted = [i \in 1..n |-> weighted[i]]
  BY <1>1, <1>3
<1>8. weighted \in Seq(Slot(N))
  BY <1>2, <1>6, <1>7, IsASeq
<1>9. NexthopsOf(weighted) = DOMAIN w
  <2>1. NexthopsOf(weighted) = {weighted[i].nexthop : i \in 1..n}
    BY <1>7 DEF NexthopsOf
  <2>2. \A i \in 1..n : weighted[i].nexthop = order[i] /\ order[i] \in DOMAIN w
    BY <1>3, <1>6
  <2> HIDE DEF n
  <2> QED BY <1>4, <2>1, <2>2
<1> QED BY <1>8, <1>9

(* balance_equally makes one slot for every nexthop of the list. *)
LEMMA BalanceProperties ==
  ASSUME NEW N, NEW nhs \in Seq(N), Len(nhs) \in 1..MAX_NEXTHOPS
  PROVE  /\ balance_equally(nhs) \in Seq(Slot(N))
         /\ NexthopsOf(balance_equally(nhs)) = Range(nhs)
<1> DEFINE n == Len(nhs)
           b == balance_equally(nhs)
<1>1. n \in Nat \ {0} /\ DOMAIN nhs = 1..n /\ \A i \in 1..n : nhs[i] \in N
  BY DescentAssumption
<1>2. WEIGHT_DENOMINATOR \div n \in Nat
  BY <1>1, DescentAssumption
<1>3. b = [i \in 1..n |->
             Weighted(nhs[i], WEIGHT_DENOMINATOR \div n
                        + (IF i <= WEIGHT_DENOMINATOR % n THEN 1 ELSE 0))]
  BY <1>1 DEF balance_equally
<1> HIDE DEF n, b
<1>4. ASSUME NEW i \in 1..n
      PROVE  b[i] \in Slot(N) /\ b[i].nexthop = nhs[i]
  BY <1>1, <1>2, <1>3 DEF Slot, Weighted
<1>5. b \in Seq(Slot(N))
  <2>1. DOMAIN b = 1..n /\ b = [i \in 1..n |-> b[i]]
    BY <1>3
  <2> QED BY <1>1, <1>4, <2>1, IsASeq
<1>6. NexthopsOf(b) = Range(nhs)
  BY <1>1, <1>3, <1>4 DEF NexthopsOf, Range
<1> QED BY <1>5, <1>6 DEF b

(* FibEntry::new never rejects the equal split. *)
LEMMA BalanceAccepted ==
  ASSUME NEW N, NEW nhs \in Seq(N), Len(nhs) \in 1..MAX_NEXTHOPS
  PROVE  FibEntryOk(balance_equally(nhs))
<1> DEFINE n == Len(nhs)
           b == balance_equally(nhs)
           base == WEIGHT_DENOMINATOR \div n
           rest == WEIGHT_DENOMINATOR % n
           W == WeightsOf(b)
<1>0. MAX_NEXTHOPS \in 1..4
  BY DescentAssumption
<1>1. n \in 1..4 /\ n <= MAX_NEXTHOPS /\ DOMAIN nhs = 1..n
  <2>1. n \in 1..MAX_NEXTHOPS
    OBVIOUS
  <2>2. DOMAIN nhs = 1..n
    OBVIOUS
  <2> HIDE DEF n
  <2> QED BY <1>0, <2>1, <2>2
<1>2. DOMAIN b = 1..n /\ \A i \in 1..n : b[i].weight = base + (IF i <= rest THEN 1 ELSE 0)
  BY <1>1 DEF balance_equally, Weighted
<1>3. DOMAIN W = 1..n /\ \A i \in 1..n : W[i] = base + (IF i <= rest THEN 1 ELSE 0)
  BY <1>2 DEF WeightsOf
<1>4. b \in Seq(Slot(N))
  BY BalanceProperties
<1>5. Len(b) = n
  BY <1>1, <1>2, <1>4
<1>6. n <= WEIGHT_DENOMINATOR /\ WEIGHT_DENOMINATOR \in Nat
  BY <1>1, DescentAssumption
<1>7. /\ base \in Nat /\ base >= 1 /\ rest \in 0..(n - 1)
      /\ WEIGHT_DENOMINATOR = n * base + rest
  <2>1. CASE n = 1
    BY <1>6, <2>1
  <2>2. CASE n = 2
    BY <1>6, <2>2
  <2>3. CASE n = 3
    BY <1>6, <2>3
  <2>4. CASE n = 4
    BY <1>6, <2>4
  <2> QED BY <1>1, <2>1, <2>2, <2>3, <2>4
<1> HIDE DEF b, W, base, rest, n
<1>8. Sum(W) = WEIGHT_DENOMINATOR
  <2>1. CASE n = 1
    BY <1>3, <1>7, <2>1 DEF Sum, At
  <2>2. CASE n = 2
    BY <1>3, <1>7, <2>2 DEF Sum, At
  <2>3. CASE n = 3
    BY <1>3, <1>7, <2>3 DEF Sum, At
  <2>4. CASE n = 4
    BY <1>3, <1>7, <2>4 DEF Sum, At
  <2> QED BY <1>1, <2>1, <2>2, <2>3, <2>4
<1>9. \A i \in DOMAIN b : b[i].weight # 0
  BY <1>2, <1>7
<1> QED BY <1>1, <1>5, <1>8, <1>9, DescentAssumption DEF FibEntryOk, W, b

---------------------------------------------------------------------------
(* The entry the data plane reads. *)

(* The sort is stable and by address: the entry lists the slots in an order *)
(* of its own, each once.                                                   *)
LEMMA FibEntrySorted ==
  ASSUME NEW n \in Nat, NEW weighted, DOMAIN weighted = 1..n,
         \A i \in 1..n : weighted[i].nexthop \in Int
  PROVE  \E p \in [1..n -> 1..n] :
           /\ IsInjective(p)
           /\ FibEntry(weighted) = [k \in 1..n |-> weighted[p[k]]]
           /\ \A k, l \in 1..n : k < l => weighted[p[k]].nexthop <= weighted[p[l]].nexthop
<1> DEFINE slot(k) == CHOOSE i \in DOMAIN weighted : Cardinality(Before(weighted, i)) = k
           p == [k \in 1..n |-> slot(k)]
<1>1. ASSUME NEW k \in 1..n
      PROVE  p[k] \in 1..n /\ Cardinality(Before(weighted, p[k])) = k
  <2>1. \E i \in 1..n : Cardinality(Before(weighted, i)) = k
    BY SortIsBijection
  <2>2. slot(k) \in 1..n /\ Cardinality(Before(weighted, slot(k))) = k
    BY <2>1
  <2> QED BY <2>2
<1>2. FibEntry(weighted) = [k \in 1..n |-> weighted[p[k]]]
  BY DEF FibEntry
<1>3. p \in [1..n -> 1..n]
  <2>1. p = [k \in 1..n |-> p[k]]
    OBVIOUS
  <2> HIDE DEF p
  <2> QED BY <1>1, <2>1
<1> HIDE DEF p
<1>4. IsInjective(p)
  BY <1>1, <1>3 DEF IsInjective
<1>5. ASSUME NEW k \in 1..n, NEW l \in 1..n, k < l
      PROVE  weighted[p[k]].nexthop <= weighted[p[l]].nexthop
  <2> DEFINE i == p[k]
             j == p[l]
  <2>1. i \in 1..n /\ j \in 1..n /\ Cardinality(Before(weighted, i)) = k
        /\ Cardinality(Before(weighted, j)) = l
    BY <1>1
  <2> HIDE DEF i, j
  <2>2. weighted[i].nexthop \in Int /\ weighted[j].nexthop \in Int
    BY <2>1
  <2>3. SUFFICES ASSUME weighted[j].nexthop < weighted[i].nexthop PROVE FALSE
    BY <2>2 DEF i, j
  <2>4. Before(weighted, j) \in SUBSET Before(weighted, i)
    BY <2>1, <2>2, <2>3 DEF Before
  <2>5. IsFiniteSet(Before(weighted, i))
    <3>1. Before(weighted, i) \in SUBSET (1..n)
      BY DEF Before
    <3>2. IsFiniteSet(1..n)
      BY IntervalCardinality
    <3> QED BY <3>1, <3>2, FS_Subset
  <2>6. Cardinality(Before(weighted, j)) <= Cardinality(Before(weighted, i))
    BY <2>4, <2>5, FS_Subset
  <2> QED BY <1>5, <2>1, <2>6
<1> QED BY <1>2, <1>3, <1>4, <1>5

(* A sum of at most four numbers does not depend on their order: both lists *)
(* are filled up with zeros.                                                *)
LEMMA SumPermuted ==
  ASSUME NEW n \in 1..4, NEW v, DOMAIN v = 1..n, \A i \in 1..n : v[i] \in Int,
         NEW p \in [1..n -> 1..n], IsInjective(p)
  PROVE  Sum([k \in 1..n |-> v[p[k]]]) = Sum(v)
<1> DEFINE u == [k \in 1..n |-> v[p[k]]]
           f == [i \in 1..4 |-> At(v, i)]
           q == [k \in 1..4 |-> IF k \in 1..n THEN p[k] ELSE k]
<1>0. \A i \in 1..n : i \in 1..4
  BY SMTT(30)
<1>1. \A k, l \in 1..n : k # l => p[k] # p[l]
  BY DEF IsInjective
<1>2. DOMAIN u = 1..n /\ \A k \in 1..n : u[k] = v[p[k]] /\ p[k] \in 1..n
  OBVIOUS
<1>3. \A i \in 1..4 : f[i] = At(v, i) /\ At(v, i) \in Int
  BY DEF At
<1>4. \A k \in 1..4 : q[k] \in 1..4
  <2> SUFFICES ASSUME NEW k \in 1..4 PROVE q[k] \in 1..4
    OBVIOUS
  <2>1. CASE k \in 1..n
    <3>1. q[k] = p[k] /\ p[k] \in 1..n
      BY <2>1
    <3> HIDE DEF q
    <3> QED BY <1>0, <3>1
  <2>2. CASE k \notin 1..n
    BY <2>2
  <2> QED BY <2>1, <2>2
<1>5. \A k, l \in 1..4 : k # l => q[k] # q[l]
  BY <1>1
<1>6. \A k \in 1..4 : At(u, k) = f[q[k]]
  <2> SUFFICES ASSUME NEW k \in 1..4 PROVE At(u, k) = f[q[k]]
    OBVIOUS
  <2>1. CASE k \in 1..n
    <3>1. q[k] = p[k] /\ p[k] \in 1..n
      BY <2>1
    <3>4. p[k] \in 1..4
      BY <1>0, <3>1
    <3>2. f[p[k]] = v[p[k]]
      <4>1. f[p[k]] = At(v, p[k])
        BY <1>3, <3>4
      <4> HIDE DEF f, u, q
      <4> QED BY <3>1, <4>1 DEF At
    <3> HIDE DEF u, f, q
    <3> QED BY <1>2, <2>1, <3>1, <3>2 DEF At
  <2>2. CASE k \notin 1..n
    BY <2>2 DEF At
  <2> QED BY <2>1, <2>2
<1> HIDE DEF u, f, q
<1>7. f[q[1]] + f[q[2]] + f[q[3]] + f[q[4]] = At(v, 1) + At(v, 2) + At(v, 3) + At(v, 4)
  <2>1. /\ q[1] \in 1..4 /\ q[2] \in 1..4 /\ q[3] \in 1..4 /\ q[4] \in 1..4
        /\ q[1] # q[2] /\ q[1] # q[3] /\ q[1] # q[4]
        /\ q[2] # q[3] /\ q[2] # q[4] /\ q[3] # q[4]
    BY <1>4, <1>5
  <2>2. /\ f[1] = At(v, 1) /\ f[2] = At(v, 2) /\ f[3] = At(v, 3) /\ f[4] = At(v, 4)
        /\ At(v, 1) \in Int /\ At(v, 2) \in Int /\ At(v, 3) \in Int /\ At(v, 4) \in Int
    BY <1>3
  <2> DEFINE a == q[1]
             b == q[2]
             c == q[3]
             d == q[4]
             w == At(v, 1)
             x == At(v, 2)
             y == At(v, 3)
             z == At(v, 4)
  <2> HIDE DEF a, b, c, d, w, x, y, z
  <2>3. /\ a \in 1..4 /\ b \in 1..4 /\ c \in 1..4 /\ d \in 1..4
        /\ a # b /\ a # c /\ a # d /\ b # c /\ b # d /\ c # d
    BY <2>1 DEF a, b, c, d
  <2>4. /\ f[1] = w /\ f[2] = x /\ f[3] = y /\ f[4] = z
        /\ w \in Int /\ x \in Int /\ y \in Int /\ z \in Int
    BY <2>2 DEF w, x, y, z
  <2>5. f[a] + f[b] + f[c] + f[d] = w + x + y + z
    <3> DEFINE e(i) == IF i = 1 THEN w ELSE IF i = 2 THEN x ELSE IF i = 3 THEN y ELSE z
    <3>1. \A i \in 1..4 : f[i] = e(i)
      BY <2>4
    <3>2. e(a) + e(b) + e(c) + e(d) = w + x + y + z
      BY <2>3, <2>4
    <3>3. f[a] = e(a) /\ f[b] = e(b) /\ f[c] = e(c) /\ f[d] = e(d)
      BY <2>3, <3>1
    <3> HIDE DEF e
    <3> QED BY <3>2, <3>3
  <2> QED BY <2>5 DEF a, b, c, d, w, x, y, z
<1>8. At(u, 1) = f[q[1]] /\ At(u, 2) = f[q[2]] /\ At(u, 3) = f[q[3]] /\ At(u, 4) = f[q[4]]
  BY <1>6
<1>9. Sum(u) = At(u, 1) + At(u, 2) + At(u, 3) + At(u, 4)
      /\ Sum(v) = At(v, 1) + At(v, 2) + At(v, 3) + At(v, 4)
  BY DEF Sum
<1>10. Sum(u) = Sum(v)
  BY <1>7, <1>8, <1>9
<1> QED BY <1>10 DEF u

(* The floor of the integer weights: MINIMUM_WEIGHT is at least that.       *)
MinimumSlot == WEIGHT_DENOMINATOR \div FloorInverse

LEMMA FloorOfMinimum == MinimumSlot \in Nat /\ MINIMUM_WEIGHT >= MinimumSlot * Precision
<1> DEFINE D == WEIGHT_DENOMINATOR
           F == FloorInverse
           P == Precision
           q == D \div F
<1>1. D \in Nat /\ F \in Nat \ {0} /\ P \in Nat \ {0}
  BY DescentAssumption
<1> HIDE DEF D, F, P
<1>2. q \in Nat /\ F * q <= D
  BY <1>1
<1> HIDE DEF q
<1>3. F * (q * P) <= D * P
  <2>1. (F * q) * P <= D * P
    BY <1>1, <1>2
  <2>2. (F * q) * P = F * (q * P)
    BY <1>1, <1>2
  <2> QED BY <2>1, <2>2
<1> DEFINE r == q * P
           N == D * P
<1>4. r \in Nat /\ N \in Nat
  BY <1>1, <1>2
<1>5. F * r <= N
  BY <1>3
<1> HIDE DEF r, N
<1>6. N \div F >= r
  <2>1. N \div F \in Nat /\ N < F * (N \div F) + F
    BY <1>1, <1>4
  <2> DEFINE d == N \div F
  <2> HIDE DEF d
  <2>2. SUFFICES ASSUME d + 1 <= r PROVE FALSE
    BY <1>4, <2>1 DEF d
  <2>3. d \in Nat /\ N < F * d + F
    BY <2>1 DEF d
  <2>4. F * (d + 1) <= F * r
    BY <1>1, <1>4, <2>2, <2>3
  <2>5. F * (d + 1) = F * d + F
    BY <1>1, <2>3
  <2>6. F * d \in Nat /\ F * r \in Nat
    BY <1>1, <1>4, <2>3
  <2> QED BY <1>1, <1>4, <1>5, <2>3, <2>4, <2>5, <2>6
<1> QED BY <1>2, <1>6 DEF MinimumSlot, MINIMUM_WEIGHT, One, q, r, N, D, F, P

(* A quotient is at least every q whose product fits the dividend. *)
LEMMA DivAtLeast ==
  ASSUME NEW a \in Nat, NEW b \in Nat \ {0}, NEW q \in Nat, b * q <= a
  PROVE  a \div b \in Nat /\ a \div b >= q
<1>1. a \div b \in Nat /\ a < b * (a \div b) + b
  OBVIOUS
<1> DEFINE d == a \div b
<1> HIDE DEF d
<1>2. d \in Nat /\ a < b * d + b
  BY <1>1 DEF d
<1>3. SUFFICES ASSUME d + 1 <= q PROVE FALSE
  BY <1>1, <1>2 DEF d
<1>4. b * (d + 1) <= b * q
  BY <1>2, <1>3
<1>5. b * (d + 1) = b * d + b
  BY <1>2
<1>6. b * d \in Nat /\ b * q \in Nat
  BY <1>2
<1> QED BY <1>2, <1>4, <1>5, <1>6

(* No slot of the equal split is below the floor of the descent. *)
LEMMA BalanceFloor ==
  ASSUME NEW N, NEW nhs \in Seq(N), Len(nhs) \in 1..MAX_NEXTHOPS
  PROVE  \A i \in DOMAIN balance_equally(nhs) :
           balance_equally(nhs)[i].weight >= MinimumSlot
<1> DEFINE n == Len(nhs)
           D == WEIGHT_DENOMINATOR
           F == FloorInverse
<1>1. n \in Nat \ {0} /\ n <= F /\ D \in Nat /\ F \in Nat \ {0}
  BY DescentAssumption
<1>2. DOMAIN nhs = 1..n
  OBVIOUS
<1>3. MinimumSlot \in Nat /\ F * MinimumSlot <= D
  <2>1. MinimumSlot = D \div F
    BY DEF MinimumSlot
  <2> HIDE DEF D, F, n
  <2> QED BY <1>1, <2>1
<1> DEFINE m == MinimumSlot
<1> HIDE DEF m
<1>4. n * m <= D
  <2>1. m \in Nat /\ F * m <= D
    BY <1>3 DEF m
  <2> HIDE DEF D, F, n
  <2>2. n * m <= F * m
    BY <1>1, <2>1
  <2>3. n * m \in Nat /\ F * m \in Nat
    BY <1>1, <2>1
  <2> QED BY <1>1, <2>1, <2>2, <2>3
<1>5. D \div n \in Nat /\ D \div n >= m
  <2> HIDE DEF D, F, n
  <2>1. m \in Nat
    BY <1>3 DEF m
  <2> QED BY <1>1, <1>4, <2>1, DivAtLeast
<1>6. ASSUME NEW i \in DOMAIN balance_equally(nhs)
      PROVE  balance_equally(nhs)[i].weight >= MinimumSlot
  <2>1. balance_equally(nhs)[i].weight = D \div n + (IF i <= D % n THEN 1 ELSE 0)
    BY DEF balance_equally, Weighted
  <2> HIDE DEF D, n
  <2> QED BY <1>3, <1>5, <2>1 DEF m
<1> QED BY <1>6

(* Nor is a slot that quantise makes of a projected map. *)
LEMMA QuantiseFloor ==
  ASSUME NEW N, NEW w, WeightMap(w, N),
         \A nh \in DOMAIN w : w[nh] >= MINIMUM_WEIGHT,
         NEW weighted \in quantise(w)
  PROVE  \A i \in DOMAIN weighted : weighted[i].weight >= MinimumSlot
<1> DEFINE key == [nh \in DOMAIN w |-> w[nh] % Precision]
           floor(order) == [i \in DOMAIN order |-> w[order[i]] \div Precision]
           extra(order, i) ==
             IF i <= (WEIGHT_DENOMINATOR - Sum(floor(order))) % U16 THEN 1 ELSE 0
<1>1. PICK order \in DescendingOrders(DOMAIN w, key) :
        weighted = [i \in DOMAIN order |->
                      Weighted(order[i], floor(order)[i] + extra(order, i))]
  BY DEF quantise
<1>2. order \in [1..Cardinality(DOMAIN w) -> DOMAIN w]
  BY DEF DescendingOrders
<1>3. ASSUME NEW i \in DOMAIN weighted
      PROVE  weighted[i].weight >= MinimumSlot
  <2>1. i \in DOMAIN order
    BY <1>1
  <2>2. order[i] \in DOMAIN w
    BY <1>2, <2>1
  <2>3. floor(order)[i] = w[order[i]] \div Precision
    BY <2>1
  <2>4. weighted[i].weight = floor(order)[i] + extra(order, i)
    BY <1>1, <2>1 DEF Weighted
  <2>5. extra(order, i) \in {0, 1}
    OBVIOUS
  <2> HIDE DEF floor, extra
  <2> DEFINE x == w[order[i]]
  <2>6. x \in Int /\ x >= MINIMUM_WEIGHT
    BY <2>2 DEF WeightMap
  <2> HIDE DEF x
  <2>7. x \in Nat /\ Precision * MinimumSlot <= x
    <3>1. MinimumSlot \in Nat /\ MINIMUM_WEIGHT >= MinimumSlot * Precision
      BY FloorOfMinimum
    <3>2. MinimumSlot * Precision = Precision * MinimumSlot /\ MinimumSlot * Precision \in Nat
      BY <3>1, DescentAssumption
    <3> QED BY <2>6, <3>1, <3>2, UnitTypes
  <2>8. x \div Precision \in Nat /\ x \div Precision >= MinimumSlot
    BY <2>7, DivAtLeast, FloorOfMinimum, DescentAssumption
  <2>9. weighted[i].weight = x \div Precision + extra(order, i)
    BY <2>3, <2>4 DEF x
  <2> DEFINE y == x \div Precision
  <2> HIDE DEF y
  <2>10. y \in Nat /\ y >= MinimumSlot /\ weighted[i].weight = y + extra(order, i)
    BY <2>8, <2>9 DEF y
  <2> QED BY <2>5, <2>10, FloorOfMinimum
<1> QED BY <1>3

(* FibEntry::new makes an entry of the same slots: it would accept it again, *)
(* and it is ordered by address.                                            *)
LEMMA FibEntryAccepted ==
  ASSUME NEW N, \A nh \in N : nh \in Int,
         NEW weighted \in Seq(Slot(N)), FibEntryOk(weighted)
  PROVE  /\ FibEntry(weighted) \in Seq(Slot(N)) /\ FibEntryOk(FibEntry(weighted))
         /\ \A i \in DOMAIN FibEntry(weighted) :
              \E j \in DOMAIN weighted : FibEntry(weighted)[i] = weighted[j]
         /\ \A i, j \in DOMAIN FibEntry(weighted) :
              i < j => FibEntry(weighted)[i].nexthop <= FibEntry(weighted)[j].nexthop
<1> DEFINE n == Len(weighted)
           entry == FibEntry(weighted)
           v == [i \in 1..n |-> weighted[i].weight]
<1>1. n \in Nat /\ DOMAIN weighted = 1..n /\ n \in 1..MAX_NEXTHOPS
  BY DEF FibEntryOk
<1>2. n \in 1..4
  <2> HIDE DEF n
  <2> QED BY <1>1, DescentAssumption
<1>3. \A i \in 1..n : weighted[i] \in Slot(N)
  BY <1>1, ElementOfSeq
<1> HIDE DEF n
<1>4. ASSUME NEW i \in 1..n
      PROVE  weighted[i].nexthop \in Int /\ weighted[i].weight \in Int
  <2>1. weighted[i] \in Slot(N)
    BY <1>3
  <2>2. weighted[i].nexthop \in N /\ weighted[i].weight \in Nat
    BY <2>1 DEF Slot
  <2> QED BY <2>2
<1>5. PICK p \in [1..n -> 1..n] :
        /\ IsInjective(p)
        /\ entry = [k \in 1..n |-> weighted[p[k]]]
        /\ \A k, l \in 1..n : k < l => weighted[p[k]].nexthop <= weighted[p[l]].nexthop
  BY <1>1, <1>4, FibEntrySorted
<1>6. entry \in Seq(Slot(N)) /\ Len(entry) = n
  BY <1>1, <1>4, FibEntryProperties DEF n
<1> HIDE DEF entry
<1>7. DOMAIN entry = 1..n /\ \A k \in 1..n : entry[k] = weighted[p[k]] /\ p[k] \in 1..n
  BY <1>5
<1>8. WeightsOf(weighted) = v
  BY <1>1 DEF WeightsOf
<1>9. DOMAIN v = 1..n /\ \A i \in 1..n : v[i] \in Int
  BY <1>4
<1>10. WeightsOf(entry) = [k \in 1..n |-> v[p[k]]]
  BY <1>7 DEF WeightsOf
<1> HIDE DEF v
<1>11. Sum([k \in 1..n |-> v[p[k]]]) = Sum(v)
  BY <1>2, <1>5, <1>9, SumPermuted
<1>12. Sum(WeightsOf(entry)) = WEIGHT_DENOMINATOR
  BY <1>8, <1>10, <1>11 DEF FibEntryOk
<1>13. \A i \in DOMAIN entry : entry[i].weight # 0
  BY <1>1, <1>7 DEF FibEntryOk
<1>14. \A i, j \in DOMAIN entry : i < j => entry[i].nexthop <= entry[j].nexthop
  BY <1>5, <1>7
<1>15. \A i \in DOMAIN entry : \E j \in DOMAIN weighted : entry[i] = weighted[j]
  BY <1>1, <1>7
<1> QED BY <1>1, <1>6, <1>12, <1>13, <1>14, <1>15 DEF FibEntryOk, entry

(* What fib_entry_select_nexthop needs of an entry. *)
Usable(entry) ==
  /\ Len(entry) \in 1..MAX_NEXTHOPS
  /\ Sum(WeightsOf(entry)) = WEIGHT_DENOMINATOR
  /\ \A i \in DOMAIN entry : entry[i].weight >= MinimumSlot
  /\ \A i, j \in DOMAIN entry : i < j => entry[i].nexthop <= entry[j].nexthop

(* FibEntry::new makes a usable entry of every list it accepts whose        *)
(* weights are above the floor.                                             *)
LEMMA FibEntryUsable ==
  ASSUME NEW N, \A nh \in N : nh \in Int,
         NEW weighted \in Seq(Slot(N)), FibEntryOk(weighted),
         \A i \in DOMAIN weighted : weighted[i].weight >= MinimumSlot
  PROVE  Usable(FibEntry(weighted))
<1> DEFINE entry == FibEntry(weighted)
<1>1. /\ FibEntryOk(entry)
      /\ \A i \in DOMAIN entry : \E j \in DOMAIN weighted : entry[i] = weighted[j]
      /\ \A i, j \in DOMAIN entry : i < j => entry[i].nexthop <= entry[j].nexthop
  BY FibEntryAccepted
<1> HIDE DEF entry
<1>2. \A i \in DOMAIN entry : entry[i].weight >= MinimumSlot
  BY <1>1
<1> QED BY <1>1, <1>2 DEF FibEntryOk, Usable, entry

---------------------------------------------------------------------------
(* What project computes. *)

(* The sums of the first values of a list. *)
LEMMA PrefixSums ==
  ASSUME NEW n \in 1..4, NEW v, DOMAIN v = 1..n, \A i \in 1..n : v[i] \in Int
  PROVE  /\ Sum([i \in 1..1 |-> v[i]]) = v[1]
         /\ n >= 2 => Sum([i \in 1..2 |-> v[i]]) = v[1] + v[2]
         /\ n >= 3 => Sum([i \in 1..3 |-> v[i]]) = v[1] + v[2] + v[3]
         /\ n = 4 => Sum([i \in 1..4 |-> v[i]]) = v[1] + v[2] + v[3] + v[4]
<1>1. v[1] \in Int
  OBVIOUS
<1>2. n >= 2 => v[2] \in Int
  OBVIOUS
<1>3. n >= 3 => v[3] \in Int
  OBVIOUS
<1>4. n = 4 => v[4] \in Int
  OBVIOUS
<1> QED BY <1>1, <1>2, <1>3, <1>4 DEF Sum, At

(* A candidate for the threshold shares out what the first k values have    *)
(* above r, rounded down or up.                                             *)
LEMMA CandidateBounds ==
  ASSUME NEW k \in 1..4, NEW v, NEW r \in Int, NEW round \in {0, 1},
         NEW s \in Int, Sum([i \in 1..k |-> v[i]]) = s
  PROVE  /\ candidate(v, r, round, k) \in Int
         /\ k * candidate(v, r, round, k) - (s - r) \in -(k - 1)..(k - 1)
         /\ round = 0 => k * candidate(v, r, round, k) <= s - r
         /\ round = 1 => k * candidate(v, r, round, k) >= s - r
<1>1. candidate(v, r, round, k) = (s - r + round * (k - 1)) \div k
  BY DEF candidate
<1> DEFINE c == candidate(v, r, round, k)
<1> HIDE DEF c
<1>2. c = (s - r + round * (k - 1)) \div k
  BY <1>1 DEF c
<1>3. /\ c \in Int /\ k * c - (s - r) \in -(k - 1)..(k - 1)
      /\ round = 0 => k * c <= s - r
      /\ round = 1 => k * c >= s - r
  <2>1. CASE k = 1
    BY <1>2, <2>1
  <2>2. CASE k = 2
    BY <1>2, <2>2
  <2>3. CASE k = 3
    BY <1>2, <2>3
  <2>4. CASE k = 4
    BY <1>2, <2>4
  <2> QED BY <2>1, <2>2, <2>3, <2>4
<1> QED BY <1>3 DEF c

(* The threshold leaves the mass r above the floors, up to one unit for     *)
(* each value: the survivors share it out exactly but for the rounding, and *)
(* the others are at most one unit above the threshold.                     *)
LEMMA ThresholdSum ==
  ASSUME NEW n \in 1..4, NEW v, DOMAIN v = 1..n, \A i \in 1..n : v[i] \in Int,
         \A i, j \in 1..n : i < j => v[i] >= v[j],
         NEW r \in Nat \ {0}, NEW round \in {0, 1}
  PROVE  Sum([i \in 1..n |-> Positive(v[i] - threshold(v, r, round))]) - r \in -n..n
<1> DEFINE S == survivors(v, r, round)
           tau == threshold(v, r, round)
           u == [i \in 1..n |-> Positive(v[i] - tau)]
           c1 == candidate(v, r, round, 1)
           c2 == candidate(v, r, round, 2)
           c3 == candidate(v, r, round, 3)
           c4 == candidate(v, r, round, 4)
           v1 == v[1]
           v2 == v[2]
           v3 == v[3]
           v4 == v[4]
<1>1. /\ v1 \in Int
      /\ n >= 2 => v2 \in Int /\ v1 >= v2
      /\ n >= 3 => v3 \in Int /\ v2 >= v3
      /\ n = 4 => v4 \in Int /\ v3 >= v4
  OBVIOUS
<1>2. /\ c1 \in Int /\ c1 = v1 - r
      /\ n >= 2 => /\ c2 \in Int /\ 2 * c2 - (v1 + v2 - r) \in -1..1
                   /\ round = 0 => 2 * c2 <= v1 + v2 - r
                   /\ round = 1 => 2 * c2 >= v1 + v2 - r
      /\ n >= 3 => /\ c3 \in Int /\ 3 * c3 - (v1 + v2 + v3 - r) \in -2..2
                   /\ round = 0 => 3 * c3 <= v1 + v2 + v3 - r
                   /\ round = 1 => 3 * c3 >= v1 + v2 + v3 - r
      /\ n = 4 => /\ c4 \in Int /\ 4 * c4 - (v1 + v2 + v3 + v4 - r) \in -3..3
                  /\ round = 0 => 4 * c4 <= v1 + v2 + v3 + v4 - r
                  /\ round = 1 => 4 * c4 >= v1 + v2 + v3 + v4 - r
  <2>0. /\ Sum([i \in 1..1 |-> v[i]]) = v1
        /\ n >= 2 => Sum([i \in 1..2 |-> v[i]]) = v1 + v2
        /\ n >= 3 => Sum([i \in 1..3 |-> v[i]]) = v1 + v2 + v3
        /\ n = 4 => Sum([i \in 1..4 |-> v[i]]) = v1 + v2 + v3 + v4
    BY PrefixSums
  <2> HIDE DEF v1, v2, v3, v4
  <2>1. c1 \in Int /\ 1 * c1 - (v1 - r) \in -(1 - 1)..(1 - 1)
    <3> HIDE DEF c1
    <3> QED BY <1>1, <2>0, CandidateBounds DEF c1
  <2>2. ASSUME n >= 2
        PROVE  /\ c2 \in Int /\ 2 * c2 - (v1 + v2 - r) \in -(2 - 1)..(2 - 1)
               /\ round = 0 => 2 * c2 <= v1 + v2 - r
               /\ round = 1 => 2 * c2 >= v1 + v2 - r
    <3> DEFINE s == v1 + v2
    <3>1. s \in Int /\ Sum([i \in 1..2 |-> v[i]]) = s
      BY <1>1, <2>0, <2>2
    <3> HIDE DEF s
    <3>2. 2 \in 1..4 /\ r \in Int
      OBVIOUS
    <3>3. /\ c2 \in Int /\ 2 * c2 - (s - r) \in -(2 - 1)..(2 - 1)
          /\ round = 0 => 2 * c2 <= s - r
          /\ round = 1 => 2 * c2 >= s - r
      BY <3>1, <3>2, CandidateBounds
    <3>4. s = v1 + v2
      BY DEF s
    <3> HIDE DEF c2
    <3>5. s - r = v1 + v2 - r
      BY <1>1, <2>2, <3>1, <3>4
    <3> QED BY <3>3, <3>5, Zenon
  <2>3. ASSUME n >= 3
        PROVE  /\ c3 \in Int /\ 3 * c3 - (v1 + v2 + v3 - r) \in -(3 - 1)..(3 - 1)
               /\ round = 0 => 3 * c3 <= v1 + v2 + v3 - r
               /\ round = 1 => 3 * c3 >= v1 + v2 + v3 - r
    <3> DEFINE s == v1 + v2 + v3
    <3>1. s \in Int /\ Sum([i \in 1..3 |-> v[i]]) = s
      BY <1>1, <2>0, <2>3
    <3> HIDE DEF s
    <3>2. 3 \in 1..4 /\ r \in Int
      OBVIOUS
    <3>3. /\ c3 \in Int /\ 3 * c3 - (s - r) \in -(3 - 1)..(3 - 1)
          /\ round = 0 => 3 * c3 <= s - r
          /\ round = 1 => 3 * c3 >= s - r
      BY <3>1, <3>2, CandidateBounds
    <3>4. s = v1 + v2 + v3
      BY DEF s
    <3> HIDE DEF c3
    <3>5. s - r = v1 + v2 + v3 - r
      BY <1>1, <2>3, <3>1, <3>4
    <3> QED BY <3>3, <3>5, Zenon
  <2>4. ASSUME n = 4
        PROVE  /\ c4 \in Int /\ 4 * c4 - (v1 + v2 + v3 + v4 - r) \in -(4 - 1)..(4 - 1)
               /\ round = 0 => 4 * c4 <= v1 + v2 + v3 + v4 - r
               /\ round = 1 => 4 * c4 >= v1 + v2 + v3 + v4 - r
    <3> DEFINE s == v1 + v2 + v3 + v4
    <3>1. s \in Int /\ Sum([i \in 1..4 |-> v[i]]) = s
      BY <1>1, <2>0, <2>4
    <3> HIDE DEF s
    <3>2. 4 \in 1..4 /\ r \in Int
      OBVIOUS
    <3>3. /\ c4 \in Int /\ 4 * c4 - (s - r) \in -(4 - 1)..(4 - 1)
          /\ round = 0 => 4 * c4 <= s - r
          /\ round = 1 => 4 * c4 >= s - r
      BY <3>1, <3>2, CandidateBounds
    <3>4. s = v1 + v2 + v3 + v4
      BY DEF s
    <3> HIDE DEF c4
    <3>5. s - r = v1 + v2 + v3 + v4 - r
      BY <1>1, <2>4, <3>1, <3>4
    <3> QED BY <3>3, <3>5, Zenon
  <2> HIDE DEF c1, c2, c3, c4
  <2>5. c1 = v1 - r
    BY <1>1, <2>1
  <2>6. /\ -(2 - 1) = -1 /\ 2 - 1 = 1 /\ -(3 - 1) = -2 /\ 3 - 1 = 2
        /\ -(4 - 1) = -3 /\ 4 - 1 = 3
    OBVIOUS
  <2> QED BY <2>1, <2>2, <2>3, <2>4, <2>5, <2>6
<1>3. \A k \in 1..n : k \in S <=> v[k] - candidate(v, r, round, k) > 0
  BY DEF survivors
<1>4. S \in SUBSET (1..n) /\ S \in SUBSET (1..4)
  BY DEF survivors
<1> HIDE DEF S
<1>5. 1 \in S
  <2>1. v[1] - candidate(v, r, round, 1) = r
    BY <1>1, <1>2
  <2> QED BY <1>3, <2>1
<1>6. \E k \in S : \A j \in S : j <= k
  BY <1>4, <1>5, LastPosition
<1> DEFINE last == CHOOSE k \in S : \A j \in S : j <= k
<1>7. last \in S /\ \A j \in S : j <= last
  BY <1>6
<1>8. tau = candidate(v, r, round, last)
  BY <1>5 DEF threshold, S
<1> HIDE DEF last, tau
<1>9. PICK k \in 1..n : k \in S /\ tau = candidate(v, r, round, k) /\ \A j \in S : j <= k
  BY <1>4, <1>7, <1>8
<1>10. /\ n >= 2 => (2 \in S <=> v2 > c2)
       /\ n >= 3 => (3 \in S <=> v3 > c3)
       /\ n = 4 => (4 \in S <=> v4 > c4)
  <2>2. n >= 2 => (2 \in S <=> v2 - c2 > 0)
    BY <1>3
  <2>3. n >= 3 => (3 \in S <=> v3 - c3 > 0)
    BY <1>3
  <2>4. n = 4 => (4 \in S <=> v4 - c4 > 0)
    BY <1>3
  <2> HIDE DEF v1, v2, v3, v4, c1, c2, c3, c4
  <2>5. n >= 2 => (v2 - c2 > 0 <=> v2 > c2)
    <3>1. n >= 2 => v2 \in Int /\ c2 \in Int
      BY <1>1, <1>2
    <3> QED BY <3>1
  <2>6. n >= 3 => (v3 - c3 > 0 <=> v3 > c3)
    <3>1. n >= 3 => v3 \in Int /\ c3 \in Int
      BY <1>1, <1>2
    <3> QED BY <3>1
  <2>7. n = 4 => (v4 - c4 > 0 <=> v4 > c4)
    <3>1. n = 4 => v4 \in Int /\ c4 \in Int
      BY <1>1, <1>2
    <3> QED BY <3>1
  <2> QED BY <2>2, <2>3, <2>4, <2>5, <2>6, <2>7
<1>11. DOMAIN u = 1..n /\ \A i \in 1..n : u[i] = Positive(v[i] - tau)
  OBVIOUS
<1>12. Sum(u) - r \in -n..n
  <2> HIDE DEF u
  <2>1. CASE n = 1
    <3>1. tau = c1 /\ u[1] = Positive(v1 - tau)
      BY <1>9, <1>11, <2>1
    <3> HIDE DEF v1, v2, v3, v4, c1, c2, c3, c4
    <3>2. u[1] = r
      BY <1>1, <1>2, <3>1 DEF Positive
    <3>3. Sum(u) = u[1]
      BY <1>11, <2>1, <3>2 DEF Sum, At
    <3> QED BY <2>1, <3>2, <3>3
  <2>2. CASE n = 2
    <3>1. u[1] = Positive(v1 - tau) /\ u[2] = Positive(v2 - tau)
      BY <1>11, <2>2
    <3>2. \/ tau = c1 /\ 2 \notin S
          \/ tau = c2 /\ 2 \in S
      BY <1>9, <2>2
    <3> HIDE DEF v1, v2, v3, v4, c1, c2, c3, c4
    <3>3. \/ tau = c1 /\ v2 <= c2
          \/ tau = c2 /\ v2 > c2
      BY <1>1, <1>2, <1>10, <2>2, <3>2
    <3>4. tau \in Int
      BY <1>2, <2>2, <3>3
    <3>5. u[1] \in Int /\ u[2] \in Int
      BY <1>1, <2>2, <3>1, <3>4 DEF Positive
    <3>6. Sum(u) = u[1] + u[2]
      BY <1>11, <2>2, <3>5 DEF Sum, At
    <3>7. u[1] + u[2] - r \in -2..2
      BY <1>1, <1>2, <2>2, <3>1, <3>3 DEF Positive
    <3> QED BY <2>2, <3>5, <3>6, <3>7
  <2>3. CASE n = 3
    <3>1. /\ u[1] = Positive(v1 - tau) /\ u[2] = Positive(v2 - tau)
          /\ u[3] = Positive(v3 - tau)
      BY <1>11, <2>3
    <3>2. \/ tau = c1 /\ 2 \notin S
          \/ tau = c2 /\ 2 \in S /\ 3 \notin S
          \/ tau = c3 /\ 3 \in S
      BY <1>9, <2>3
    <3> HIDE DEF v1, v2, v3, v4, c1, c2, c3, c4
    <3>3. \/ tau = c1 /\ v2 <= c2
          \/ tau = c2 /\ v2 > c2 /\ v3 <= c3
          \/ tau = c3 /\ v3 > c3
      BY <1>1, <1>2, <1>10, <2>3, <3>2
    <3>4. tau \in Int
      BY <1>2, <2>3, <3>3
    <3>5. u[1] \in Int /\ u[2] \in Int /\ u[3] \in Int
      BY <1>1, <2>3, <3>1, <3>4 DEF Positive
    <3>6. Sum(u) = u[1] + u[2] + u[3]
      BY <1>11, <2>3, <3>5 DEF Sum, At
    <3>7. u[1] + u[2] + u[3] - r \in -3..3
      BY <1>1, <1>2, <2>3, <3>1, <3>3 DEF Positive
    <3> QED BY <2>3, <3>5, <3>6, <3>7
  <2>4. CASE n = 4
    <3>1. /\ u[1] = Positive(v1 - tau) /\ u[2] = Positive(v2 - tau)
          /\ u[3] = Positive(v3 - tau) /\ u[4] = Positive(v4 - tau)
      BY <1>11, <2>4
    <3>2. \/ tau = c1 /\ 2 \notin S
          \/ tau = c2 /\ 2 \in S /\ 3 \notin S
          \/ tau = c3 /\ 3 \in S /\ 4 \notin S
          \/ tau = c4 /\ 4 \in S
      BY <1>9, <2>4
    <3> HIDE DEF v1, v2, v3, v4, c1, c2, c3, c4
    <3>3. \/ tau = c1 /\ v2 <= c2
          \/ tau = c2 /\ v2 > c2 /\ v3 <= c3
          \/ tau = c3 /\ v3 > c3 /\ v4 <= c4
          \/ tau = c4 /\ v4 > c4
      BY <1>1, <1>2, <1>10, <2>4, <3>2
    <3>4. tau \in Int
      BY <1>2, <2>4, <3>3
    <3>5. u[1] \in Int /\ u[2] \in Int /\ u[3] \in Int /\ u[4] \in Int
      BY <1>1, <2>4, <3>1, <3>4 DEF Positive
    <3>6. Sum(u) = u[1] + u[2] + u[3] + u[4]
      BY <1>11, <2>4, <3>5 DEF Sum, At
    <3>7. u[1] + u[2] + u[3] + u[4] - r \in -4..4
      <4>0. /\ v1 \in Int /\ v2 \in Int /\ v3 \in Int /\ v4 \in Int
            /\ v1 >= v2 /\ v2 >= v3 /\ v3 >= v4
            /\ c1 \in Int /\ c2 \in Int /\ c3 \in Int /\ c4 \in Int
            /\ c1 = v1 - r /\ 2 * c2 - (v1 + v2 - r) \in -1..1
            /\ 3 * c3 - (v1 + v2 + v3 - r) \in -2..2
            /\ 4 * c4 - (v1 + v2 + v3 + v4 - r) \in -3..3
        BY <1>1, <1>2, <2>4
      <4>1. CASE tau = c1 /\ v2 <= c2
        BY <3>1, <4>0, <4>1 DEF Positive
      <4>2. CASE tau = c2 /\ v2 > c2 /\ v3 <= c3
        BY <3>1, <4>0, <4>2 DEF Positive
      <4>3. CASE tau = c3 /\ v3 > c3 /\ v4 <= c4
        BY <3>1, <4>0, <4>3 DEF Positive
      <4>4. CASE tau = c4 /\ v4 > c4
        BY <3>1, <4>0, <4>4 DEF Positive
      <4> QED BY <3>3, <4>1, <4>2, <4>3, <4>4
    <3> QED BY <2>4, <3>5, <3>6, <3>7
  <2> QED BY <2>1, <2>2, <2>3, <2>4
<1> QED BY <1>12 DEF u, tau

(* The listings of a finite set, of which a descending order is one. *)
Listings(S) == {s \in [1..Cardinality(S) -> S] : IsInjective(s)}

(* The weights of a map, in the order of a listing of its keys. *)
Listed(w, s) == [i \in 1..Cardinality(DOMAIN w) |-> w[s[i]]]

(* The sum of a map's weights does not depend on the listing. *)
LEMMA ListingSum ==
  ASSUME NEW w, IsFiniteSet(DOMAIN w), Cardinality(DOMAIN w) \in 1..4,
         \A x \in DOMAIN w : w[x] \in Int,
         NEW s \in Listings(DOMAIN w), NEW t \in Listings(DOMAIN w)
  PROVE  Sum(Listed(w, s)) = Sum(Listed(w, t))
<1> DEFINE n == Cardinality(DOMAIN w)
           p == [k \in 1..n |-> CHOOSE i \in 1..n : s[i] = t[k]]
           v == Listed(w, s)
<1>1. n \in 1..4 /\ s \in [1..n -> DOMAIN w] /\ t \in [1..n -> DOMAIN w]
      /\ IsInjective(s) /\ IsInjective(t)
  BY DEF Listings
<1>2. \A x \in DOMAIN w : \E i \in 1..n : s[i] = x
  BY <1>1, ListingIsOnto
<1>0. v = [i \in 1..n |-> w[s[i]]] /\ Listed(w, t) = [k \in 1..n |-> w[t[k]]]
  BY DEF Listed
<1> HIDE DEF n, v
<1>3. \A k \in 1..n : p[k] \in 1..n /\ s[p[k]] = t[k]
  <2> SUFFICES ASSUME NEW k \in 1..n PROVE p[k] \in 1..n /\ s[p[k]] = t[k]
    OBVIOUS
  <2>1. t[k] \in DOMAIN w
    BY <1>1
  <2>2. \E i \in 1..n : s[i] = t[k]
    BY <1>2, <2>1
  <2> QED BY <2>2
<1>4. p \in [1..n -> 1..n]
  <2>1. p = [k \in 1..n |-> p[k]]
    OBVIOUS
  <2> HIDE DEF p
  <2> QED BY <1>3, <2>1
<1> HIDE DEF p
<1>5. IsInjective(p)
  <2>1. ASSUME NEW a \in 1..n, NEW b \in 1..n, p[a] = p[b] PROVE a = b
    <3>1. t[a] = t[b]
      BY <1>3, <2>1
    <3> QED BY <1>1, <3>1 DEF IsInjective
  <2>2. DOMAIN p = 1..n
    BY <1>4
  <2> QED BY <2>1, <2>2 DEF IsInjective
<1>6. DOMAIN v = 1..n /\ \A i \in 1..n : v[i] \in Int
  BY <1>0, <1>1
<1>7. Listed(w, t) = [k \in 1..n |-> v[p[k]]]
  <2>1. \A k \in 1..n : v[p[k]] = w[t[k]]
    BY <1>0, <1>3
  <2> QED BY <1>0, <2>1
<1>8. Sum([k \in 1..n |-> v[p[k]]]) = Sum(v)
  BY <1>1, <1>4, <1>5, <1>6, SumPermuted
<1> QED BY <1>7, <1>8 DEF v

(* Adding a number to each of n values adds it n times to the sum. *)
LEMMA SumShift ==
  ASSUME NEW n \in 1..4, NEW u, DOMAIN u = 1..n, \A i \in 1..n : u[i] \in Int,
         NEW m \in Int
  PROVE  Sum(u) \in Int /\ Sum([i \in 1..n |-> u[i] + m]) = Sum(u) + n * m
<1> DEFINE x == [i \in 1..n |-> u[i] + m]
<1>1. DOMAIN x = 1..n /\ \A i \in 1..n : x[i] = u[i] + m
  OBVIOUS
<1> HIDE DEF x
<1>2. Sum(u) \in Int
  BY SumType
<1>3. Sum(x) = Sum(u) + n * m
  <2>1. CASE n = 1
    BY <1>1, <2>1 DEF Sum, At
  <2>2. CASE n = 2
    BY <1>1, <2>2 DEF Sum, At
  <2>3. CASE n = 3
    BY <1>1, <2>3 DEF Sum, At
  <2>4. CASE n = 4
    BY <1>1, <2>4 DEF Sum, At
  <2> QED BY <2>1, <2>2, <2>3, <2>4
<1> QED BY <1>2, <1>3 DEF x

(* There is mass left above the floors of at most MAX_NEXTHOPS nexthops. *)
LEMMA MassAboveFloors ==
  ASSUME NEW n \in 1..MAX_NEXTHOPS
  PROVE  One - n * MINIMUM_WEIGHT \in Nat \ {0}
<1> DEFINE D == WEIGHT_DENOMINATOR
           F == FloorInverse
           P == Precision
           O == One
           m == MINIMUM_WEIGHT
<1>1. /\ D \in Nat \ {0} /\ F \in Nat \ {0} /\ P \in Nat \ {0} /\ F <= D
      /\ n \in Nat \ {0} /\ n < F
  BY DescentAssumption
<1>2. O = D * P /\ m = O \div F
  BY DEF One, MINIMUM_WEIGHT
<1> HIDE DEF D, F, P, O, m
<1>3. O \in Nat /\ F * 1 <= O
  <2>1. D * P >= D
    BY <1>1
  <2> QED BY <1>1, <1>2, <2>1
<1>4. m \in Nat /\ m >= 1
  BY <1>1, <1>2, <1>3, DivAtLeast
<1>5. F * m <= O
  BY <1>1, <1>2, <1>3
<1>6. n * m < F * m
  <2>1. F = n + (F - n) /\ F - n \in Nat \ {0}
    BY <1>1
  <2> DEFINE d == F - n
  <2> HIDE DEF d
  <2>2. F = n + d /\ d \in Nat \ {0}
    BY <2>1 DEF d
  <2>3. (n + d) * m = n * m + d * m
    BY <1>1, <1>4, <2>2
  <2>4. d * m >= 1 /\ n * m \in Nat /\ d * m \in Nat
    BY <1>1, <1>4, <2>2
  <2> QED BY <2>2, <2>3, <2>4
<1>7. n * m \in Nat /\ F * m \in Nat
  BY <1>1, <1>4
<1>8. O - n * m \in Nat \ {0}
  BY <1>3, <1>5, <1>6, <1>7
<1> QED BY <1>8 DEF O, m

(* The weights sum to one, up to less than a unit for each of them.         *)
Balanced(w) ==
  /\ Cardinality(DOMAIN w) \in 1..MAX_NEXTHOPS
  /\ \A s \in Listings(DOMAIN w) :
       Sum(Listed(w, s)) - One \in -Cardinality(DOMAIN w) .. Cardinality(DOMAIN w)

(* project puts every map on the floored simplex. *)
LEMMA ProjectBalanced ==
  ASSUME NEW N, NEW w, WeightMap(w, N), Cardinality(DOMAIN w) \in 1..MAX_NEXTHOPS,
         NEW order \in DescendingOrders(DOMAIN w, w), NEW round \in {0, 1}
  PROVE  Balanced(project(w, order, round))
<1> DEFINE n == Cardinality(DOMAIN w)
           x == project(w, order, round)
           v == [i \in DOMAIN order |-> w[order[i]] - MINIMUM_WEIGHT]
           r == One - Len(order) * MINIMUM_WEIGHT
           tau == threshold(v, r, round)
           u == [i \in 1..n |-> Positive(v[i] - tau)]
<1>1. n \in 1..4 /\ n \in 1..MAX_NEXTHOPS
  <2>1. n \in 1..MAX_NEXTHOPS
    OBVIOUS
  <2> HIDE DEF n
  <2> QED BY <2>1, DescentAssumption
<1>2. order \in [1..n -> DOMAIN w] /\ DOMAIN order = 1..n /\ IsInjective(order)
      /\ \A i, j \in 1..n : i < j => w[order[i]] >= w[order[j]]
  BY DEF DescendingOrders
<1>3. Len(order) = n
  <2> HIDE DEF n
  <2> QED BY <1>1, <1>2
<1>4. r = One - n * MINIMUM_WEIGHT /\ r \in Nat \ {0}
  BY <1>1, <1>3, MassAboveFloors
<1>5. \A i \in 1..n : v[i] = w[order[i]] - MINIMUM_WEIGHT /\ order[i] \in DOMAIN w
  BY <1>2
<1>6. DOMAIN v = 1..n /\ \A i \in 1..n : v[i] \in Int
  BY <1>2, <1>5, UnitTypes DEF WeightMap
<1>7. x = [nh \in DOMAIN w |-> Positive(w[nh] - MINIMUM_WEIGHT - tau) + MINIMUM_WEIGHT]
  BY DEF project
<1> HIDE DEF n, v, r, x
<1>8. \A i, j \in 1..n : i < j => v[i] >= v[j]
  <2> SUFFICES ASSUME NEW i \in 1..n, NEW j \in 1..n, i < j PROVE v[i] >= v[j]
    OBVIOUS
  <2>1. w[order[i]] \in Int /\ w[order[j]] \in Int /\ w[order[i]] >= w[order[j]]
    BY <1>2, <1>5 DEF WeightMap
  <2> QED BY <1>5, <2>1, UnitTypes
<1>9. tau \in Int
  <2>1. n \in 0..4 /\ r \in Int
    BY <1>1, <1>4
  <2> QED BY <1>6, <2>1, ThresholdType
<1>10. Sum(u) - r \in -n..n
  BY <1>1, <1>4, <1>6, <1>8, ThresholdSum
<1>11. DOMAIN u = 1..n /\ \A i \in 1..n : u[i] = Positive(v[i] - tau)
  OBVIOUS
<1> HIDE DEF u, tau
<1>12. \A i \in 1..n : u[i] \in Int
  BY <1>6, <1>9, <1>11 DEF Positive
<1>13. DOMAIN x = DOMAIN w /\ \A i \in 1..n : x[order[i]] = u[i] + MINIMUM_WEIGHT
  <2>1. DOMAIN x = DOMAIN w
    BY <1>7
  <2>2. ASSUME NEW i \in 1..n PROVE x[order[i]] = u[i] + MINIMUM_WEIGHT
    <3>1. x[order[i]] = Positive(w[order[i]] - MINIMUM_WEIGHT - tau) + MINIMUM_WEIGHT
      BY <1>5, <1>7
    <3> QED BY <1>5, <1>11, <3>1
  <2> QED BY <2>1, <2>2
<1>14. Listed(x, order) = [i \in 1..n |-> u[i] + MINIMUM_WEIGHT]
  BY <1>13 DEF Listed, n
<1>15. Sum(Listed(x, order)) = Sum(u) + n * MINIMUM_WEIGHT /\ Sum(u) \in Int
  <2>1. MINIMUM_WEIGHT \in Int
    BY UnitTypes
  <2> QED BY <1>1, <1>11, <1>12, <1>14, <2>1, SumShift
<1>16. Sum(Listed(x, order)) - One \in -n..n
  <2> DEFINE m == n * MINIMUM_WEIGHT
  <2>1. m \in Int /\ r = One - m /\ Sum(Listed(x, order)) = Sum(u) + m
    BY <1>1, <1>4, <1>15, UnitTypes
  <2> HIDE DEF m
  <2> QED BY <1>10, <1>15, <2>1, UnitTypes
<1>17. IsFiniteSet(DOMAIN x) /\ Cardinality(DOMAIN x) = n /\ order \in Listings(DOMAIN x)
       /\ \A nh \in DOMAIN x : x[nh] \in Int
  <2>1. IsFiniteSet(DOMAIN x) /\ Cardinality(DOMAIN x) = n
    BY <1>13 DEF WeightMap, n
  <2>2. order \in Listings(DOMAIN x)
    BY <1>2, <1>13, <2>1 DEF Listings
  <2>3. WeightMap(x, N)
    BY ProjectProperties DEF x
  <2> QED BY <2>1, <2>2, <2>3 DEF WeightMap
<1>18. ASSUME NEW s \in Listings(DOMAIN x)
       PROVE  Sum(Listed(x, s)) - One \in -n..n
  <2>1. Sum(Listed(x, s)) = Sum(Listed(x, order))
    BY <1>1, <1>17, ListingSum
  <2> QED BY <1>16, <2>1
<1> QED BY <1>1, <1>17, <1>18 DEF Balanced, x

(* reconcile leaves a map with a nexthop, so a step stores weights on the   *)
(* floored simplex whatever it started from.                                *)
LEMMA StepBalanced ==
  ASSUME NEW N, NEW w, WeightMap(w, N),
         NEW nhs \in Seq(N), Len(nhs) \in 1..MAX_NEXTHOPS,
         NEW ws, Windows(ws), NEW x \in step(w, nhs, ws)
  PROVE  Balanced(x)
<1> DEFINE start == reconcile(w, nhs)
           moved == descend(start, nhs, ws)
<1>1. WeightMap(start, N)
  BY ReconcileProperties
<1>2. Cardinality(DOMAIN start) \in 1..MAX_NEXTHOPS
  <2>1. IsFiniteSet(DOMAIN start) /\ Cardinality(DOMAIN start) <= MAX_NEXTHOPS
    BY <1>1 DEF WeightMap
  <2>2. Cardinality(DOMAIN start) \in Nat
    BY <2>1, FS_CardinalityType
  <2>3. DOMAIN start # {}
    <3>1. CASE \/ Cardinality(DOMAIN w) # Len(nhs)
               \/ \E i \in DOMAIN nhs : nhs[i] \notin DOMAIN w
      <4>1. DOMAIN start = Range(nhs)
        BY <3>1 DEF reconcile
      <4>2. 1 \in DOMAIN nhs
        BY DescentAssumption
      <4> QED BY <4>1, <4>2 DEF Range
    <3>2. CASE /\ Cardinality(DOMAIN w) = Len(nhs)
               /\ \A i \in DOMAIN nhs : nhs[i] \in DOMAIN w
      <4>1. start = w
        BY <3>2 DEF reconcile
      <4>2. 1 \in DOMAIN nhs
        BY DescentAssumption
      <4> QED BY <3>2, <4>1, <4>2
    <3> QED BY <3>1, <3>2
  <2>4. Cardinality(DOMAIN start) # 0
    BY <2>1, <2>3, FS_EmptySet
  <2> HIDE DEF start
  <2> QED BY <2>1, <2>2, <2>4, DescentAssumption
<1> HIDE DEF start
<1>3. WeightMap(moved, N) /\ DOMAIN moved = DOMAIN start
  BY <1>1, DescendProperties
<1>4. PICK order \in DescendingOrders(DOMAIN moved, moved), round \in {0, 1} :
        x = project(moved, order, round)
  BY DEF step, start
<1> HIDE DEF moved
<1>5. Cardinality(DOMAIN moved) \in 1..MAX_NEXTHOPS
  BY <1>2, <1>3
<1> QED BY <1>3, <1>4, <1>5, ProjectBalanced

(* A factor of each of at most four numbers is one of their sum. *)
LEMMA Distributes ==
  ASSUME NEW P \in Int, NEW a \in Int, NEW b \in Int, NEW c \in Int, NEW d \in Int
  PROVE  /\ P * (a + b) = P * a + P * b
         /\ P * (a + b + c) = P * a + P * b + P * c
         /\ P * (a + b + c + d) = P * a + P * b + P * c + P * d
<1>1. P * (a + b) = P * a + P * b
  OBVIOUS
<1> DEFINE s == a + b
<1>2. s \in Int /\ P * s = P * a + P * b
  BY <1>1
<1> HIDE DEF s
<1>3. P * (s + c) = P * s + P * c
  BY <1>2
<1> DEFINE t == s + c
<1>4. t \in Int /\ P * t = P * s + P * c
  BY <1>2, <1>3
<1> HIDE DEF t
<1>5. P * (t + d) = P * t + P * d
  BY <1>4
<1> QED BY <1>1, <1>2, <1>3, <1>4, <1>5 DEF s, t

(* So of the sums of lists: scaled, added, and of values between 0 and b.   *)
LEMMA SumScaled ==
  ASSUME NEW n \in 1..4, NEW P \in Int,
         NEW f, DOMAIN f = 1..n, \A i \in 1..n : f[i] \in Int,
         NEW g, DOMAIN g = 1..n, \A i \in 1..n : g[i] = P * f[i]
  PROVE  Sum(g) = P * Sum(f)
<1> DEFINE a == At(f, 1)
           b == At(f, 2)
           c == At(f, 3)
           d == At(f, 4)
<1>1. a \in Int /\ b \in Int /\ c \in Int /\ d \in Int
  BY DEF At
<1>2. P * 0 = 0
  OBVIOUS
<1>3. At(g, 1) = P * a /\ At(g, 2) = P * b /\ At(g, 3) = P * c /\ At(g, 4) = P * d
  BY <1>2 DEF At
<1> HIDE DEF a, b, c, d
<1>4. P * (a + b + c + d) = P * a + P * b + P * c + P * d
  BY <1>1, Distributes
<1>5. Sum(g) = P * a + P * b + P * c + P * d
  BY <1>3 DEF Sum
<1>6. Sum(f) = a + b + c + d
  BY DEF Sum, a, b, c, d
<1> QED BY <1>4, <1>5, <1>6

LEMMA SumAdded ==
  ASSUME NEW n \in 1..4, NEW g \in [1..n -> Int], NEW e \in [1..n -> Int]
  PROVE  Sum([i \in 1..n |-> g[i] + e[i]]) = Sum(g) + Sum(e)
<1> DEFINE x == [i \in 1..n |-> g[i] + e[i]]
           g1 == At(g, 1)
           g2 == At(g, 2)
           g3 == At(g, 3)
           g4 == At(g, 4)
           e1 == At(e, 1)
           e2 == At(e, 2)
           e3 == At(e, 3)
           e4 == At(e, 4)
<1>1. g1 \in Int /\ e1 \in Int /\ At(x, 1) = g1 + e1
  BY DEF At
<1>2. g2 \in Int /\ e2 \in Int /\ At(x, 2) = g2 + e2
  BY DEF At
<1>3. g3 \in Int /\ e3 \in Int /\ At(x, 3) = g3 + e3
  BY DEF At
<1>4. g4 \in Int /\ e4 \in Int /\ At(x, 4) = g4 + e4
  BY DEF At
<1>5. Sum(g) = g1 + g2 + g3 + g4 /\ Sum(e) = e1 + e2 + e3 + e4
  BY DEF Sum
<1> HIDE DEF x, g1, g2, g3, g4, e1, e2, e3, e4
<1>6. Sum(x) = (g1 + e1) + (g2 + e2) + (g3 + e3) + (g4 + e4)
  BY <1>1, <1>2, <1>3, <1>4 DEF Sum
<1>7. (g1 + e1) + (g2 + e2) + (g3 + e3) + (g4 + e4)
        = (g1 + g2 + g3 + g4) + (e1 + e2 + e3 + e4)
  BY <1>1, <1>2, <1>3, <1>4
<1> QED BY <1>5, <1>6, <1>7 DEF x

LEMMA SumBounded ==
  ASSUME NEW n \in 1..4, NEW b \in Nat, NEW e, DOMAIN e = 1..n,
         \A i \in 1..n : e[i] \in Int /\ 0 <= e[i] /\ e[i] <= b
  PROVE  0 <= Sum(e) /\ Sum(e) <= n * b
<1> DEFINE e1 == At(e, 1)
           e2 == At(e, 2)
           e3 == At(e, 3)
           e4 == At(e, 4)
<1>1. e1 \in Int /\ 0 <= e1 /\ e1 <= b
  BY DEF At
<1>2. e2 \in Int /\ 0 <= e2 /\ e2 <= b /\ (n = 1 => e2 = 0)
  BY DEF At
<1>3. e3 \in Int /\ 0 <= e3 /\ e3 <= b /\ (n \in 1..2 => e3 = 0)
  BY DEF At
<1>4. e4 \in Int /\ 0 <= e4 /\ e4 <= b /\ (n \in 1..3 => e4 = 0)
  BY DEF At
<1>5. Sum(e) = e1 + e2 + e3 + e4
  BY DEF Sum
<1> HIDE DEF e1, e2, e3, e4
<1>6. CASE n = 1
  BY <1>1, <1>2, <1>3, <1>4, <1>5, <1>6
<1>7. CASE n = 2
  BY <1>1, <1>2, <1>3, <1>4, <1>5, <1>7
<1>8. CASE n = 3
  BY <1>1, <1>2, <1>3, <1>4, <1>5, <1>8
<1>9. CASE n = 4
  BY <1>1, <1>2, <1>3, <1>4, <1>5, <1>9
<1> QED BY <1>6, <1>7, <1>8, <1>9

(* The floors of values that sum to one leave at most one integer weight    *)
(* for each of them to hand out.                                            *)
LEMMA LeftoverBounds ==
  ASSUME NEW n \in 1..4, NEW P \in Nat, n < P, NEW D \in Nat,
         NEW x \in [1..n -> Int],
         Sum(x) - D * P \in -n..n,
         NEW f, DOMAIN f = 1..n, \A i \in 1..n : f[i] = x[i] \div P
  PROVE  Sum(f) \in Int /\ D - Sum(f) \in 0..n
<1>0. P \in Nat \ {0}
  OBVIOUS
<1> DEFINE e == [i \in 1..n |-> x[i] % P]
           g == [i \in 1..n |-> P * f[i]]
<1>1. ASSUME NEW i \in 1..n
      PROVE  /\ f[i] \in Int /\ e[i] \in Int /\ g[i] \in Int
             /\ 0 <= e[i] /\ e[i] <= P - 1 /\ x[i] = g[i] + e[i] /\ g[i] = P * f[i]
  <2>1. x[i] \in Int
    OBVIOUS
  <2> DEFINE y == x[i]
  <2> HIDE DEF y
  <2>2. y \in Int
    BY <2>1 DEF y
  <2>3. y \div P \in Int /\ y % P \in Int /\ 0 <= y % P /\ y % P <= P - 1
        /\ y = P * (y \div P) + (y % P)
    BY <1>0, <2>2
  <2>4. f[i] = y \div P /\ e[i] = y % P /\ g[i] = P * f[i]
    BY DEF y
  <2>5. P * f[i] \in Int
    BY <2>3, <2>4
  <2> HIDE DEF e, g
  <2> QED BY <2>3, <2>4, <2>5 DEF y
<1>2. /\ DOMAIN e = 1..n /\ DOMAIN g = 1..n
      /\ e = [i \in 1..n |-> e[i]] /\ g = [i \in 1..n |-> g[i]]
  OBVIOUS
<1> HIDE DEF e, g
<1>3. Sum(f) \in Int /\ Sum(e) \in Int /\ Sum(g) \in Int /\ Sum(x) \in Int
  BY <1>1, <1>2, SumType
<1>4. /\ Sum(g) = P * Sum(f)
      /\ Sum(x) = Sum(g) + Sum(e)
      /\ 0 <= Sum(e) /\ Sum(e) <= n * (P - 1)
  <2>1. P \in Int /\ P - 1 \in Nat
    BY <1>0
  <2>2. Sum(g) = P * Sum(f)
    BY <1>1, <1>2, <2>1, SumScaled, ZenonT(60)
  <2>3. Sum(x) = Sum(g) + Sum(e)
    <3>1. g \in [1..n -> Int] /\ e \in [1..n -> Int]
      BY <1>1, <1>2
    <3>3. Sum([i \in 1..n |-> g[i] + e[i]]) = Sum(g) + Sum(e)
      BY <3>1, SumAdded
    <3>4. x = [i \in 1..n |-> x[i]] /\ \A i \in 1..n : x[i] = g[i] + e[i]
      BY <1>1
    <3>5. x = [i \in 1..n |-> g[i] + e[i]]
      BY <3>4
    <3> QED BY <3>3, <3>5
  <2>4. 0 <= Sum(e) /\ Sum(e) <= n * (P - 1)
    <3> DEFINE b == P - 1
    <3>1. b \in Nat /\ \A i \in 1..n : e[i] \in Int /\ 0 <= e[i] /\ e[i] <= b
      BY <1>1, <2>1
    <3> HIDE DEF b
    <3>2. 0 <= Sum(e) /\ Sum(e) <= n * b
      BY <1>2, <3>1, SumBounded
    <3> QED BY <3>2 DEF b
  <2> QED BY <2>2, <2>3, <2>4
<1> DEFINE L == D - Sum(f)
           F == Sum(f)
           E == Sum(e)
           X == Sum(x)
           G == Sum(g)
<1>5. L \in Int /\ F \in Int /\ E \in Int /\ X \in Int /\ G \in Int /\ L = D - F
      /\ G = P * F /\ X = G + E /\ 0 <= E /\ E <= n * (P - 1) /\ X - D * P \in -n..n
  BY <1>3, <1>4
<1> HIDE DEF L, F, E, X, G
<1>6. P * L = D * P - G
  BY <1>5
<1>7. P * L >= -n /\ P * L <= n * P
  <2>1. n * (P - 1) = n * P - n
    OBVIOUS
  <2>2. D * P \in Int /\ n * P \in Int /\ P * L \in Int
    BY <1>5
  <2> QED BY <1>5, <1>6, <2>1, <2>2
<1>8. L >= 0
  <2>1. SUFFICES ASSUME L <= -1 PROVE FALSE
    BY <1>5
  <2>2. P * L <= P * (-1)
    BY <1>0, <1>5, <2>1
  <2>3. P * (-1) = -P /\ P * L \in Int
    BY <1>5
  <2> QED BY <1>7, <2>2, <2>3
<1>9. L <= n
  <2>1. SUFFICES ASSUME L >= n + 1 PROVE FALSE
    BY <1>5
  <2>2. P * L >= P * (n + 1)
    BY <1>0, <1>5, <2>1
  <2>3. P * (n + 1) = n * P + P /\ P * L \in Int /\ n * P \in Int
    BY <1>5
  <2> QED BY <1>0, <1>7, <2>2, <2>3
<1> QED BY <1>5, <1>8, <1>9 DEF L, F

(* Handing one more to the first L of n values adds L to the sum. *)
LEMMA SumHandedOut ==
  ASSUME NEW n \in 1..4, NEW f, DOMAIN f = 1..n, \A i \in 1..n : f[i] \in Int,
         NEW L \in 0..n
  PROVE  Sum([i \in 1..n |-> f[i] + (IF i <= L THEN 1 ELSE 0)]) = Sum(f) + L
<1> DEFINE x == [i \in 1..n |-> f[i] + (IF i <= L THEN 1 ELSE 0)]
<1>1. DOMAIN x = 1..n /\ \A i \in 1..n : x[i] = f[i] + (IF i <= L THEN 1 ELSE 0)
  OBVIOUS
<1> HIDE DEF x
<1>2. Sum(x) = Sum(f) + L
  <2>1. CASE n = 1
    BY <1>1, <2>1 DEF Sum, At
  <2>2. CASE n = 2
    BY <1>1, <2>2 DEF Sum, At
  <2>3. CASE n = 3
    BY <1>1, <2>3 DEF Sum, At
  <2>4. CASE n = 4
    BY <1>1, <2>4 DEF Sum, At
  <2> QED BY <2>1, <2>2, <2>3, <2>4
<1> QED BY <1>2 DEF x

(* FibEntry::new accepts what quantise makes of weights on the simplex, and *)
(* no slot is more than one integer weight away from its weight.            *)
LEMMA QuantiseAccepted ==
  ASSUME NEW N, NEW w, WeightMap(w, N), Balanced(w),
         \A nh \in DOMAIN w : w[nh] >= MINIMUM_WEIGHT,
         NEW weighted \in quantise(w)
  PROVE  /\ FibEntryOk(weighted)
         /\ \A i \in DOMAIN weighted :
              weighted[i].weight * Precision - w[weighted[i].nexthop] \in -Precision..Precision
<1> DEFINE n == Cardinality(DOMAIN w)
           key == [nh \in DOMAIN w |-> w[nh] % Precision]
           floor(order) == [i \in DOMAIN order |-> w[order[i]] \div Precision]
           leftover(order) == (WEIGHT_DENOMINATOR - Sum(floor(order))) % U16
<1>1. PICK order \in DescendingOrders(DOMAIN w, key) :
        weighted = [i \in DOMAIN order |->
          Weighted(order[i], floor(order)[i] + (IF i <= leftover(order) THEN 1 ELSE 0))]
  BY DEF quantise
<1>2. n \in 1..4 /\ n \in 1..MAX_NEXTHOPS /\ n < Precision
  <2>1. n \in 1..MAX_NEXTHOPS
    BY DEF Balanced
  <2> HIDE DEF n
  <2> QED BY <2>1, DescentAssumption
<1>3. order \in [1..n -> DOMAIN w] /\ DOMAIN order = 1..n /\ IsInjective(order)
  BY DEF DescendingOrders
<1>4. order \in Listings(DOMAIN w)
  BY <1>3 DEF Listings
<1> DEFINE x == Listed(w, order)
           f == floor(order)
           L == leftover(order)
<1>5. Sum(x) - One \in -n..n
  BY <1>4 DEF Balanced
<1>6. x = [i \in 1..n |-> w[order[i]]]
  BY DEF Listed
<1>7. DOMAIN f = 1..n /\ \A i \in 1..n : f[i] = w[order[i]] \div Precision
  BY <1>3
<1>8. L = (WEIGHT_DENOMINATOR - Sum(f)) % U16
  OBVIOUS
<1>9. /\ DOMAIN weighted = 1..n
      /\ \A i \in 1..n : weighted[i] = Weighted(order[i], f[i] + (IF i <= L THEN 1 ELSE 0))
  BY <1>1, <1>3
<1> HIDE DEF n, key, floor, leftover, x, f, L
<1>10. x \in [1..n -> Int] /\ \A i \in 1..n : x[i] = w[order[i]] /\ f[i] = x[i] \div Precision
  BY <1>3, <1>6, <1>7 DEF WeightMap
<1>11. Sum(f) \in Int /\ WEIGHT_DENOMINATOR - Sum(f) \in 0..n
  <2>1. Precision \in Nat /\ WEIGHT_DENOMINATOR \in Nat
    BY DescentAssumption
  <2>2. Sum(x) - WEIGHT_DENOMINATOR * Precision \in -n..n
    BY <1>5 DEF One
  <2> QED BY <1>2, <1>7, <1>10, <2>1, <2>2, LeftoverBounds, ZenonT(60)
<1>12. L = WEIGHT_DENOMINATOR - Sum(f) /\ L \in 0..n
  <2> DEFINE d == WEIGHT_DENOMINATOR - Sum(f)
  <2>1. d \in 0..n /\ L = d % 65536
    BY <1>8, <1>11 DEF U16
  <2> HIDE DEF d
  <2>2. d % 65536 = d
    BY <1>2, <2>1
  <2> QED BY <2>1, <2>2 DEF d
<1>13. \A i \in 1..n : f[i] \in Int
  BY <1>10, DescentAssumption
<1>14. Sum([i \in 1..n |-> f[i] + (IF i <= L THEN 1 ELSE 0)]) = Sum(f) + L
  BY <1>2, <1>7, <1>12, <1>13, SumHandedOut
<1>15. WeightsOf(weighted) = [i \in 1..n |-> f[i] + (IF i <= L THEN 1 ELSE 0)]
  BY <1>9 DEF WeightsOf, Weighted
<1>16. Sum(WeightsOf(weighted)) = WEIGHT_DENOMINATOR
  BY <1>11, <1>12, <1>14, <1>15, DescentAssumption
<1>17. Len(weighted) \in 1..MAX_NEXTHOPS
  <2>1. weighted \in Seq(Slot(N))
    BY QuantiseProperties
  <2>2. Len(weighted) = n
    BY <1>2, <1>9, <2>1
  <2> QED BY <1>2, <2>2
<1>18. \A i \in DOMAIN weighted : weighted[i].weight # 0
  <2>1. \A i \in DOMAIN weighted : weighted[i].weight >= MinimumSlot
    BY QuantiseFloor
  <2>2. MinimumSlot \in Nat /\ MinimumSlot >= 1
    <3>1. FloorInverse * 1 <= WEIGHT_DENOMINATOR
      BY DescentAssumption
    <3> QED BY <3>1, DivAtLeast, DescentAssumption DEF MinimumSlot
  <2> QED BY <2>1, <2>2
<1>19. ASSUME NEW i \in 1..n
       PROVE  weighted[i].weight * Precision - w[weighted[i].nexthop] \in -Precision..Precision
  <2> DEFINE e == IF i <= L THEN 1 ELSE 0
             y == x[i]
             q == y \div Precision
  <2>1. e \in {0, 1} /\ y \in Int
    BY <1>10
  <2>2. weighted[i].nexthop = order[i] /\ weighted[i].weight = q + e
    BY <1>9, <1>10 DEF Weighted
  <2>3. w[weighted[i].nexthop] = y
    BY <1>10, <2>2
  <2> HIDE DEF e, y
  <2>4. Precision \in Nat \ {0}
    BY DescentAssumption
  <2>5. q \in Int /\ Precision * q <= y /\ y < Precision * q + Precision
    BY <2>1, <2>4
  <2> HIDE DEF q
  <2>6. (q + e) * Precision = Precision * q + e * Precision
    BY <2>1, <2>4, <2>5
  <2>7. Precision * q \in Int /\ (e * Precision = 0 \/ e * Precision = Precision)
    BY <2>1, <2>4, <2>5
  <2>8. (q + e) * Precision - y \in -Precision..Precision
    BY <2>1, <2>4, <2>5, <2>6, <2>7
  <2> QED BY <2>2, <2>3, <2>8
<1> QED BY <1>9, <1>16, <1>17, <1>18, <1>19 DEF FibEntryOk

(* A step does not let the costlier of two measured nexthops overtake the   *)
(* other: the gradient moves it further down, and the projection moves both *)
(* by the same threshold.                                                   *)
LEMMA StepKeepsOrder ==
  ASSUME NEW N, NEW w, WeightMap(w, N),
         NEW nhs \in Seq(N), Len(nhs) \in 1..MAX_NEXTHOPS, IsInjective(nhs),
         NEW ws, Windows(ws), NEW x \in step(w, nhs, ws), DOMAIN w = DOMAIN x,
         NEW a \in DOMAIN w, a \in DOMAIN ws, NEW b \in DOMAIN w, b \in DOMAIN ws,
         w[a] >= w[b], gradient(ws[a]) <= gradient(ws[b])
  PROVE  x[a] >= x[b]
<1> DEFINE start == reconcile(w, nhs)
           moved == descend(start, nhs, ws)
           cost(nh) == (gradient(ws[nh]) * One) \div RateInverse
<1>1. WeightMap(start, N) /\ DOMAIN start = Range(nhs)
  BY ReconcileProperties
<1>2. DOMAIN x = Range(nhs)
  BY StepProperties
<1>3. a \in Range(nhs) /\ b \in Range(nhs) /\ w[a] \in Int /\ w[b] \in Int
  BY <1>2 DEF WeightMap
<1>4. start[a] \in Int /\ start[b] \in Int /\ start[a] >= start[b]
  <2>1. start[a] \in Int /\ start[b] \in Int
    BY <1>1, <1>3 DEF WeightMap
  <2>2. CASE \/ Cardinality(DOMAIN w) # Len(nhs)
             \/ \E i \in DOMAIN nhs : nhs[i] \notin DOMAIN w
    <3>1. start = [nh \in Range(nhs) |-> One \div Len(nhs)]
      BY <2>2 DEF reconcile
    <3>2. start[a] = start[b]
      BY <1>3, <3>1
    <3> HIDE DEF start
    <3> QED BY <2>1, <3>2
  <2>3. CASE /\ Cardinality(DOMAIN w) = Len(nhs)
             /\ \A i \in DOMAIN nhs : nhs[i] \in DOMAIN w
    <3>1. start = w
      BY <2>3 DEF reconcile
    <3> QED BY <1>3, <3>1
  <2> QED BY <2>1, <2>2, <2>3
<1>5. WeightMap(moved, N) /\ DOMAIN moved = DOMAIN start
  BY <1>1, DescendProperties
<1>6. PICK order \in DescendingOrders(DOMAIN moved, moved), round \in {0, 1} :
        x = project(moved, order, round)
  BY DEF step, start
<1>7. ASSUME NEW nh \in Range(nhs)
      PROVE  Cardinality({i \in DOMAIN nhs : nhs[i] = nh}) = 1
  <2>1. PICK i \in DOMAIN nhs : nhs[i] = nh
    BY DEF Range
  <2>2. {j \in DOMAIN nhs : nhs[j] = nh} = {i}
    BY <2>1 DEF IsInjective
  <2> QED BY <2>2, FS_Singleton
<1> HIDE DEF start
<1>8. moved[a] = start[a] - 1 * cost(a) /\ moved[b] = start[b] - 1 * cost(b)
  BY <1>1, <1>3, <1>7 DEF descend
<1>9. cost(a) \in Int /\ cost(b) \in Int /\ cost(a) <= cost(b)
  <2> DEFINE ga == gradient(ws[a])
             gb == gradient(ws[b])
             ca == (ga * One) \div RateInverse
  <2>1. ga \in Nat /\ gb \in Nat /\ ga <= gb
    BY DEF Windows, gradient, Positive
  <2> HIDE DEF ga, gb
  <2>2. ga * One \in Nat /\ gb * One \in Nat /\ ga * One <= gb * One
    BY <2>1, UnitTypes
  <2>3. ca \in Nat /\ RateInverse * ca <= ga * One
    BY <2>2, DescentAssumption
  <2> HIDE DEF ca
  <2>4. RateInverse * ca <= gb * One
    BY <2>2, <2>3, DescentAssumption
  <2>5. (gb * One) \div RateInverse \in Nat /\ (gb * One) \div RateInverse >= ca
    BY <2>2, <2>3, <2>4, DivAtLeast, DescentAssumption
  <2>6. cost(a) = ca /\ cost(b) = (gb * One) \div RateInverse
    BY DEF ca, ga, gb
  <2> HIDE DEF cost
  <2> QED BY <2>3, <2>5, <2>6
<1> HIDE DEF moved, cost
<1>10. moved[a] \in Int /\ moved[b] \in Int /\ moved[a] >= moved[b]
  BY <1>4, <1>8, <1>9
<1> DEFINE n == Cardinality(DOMAIN moved)
           v == [i \in DOMAIN order |-> moved[order[i]] - MINIMUM_WEIGHT]
           r == One - Len(order) * MINIMUM_WEIGHT
           tau == threshold(v, r, round)
<1>11. tau \in Int
  <2>1. n \in 0..4
    BY <1>5, DescentAssumption, FS_CardinalityType DEF WeightMap
  <2>2. order \in [1..n -> DOMAIN moved] /\ DOMAIN order = 1..n
    BY DEF DescendingOrders
  <2>3. Len(order) = n
    BY <2>1, <2>2
  <2>4. r \in Int
    BY <2>1, <2>3, UnitTypes
  <2>5. DOMAIN v = 1..n /\ \A i \in 1..n : v[i] \in Int
    BY <1>5, <2>2, UnitTypes DEF WeightMap
  <2> HIDE DEF v, r, n
  <2> QED BY <2>1, <2>4, <2>5, ThresholdType
<1>12. x = [nh \in DOMAIN moved |-> Positive(moved[nh] - MINIMUM_WEIGHT - tau) + MINIMUM_WEIGHT]
  BY <1>6 DEF project
<1> HIDE DEF tau
<1>13. /\ x[a] = Positive(moved[a] - MINIMUM_WEIGHT - tau) + MINIMUM_WEIGHT
       /\ x[b] = Positive(moved[b] - MINIMUM_WEIGHT - tau) + MINIMUM_WEIGHT
  BY <1>1, <1>3, <1>5, <1>12
<1> QED BY <1>10, <1>11, <1>13, UnitTypes DEF Positive
============================================================================
