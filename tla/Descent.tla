------------------------------ MODULE Descent ------------------------------
(***************************************************************************)
(* The numerical core of steering: projected online gradient descent over *)
(* the weights of one NLRI's nexthops (steering.rs, mod descent), the      *)
(* equal split used when a route changes (balance_equally) and the         *)
(* constructor that validates and orders a FIB entry (bpf::FibEntry::new). *)
(*                                                                         *)
(* The code computes with f64. A weight is modelled in fixed point, as a   *)
(* whole number of units of 1/One; a division is rounded down or up (the   *)
(* parameter `round', 0 or 1), so that both signs of a floating point      *)
(* error are explored.                                                     *)
(***************************************************************************)
EXTENDS Integers, Sequences, FiniteSets, Functions

CONSTANTS
  MAX_NEXTHOPS,        \* slots of a FIB entry (4 in the code)
  WEIGHT_DENOMINATOR,  \* the integer weights of a FIB entry sum to this (10000)
  FloorInverse,        \* MINIMUM_WEIGHT = 1 / FloorInverse (100 in the code)
  RateInverse,         \* LEARNING_RATE = 1 / RateInverse (2 * 10^7 in the code)
  Precision            \* fixed-point units per unit of integer weight

ASSUME DescentAssumption ==
  /\ MAX_NEXTHOPS \in 1..4
  /\ WEIGHT_DENOMINATOR \in Nat \ {0}
  /\ FloorInverse \in Nat \ {0}
  /\ RateInverse \in Nat \ {0}
  /\ Precision \in Nat \ {0}
  \* every nexthop can have its floor, and a floor is at least one integer weight
  /\ MAX_NEXTHOPS < FloorInverse
  /\ FloorInverse <= WEIGHT_DENOMINATOR
  \* the rounding error of a projection stays below one integer weight
  /\ MAX_NEXTHOPS < Precision

(* The f64 1.0 and the constant MINIMUM_WEIGHT, in fixed-point units. *)
One == WEIGHT_DENOMINATOR * Precision
MINIMUM_WEIGHT == One \div FloorInverse

U16 == 65536

(* max(0.0) of an f64, and a saturating subtraction of unsigned integers. *)
Positive(x) == IF x > 0 THEN x ELSE 0

(* The sum of a list of at most four numbers. *)
At(s, i) == IF i \in DOMAIN s THEN s[i] ELSE 0
Sum(s) == At(s, 1) + At(s, 2) + At(s, 3) + At(s, 4)

Weighted(nexthop, weight) == [nexthop |-> nexthop, weight |-> weight]

(* The nexthops and the weights of a list of weighted nexthops. *)
NexthopsOf(weighted) == {weighted[i].nexthop : i \in DOMAIN weighted}
WeightsOf(weighted) == [i \in DOMAIN weighted |-> weighted[i].weight]

(* The listings of a finite set that put larger keys first: what sort_by    *)
(* with a descending total_cmp can leave, whichever order the HashMap gave.  *)
DescendingOrders(S, key) ==
  {s \in [1..Cardinality(S) -> S] :
     /\ IsInjective(s)
     /\ \A i, j \in DOMAIN s : i < j => key[s[i]] >= key[s[j]]}

---------------------------------------------------------------------------
(* The descent's parts, in the order `step' calls them. *)

(* gradient: the window's latency plus its congestion. *)
gradient(win) == win.avg_srtt_us + Positive(win.avg_srtt_us - win.min_rtt_min)

reconcileByLength(weights, nexthops) ==
  IF Cardinality(DOMAIN weights) # Len(nexthops)
  THEN [nh \in Range(nexthops) |-> One \div Len(nexthops)]
  ELSE weights

reconcileAlways(weights, nexthops) ==
  [nh \in Range(nexthops) |-> One \div Len(nexthops)]

(* reconcile: start again from the uniform weights unless the stored map    *)
(* has exactly as many entries as there are nexthops and covers them all.   *)
reconcile(weights, nexthops) ==
  IF \/ Cardinality(DOMAIN weights) # Len(nexthops)
     \/ \E i \in DOMAIN nexthops : nexthops[i] \notin DOMAIN weights
  THEN [nh \in Range(nexthops) |-> One \div Len(nexthops)]
  ELSE weights

ascend(weights, nexthops, windows) ==
  [nh \in DOMAIN weights |->
     IF nh \in DOMAIN windows
     THEN weights[nh] + (gradient(windows[nh]) * One) \div RateInverse
     ELSE MINIMUM_WEIGHT]

(* The update loop of `step': a nexthop with a window moves against its     *)
(* gradient, once for every path that lists it; one without is put on the   *)
(* floor. A key of the map that no path lists is left alone.                *)
descend(weights, nexthops, windows) ==
  [nh \in DOMAIN weights |->
     IF nh \notin Range(nexthops) THEN weights[nh]
     ELSE IF nh \in DOMAIN windows
     THEN weights[nh] - Cardinality({i \in DOMAIN nexthops : nexthops[i] = nh})
                          * ((gradient(windows[nh]) * One) \div RateInverse)
     ELSE MINIMUM_WEIGHT]

(* The threshold of `project' over the values in descending order: the last *)
(* candidate that its own value survives.                                   *)
candidate(v, r, round, k) ==
  (Sum([i \in 1..k |-> v[i]]) - r + round * (k - 1)) \div k

survivors(v, r, round) == {k \in DOMAIN v : v[k] - candidate(v, r, round, k) > 0}

threshold(v, r, round) ==
  IF survivors(v, r, round) = {} THEN 0
  ELSE candidate(v, r, round,
         CHOOSE k \in survivors(v, r, round) : \A j \in survivors(v, r, round) : j <= k)

projectNoClamp(weights, order, round) ==
  LET v == [i \in DOMAIN order |-> weights[order[i]] - MINIMUM_WEIGHT]
      tau == threshold(v, One - Len(order) * MINIMUM_WEIGHT, round)
  IN  [nh \in DOMAIN weights |-> weights[nh] - tau]

(* project: the nearest point whose weights are at least the floor and sum  *)
(* to one. `order' lists the map's nexthops, the heaviest first.            *)
project(weights, order, round) ==
  LET v == [i \in DOMAIN order |-> weights[order[i]] - MINIMUM_WEIGHT]
      tau == threshold(v, One - Len(order) * MINIMUM_WEIGHT, round)
  IN  [nh \in DOMAIN weights |->
         Positive(weights[nh] - MINIMUM_WEIGHT - tau) + MINIMUM_WEIGHT]

quantiseFloors(weights) ==
  {[i \in DOMAIN order |-> Weighted(order[i], weights[order[i]] \div Precision)] :
     order \in DescendingOrders(DOMAIN weights, weights)}

(* quantise: floors, then +1 for the `leftover' nexthops with the largest   *)
(* remainders. The set holds one list for every order of equal remainders.  *)
(* `leftover' is a u16 difference.                                          *)
quantise(weights) ==
  {LET floor == [i \in DOMAIN order |-> weights[order[i]] \div Precision]
       leftover == (WEIGHT_DENOMINATOR - Sum(floor)) % U16
   IN  [i \in DOMAIN order |->
          Weighted(order[i], floor[i] + (IF i <= leftover THEN 1 ELSE 0))] :
     order \in DescendingOrders(DOMAIN weights,
                 [nh \in DOMAIN weights |-> weights[nh] % Precision])}

(* Descent::step on the stored weights of one NLRI (the empty function when *)
(* it has none): the weights it can store. The list it returns is one of    *)
(* quantise of them.                                                        *)
step(weights, nexthops, windows) ==
  LET moved == descend(reconcile(weights, nexthops), nexthops, windows)
  IN  {project(moved, order, round) :
         order \in DescendingOrders(DOMAIN moved, moved), round \in {0, 1}}

---------------------------------------------------------------------------
(* balance_equally, for a non-empty list of at most MAX_NEXTHOPS nexthops:  *)
(* the remainder is spread first to last.                                   *)
balance_equally(nexthops) ==
  [i \in DOMAIN nexthops |->
     Weighted(nexthops[i],
              WEIGHT_DENOMINATOR \div Len(nexthops)
                + (IF i <= WEIGHT_DENOMINATOR % Len(nexthops) THEN 1 ELSE 0))]

(* FibEntry::new succeeds. *)
FibEntryOk(weighted) ==
  /\ Len(weighted) \in 1..MAX_NEXTHOPS
  /\ Sum(WeightsOf(weighted)) = WEIGHT_DENOMINATOR
  /\ \A i \in DOMAIN weighted : weighted[i].weight # 0

(* The slots that come no later than slot i in a stable sort by address. *)
Before(weighted, i) ==
  {j \in DOMAIN weighted :
     \/ weighted[j].nexthop < weighted[i].nexthop
     \/ weighted[j].nexthop = weighted[i].nexthop /\ j <= i}

FibEntryUnsorted(weighted) == weighted

(* The entry FibEntry::new builds: the nexthops sorted by address. *)
FibEntry(weighted) ==
  [k \in DOMAIN weighted |->
     weighted[CHOOSE i \in DOMAIN weighted : Cardinality(Before(weighted, i)) = k]]
============================================================================
