-------------------------- MODULE SteeringProofs --------------------------
(***************************************************************************)
(* Proofs about the steering controller, for every set of NLRIs, path ids, *)
(* nexthops, updates and snapshots and every capacity.                     *)
(***************************************************************************)
EXTENDS Steering, DescentProofs

Path == [path_id : PathIds, nexthop : Nexthops]

DistinctPaths(entries) ==
  \A i, j \in DOMAIN entries : entries[i].path_id = entries[j].path_id => i = j

(* Vec::retain leaves a list of paths, without the path id and as distinct  *)
(* as before.                                                               *)
LEMMA RetainProperties ==
  ASSUME NEW entries \in Seq(Path), NEW path_id, DistinctPaths(entries)
  PROVE  /\ retain(entries, path_id) \in Seq(Path)
         /\ DistinctPaths(retain(entries, path_id))
         /\ \A i \in DOMAIN retain(entries, path_id) :
              retain(entries, path_id)[i].path_id # path_id
<1>1. CASE ~ \E i \in DOMAIN entries : entries[i].path_id = path_id
  BY <1>1 DEF retain
<1>2. CASE \E i \in DOMAIN entries : entries[i].path_id = path_id
  <2> DEFINE i == CHOOSE i \in DOMAIN entries : entries[i].path_id = path_id
             front == SubSeq(entries, 1, i - 1)
             back == SubSeq(entries, i + 1, Len(entries))
             left == front \o back
  <2>1. i \in DOMAIN entries /\ entries[i].path_id = path_id
    BY <1>2
  <2>2. i \in 1..Len(entries)
    BY <2>1
  <2>3. retain(entries, path_id) = left
    BY <1>2 DEF retain
  <2> HIDE DEF i
  <2>4. front \in Seq(Path) /\ Len(front) = i - 1
        /\ \A k \in 1..(i - 1) : front[k] = entries[k]
    BY <2>2, SubSeqProperties
  <2>5. back \in Seq(Path) /\ Len(back) = Len(entries) - i
        /\ \A k \in 1..(Len(entries) - i) : back[k] = entries[i + k]
    BY <2>2, SubSeqProperties
  <2> HIDE DEF front, back
  <2>6. left \in Seq(Path) /\ Len(left) = Len(entries) - 1
        /\ \A k \in 1..Len(left) :
             left[k] = IF k < i THEN entries[k] ELSE entries[k + 1]
    <3>0. front \in Seq(Path) /\ back \in Seq(Path)
      BY <2>4, <2>5
    <3>1. left \in Seq(Path) /\ Len(left) = Len(front) + Len(back)
      BY <3>0, ConcatProperties
    <3>2. \A k \in 1..(Len(front) + Len(back)) :
            left[k] = IF k <= Len(front) THEN front[k] ELSE back[k - Len(front)]
      BY <3>0, ConcatProperties
    <3> HIDE DEF left
    <3>3. Len(left) = Len(entries) - 1
      BY <2>2, <2>4, <2>5, <3>1
    <3>4. ASSUME NEW k \in 1..Len(left)
          PROVE  left[k] = IF k < i THEN entries[k] ELSE entries[k + 1]
      <4>1. CASE k < i
        BY <2>2, <2>4, <2>5, <3>1, <3>2, <4>1
      <4>2. CASE ~(k < i)
        <5>1. left[k] = back[k - (i - 1)] /\ k - (i - 1) \in 1..(Len(entries) - i)
          BY <2>2, <2>4, <2>5, <3>1, <3>2, <4>2
        <5>2. i + (k - (i - 1)) = k + 1
          BY <2>2
        <5> QED BY <2>5, <4>2, <5>1, <5>2
      <4> QED BY <4>1, <4>2
    <3> QED BY <3>1, <3>3, <3>4
  <2> HIDE DEF left
  <2>7. DOMAIN left = 1..Len(left) /\ DOMAIN entries = 1..Len(entries)
        /\ Len(entries) \in Nat
    BY <2>6
  <2>8. DistinctPaths(left)
    <3> SUFFICES ASSUME NEW j \in DOMAIN left, NEW k \in DOMAIN left,
                        left[j].path_id = left[k].path_id
                 PROVE  j = k
      BY DEF DistinctPaths
    <3> DEFINE at(x) == IF x < i THEN x ELSE x + 1
    <3>1. left[j] = entries[at(j)] /\ left[k] = entries[at(k)]
      BY <2>6, <2>7
    <3>2. at(j) \in DOMAIN entries /\ at(k) \in DOMAIN entries
      BY <2>2, <2>6, <2>7
    <3>3. at(j) = at(k)
      BY <3>1, <3>2 DEF DistinctPaths
    <3> QED BY <2>2, <2>7, <3>3
  <2>9. \A k \in DOMAIN left : left[k].path_id # path_id
    BY <2>1, <2>2, <2>6, <2>7 DEF DistinctPaths
  <2> QED BY <2>3, <2>6, <2>8, <2>9
<1> QED BY <1>1, <1>2

---------------------------------------------------------------------------
(* A RIB: its NLRIs have paths, with distinct path ids. *)
RibOK(table) ==
  /\ DOMAIN table \subseteq Nlris
  /\ \A n \in DOMAIN table :
       table[n] \in Seq(Path) /\ table[n] # <<>> /\ DistinctPaths(table[n])

(* entriesOf of a RIB is a list of distinct paths, empty for an absent NLRI. *)
LEMMA EntriesProperties ==
  ASSUME NEW table, RibOK(table), NEW n
  PROVE  /\ entriesOf(table, n) \in Seq(Path)
         /\ DistinctPaths(entriesOf(table, n))
         /\ entriesOf(table, n) = <<>> <=> n \notin DOMAIN table
BY DEF RibOK, entriesOf, DistinctPaths

(* Rib::insert and Rib::remove touch one NLRI and leave a RIB. *)
LEMMA InsertProperties ==
  ASSUME NEW table, RibOK(table), NEW route \in Route, NEW nexthop \in Nexthops
  PROVE  /\ RibOK(insert(table, route, nexthop))
         /\ DOMAIN insert(table, route, nexthop) = DOMAIN table \cup {route.nlri}
         /\ \A n \in DOMAIN table \ {route.nlri} :
              insert(table, route, nexthop)[n] = table[n]
<1> DEFINE kept == retain(entriesOf(table, route.nlri), route.path_id)
           path == [path_id |-> route.path_id, nexthop |-> nexthop]
           entries == Append(kept, path)
<1>1. /\ kept \in Seq(Path) /\ DistinctPaths(kept)
      /\ \A i \in DOMAIN kept : kept[i].path_id # route.path_id
  BY EntriesProperties, RetainProperties
<1>2. path \in Path /\ path.path_id = route.path_id /\ route.nlri \in Nlris
  BY DEF Path, Route
<1> HIDE DEF kept, path
<1>3. /\ entries \in Seq(Path) /\ Len(entries) = Len(kept) + 1
      /\ \A i \in 1..Len(kept) : entries[i] = kept[i]
      /\ entries[Len(kept) + 1] = path
  BY <1>1, <1>2, AppendProperties
<1> HIDE DEF entries
<1>4. DOMAIN entries = 1..Len(entries) /\ DOMAIN kept = 1..Len(kept) /\ Len(kept) \in Nat
  BY <1>1, <1>3
<1>5. DistinctPaths(entries)
  BY <1>1, <1>2, <1>3, <1>4 DEF DistinctPaths
<1>6. entries # <<>>
  BY <1>3, <1>4
<1>7. insert(table, route, nexthop) = with(table, route.nlri, entries)
  BY DEF insert, kept, path, entries
<1> QED BY <1>2, <1>3, <1>5, <1>6, <1>7 DEF with, RibOK

LEMMA RemoveProperties ==
  ASSUME NEW table, RibOK(table), NEW route \in Route
  PROVE  /\ RibOK(remove(table, route))
         /\ DOMAIN table \ {route.nlri} \subseteq DOMAIN remove(table, route)
         /\ DOMAIN remove(table, route) \subseteq DOMAIN table
         /\ \A n \in DOMAIN table \ {route.nlri} : remove(table, route)[n] = table[n]
<1> DEFINE n == route.nlri
           left == retain(table[n], route.path_id)
<1>1. CASE n \notin DOMAIN table
  BY <1>1 DEF remove
<1>2. CASE n \in DOMAIN table
  <2>1. table[n] \in Seq(Path) /\ DistinctPaths(table[n])
    BY <1>2 DEF RibOK
  <2>2. left \in Seq(Path) /\ DistinctPaths(left)
    BY <2>1, RetainProperties
  <2>3. remove(table, route) = IF left = <<>> THEN without(table, n) ELSE with(table, n, left)
    BY <1>2 DEF remove
  <2> HIDE DEF left, n
  <2>4. CASE left = <<>>
    BY <1>2, <2>3, <2>4 DEF without, RibOK, n
  <2>5. CASE left # <<>>
    BY <1>2, <2>2, <2>3, <2>5 DEF with, RibOK, n
  <2> QED BY <2>4, <2>5
<1> QED BY <1>1, <1>2

(* Rib::nexthops, cut to MAX_NEXTHOPS, depends on the NLRI's entries only. *)
LEMMA NexthopsProperties ==
  ASSUME NEW table, RibOK(table), NEW n
  PROVE  /\ nexthops(table, n) \in Seq(Nexthops)
         /\ Len(nexthops(table, n)) <= MAX_NEXTHOPS
         /\ n \in DOMAIN table => Len(nexthops(table, n)) \in 1..MAX_NEXTHOPS
         /\ n \notin DOMAIN table => nexthops(table, n) = <<>>
<1> DEFINE entries == entriesOf(table, n)
           count == IF Len(entries) < MAX_NEXTHOPS THEN Len(entries) ELSE MAX_NEXTHOPS
           list == [i \in 1..count |-> entries[i].nexthop]
<1>1. entries \in Seq(Path) /\ (entries = <<>> <=> n \notin DOMAIN table)
  BY EntriesProperties
<1>2. nexthops(table, n) = list
  BY DEF nexthops
<1> HIDE DEF entries
<1>3. MAX_NEXTHOPS \in 1..4
  BY DescentAssumption
<1>4. Len(entries) \in Nat /\ (Len(entries) = 0 <=> entries = <<>>)
  BY <1>1
<1>5. count \in 0..MAX_NEXTHOPS /\ count <= Len(entries) /\ (count = 0 <=> entries = <<>>)
  BY <1>3, <1>4
<1> HIDE DEF count
<1>6. ASSUME NEW i \in 1..count
      PROVE  entries[i].nexthop \in Nexthops
  <2>1. i \in 1..Len(entries)
    BY <1>3, <1>4, <1>5
  <2>2. entries[i] \in Path
    BY <1>1, <2>1, ElementOfSeq
  <2> QED BY <2>2 DEF Path
<1>7. list \in Seq(Nexthops) /\ Len(list) = count
  BY <1>3, <1>5, <1>6, IsASeq
<1>8. count = 0 => list = <<>>
  BY <1>5, <1>7
<1> QED BY <1>1, <1>2, <1>3, <1>5, <1>7, <1>8

---------------------------------------------------------------------------
(* e_fib: entries of well-typed slots. *)
FibOK(map) ==
  /\ DOMAIN map \subseteq Nlris
  /\ \A n \in DOMAIN map : map[n] \in Seq(FibSlot)

(* Fib::insert leaves the other keys alone. It writes the sorted list, or   *)
(* changes nothing.                                                         *)
FibInserted(map, n, weighted, m) ==
  /\ FibOK(m)
  /\ \/ m = map
     \/ /\ DOMAIN m = DOMAIN map \cup {n}
        /\ \A x \in DOMAIN map \ {n} : m[x] = map[x]
        /\ NexthopsOf(m[n]) = NexthopsOf(weighted)
  /\ FibEntryOk(weighted) /\ n \in DOMAIN m => NexthopsOf(m[n]) = NexthopsOf(weighted)

LEMMA FibInsertProperties ==
  ASSUME NEW map, FibOK(map), NEW n \in Nlris, NEW weighted \in Seq(Slot(Nexthops))
  PROVE  FibInserted(map, n, weighted, fib_insert(map, n, weighted))
<1> DEFINE m == fib_insert(map, n, weighted)
<1>0. \A i \in 1..Len(weighted) : weighted[i] \in Slot(Nexthops)
  BY ElementOfSeq
<1>1. ASSUME NEW i \in DOMAIN weighted
      PROVE  weighted[i].nexthop \in Int
  <2>1. weighted[i] \in Slot(Nexthops)
    BY <1>0
  <2>2. weighted[i].nexthop \in Nexthops
    BY <2>1 DEF Slot
  <2> QED BY <2>2, SteeringAssumption
<1>2. CASE FibEntryOk(weighted)
  <2>1. weighted \in Seq(FibSlot)
    <3>1. ASSUME NEW i \in 1..Len(weighted)
          PROVE  weighted[i] \in FibSlot
      <4>1. weighted[i] \in Slot(Nexthops)
        BY <1>0
      <4>2. weighted[i].weight # 0
        BY <1>2 DEF FibEntryOk
      <4> QED BY <4>1, <4>2 DEF Slot, FibSlot
    <3> QED BY <3>1
  <2>2. /\ FibEntry(weighted) \in Seq(FibSlot)
        /\ NexthopsOf(FibEntry(weighted)) = NexthopsOf(weighted)
    BY <1>1, <2>1, FibEntryProperties
  <2>3. m = with(map, n, FibEntry(weighted)) \/ m = map
    BY DEF fib_insert
  <2>4. n \in DOMAIN map => m = with(map, n, FibEntry(weighted))
    BY <1>2 DEF fib_insert
  <2> QED BY <1>2, <2>2, <2>3, <2>4 DEF with, FibOK, FibInserted
<1>3. CASE ~FibEntryOk(weighted)
  BY <1>3 DEF fib_insert, FibInserted
<1> QED BY <1>2, <1>3

(* FibMatchesRib, of any map and any RIB. *)
Match(map, table) ==
  \A n \in DOMAIN map :
    /\ n \in DOMAIN table
    /\ IsInjective(nexthops(table, n)) => NexthopsOf(map[n]) = Range(nexthops(table, n))

(* update_fib repairs the map after a change of the RIB at one NLRI. *)
LEMMA UpdateFibProperties ==
  ASSUME NEW old, RibOK(old), NEW new, RibOK(new), NEW n \in Nlris,
         DOMAIN old \ {n} \subseteq DOMAIN new,
         \A x \in DOMAIN old \ {n} : new[x] = old[x],
         NEW map, FibOK(map), Match(map, old)
  PROVE  FibOK(update_fib(map, new, n)) /\ Match(update_fib(map, new, n), new)
<1> DEFINE m == update_fib(map, new, n)
           nhs == nexthops(new, n)
<1>1. \A x \in DOMAIN old \ {n} : nexthops(new, x) = nexthops(old, x)
  BY DEF nexthops, entriesOf
<1>2. \A x \in DOMAIN map \ {n} :
        /\ x \in DOMAIN new
        /\ IsInjective(nexthops(new, x)) => NexthopsOf(map[x]) = Range(nexthops(new, x))
  BY <1>1 DEF Match
<1>3. CASE nhs = <<>>
  <2>1. m = without(map, n)
    BY <1>3 DEF update_fib, fib_delete
  <2> HIDE DEF m, nhs
  <2> QED BY <1>2, <2>1 DEF without, FibOK, Match, m
<1>4. CASE nhs # <<>>
  <2> DEFINE weighted == balance_equally(nhs)
  <2>1. n \in DOMAIN new /\ nhs \in Seq(Nexthops) /\ Len(nhs) \in 1..MAX_NEXTHOPS
    BY <1>4, NexthopsProperties
  <2>2. m = fib_insert(map, n, weighted)
    BY <1>4 DEF update_fib
  <2> HIDE DEF nhs, m
  <2>3. weighted \in Seq(Slot(Nexthops)) /\ NexthopsOf(weighted) = Range(nhs)
    BY <2>1, BalanceProperties
  <2>4. FibEntryOk(weighted)
    BY <2>1, BalanceAccepted
  <2> HIDE DEF weighted
  <2>5. /\ FibOK(m)
        /\ \/ m = map
           \/ /\ DOMAIN m = DOMAIN map \cup {n}
              /\ \A x \in DOMAIN map \ {n} : m[x] = map[x]
        /\ n \in DOMAIN m => NexthopsOf(m[n]) = Range(nhs)
    <3>0. weighted \in Seq(Slot(Nexthops))
      BY <2>3
    <3>1. FibInserted(map, n, weighted, fib_insert(map, n, weighted))
      BY <3>0, FibInsertProperties
    <3> QED BY <2>2, <2>3, <2>4, <3>1 DEF FibInserted
  <2>6. ASSUME NEW x \in DOMAIN m
        PROVE  /\ x \in DOMAIN new
               /\ IsInjective(nexthops(new, x)) => NexthopsOf(m[x]) = Range(nexthops(new, x))
    <3>1. CASE x = n
      BY <2>1, <2>5, <3>1 DEF nhs
    <3>2. CASE x # n
      BY <1>2, <2>5, <3>2
    <3> QED BY <3>1, <3>2
  <2> QED BY <2>5, <2>6 DEF Match, m
<1> QED BY <1>3, <1>4

---------------------------------------------------------------------------
(* The items an update is split into. *)
Todo == [announce : {TRUE}, route : Route, nexthop : Nexthops]
           \cup [announce : {FALSE}, route : Route]

LEMMA RoutesProperties ==
  ASSUME NEW u \in Updates
  PROVE  routesOf(u) \in Seq(Todo)
<1> DEFINE as == [i \in DOMAIN u.announcements |->
                    [announce |-> TRUE, route |-> u.announcements[i].route,
                     nexthop |-> u.announcements[i].nexthop]]
           ws == [i \in DOMAIN u.withdrawals |->
                    [announce |-> FALSE, route |-> u.withdrawals[i]]]
           A == u.announcements
           W == u.withdrawals
<1>1. /\ A \in Seq([route : Route, nexthop : Nexthops])
      /\ W \in Seq(Route)
  BY SteeringAssumption DEF Update
<1>2. as \in Seq(Todo)
  <2>1. Len(A) \in Nat /\ DOMAIN A = 1..Len(A)
    BY <1>1
  <2>2. ASSUME NEW i \in 1..Len(A)
        PROVE  [announce |-> TRUE, route |-> A[i].route, nexthop |-> A[i].nexthop] \in Todo
    <3>1. A[i] \in [route : Route, nexthop : Nexthops]
      BY <1>1, ElementOfSeq
    <3> QED BY <3>1 DEF Todo
  <2>3. as = [i \in 1..Len(A) |->
                [announce |-> TRUE, route |-> A[i].route, nexthop |-> A[i].nexthop]]
    BY <2>1
  <2> QED BY <2>1, <2>2, <2>3, IsASeq
<1>3. ws \in Seq(Todo)
  <2>1. Len(W) \in Nat /\ DOMAIN W = 1..Len(W)
    BY <1>1
  <2>2. ASSUME NEW i \in 1..Len(W)
        PROVE  [announce |-> FALSE, route |-> W[i]] \in Todo
    <3>1. W[i] \in Route
      BY <1>1, ElementOfSeq
    <3> QED BY <3>1 DEF Todo
  <2>3. ws = [i \in 1..Len(W) |-> [announce |-> FALSE, route |-> W[i]]]
    BY <2>1
  <2> QED BY <2>1, <2>2, <2>3, IsASeq
<1>4. routesOf(u) = as \o ws
  BY DEF routesOf
<1> HIDE DEF as, ws
<1> QED BY <1>2, <1>3, <1>4, ConcatProperties

---------------------------------------------------------------------------
(* The inductive invariant: what the theorems state, and beside it that an  *)
(* update in progress has a route left, that a tick only visits NLRIs of    *)
(* the RIB, that the snapshot is one of the aggregator's, and that stored   *)
(* weights are small maps above the floor (what quantise needs).            *)
SnapshotOK ==
  \A n \in DOMAIN snapshot :
    Windows(snapshot[n])

WeightsOK ==
  \A n \in DOMAIN weights :
    /\ WeightMap(weights[n], Nexthops)
    /\ \A nh \in DOMAIN weights[n] : weights[n][nh] >= MINIMUM_WEIGHT

ControlOK ==
  /\ pc = "update" => todo # <<>>
  /\ unsteered \subseteq DOMAIN rib
  /\ pc # "steer" => unsteered = {}

QueueOK ==
  /\ bgp_updates \in Seq(Updates) /\ Len(bgp_updates) <= ChannelCapacity
  /\ senders \in BOOLEAN /\ shutdown \in BOOLEAN
  /\ pc \in {"select", "update", "steer", "stopped"}
  /\ todo \in Seq(Todo)
  /\ unsteered \in SUBSET Nlris

IInv ==
  /\ QueueOK
  /\ ControlOK
  /\ RibOK(rib)
  /\ FibOK(fib)
  /\ DOMAIN weights \subseteq Nlris /\ WeightsOK
  /\ SnapshotOK
  /\ Match(fib, rib)

LEMMA InitInvariant == Init => IInv
<1> SUFFICES ASSUME Init PROVE IInv
  OBVIOUS
<1>1. DOMAIN Empty = {}
  BY DEF Empty
<1>2. <<>> \in Seq(Updates) /\ <<>> \in Seq(Todo) /\ Len(<<>>) <= ChannelCapacity
  BY SteeringAssumption
<1>3. QueueOK
  BY <1>2 DEF Init, QueueOK
<1>4. ControlOK
  BY DEF Init, ControlOK
<1> QED BY <1>1, <1>3, <1>4
    DEF Init, IInv, RibOK, FibOK, WeightsOK, SnapshotOK, Match

(* A route of the update: the RIB changes at its NLRI and update_fib        *)
(* follows.                                                                 *)
LEMMA ApplyRouteInvariant == IInv /\ ApplyRoute => IInv'
<1> SUFFICES ASSUME IInv, ApplyRoute PROVE IInv'
  OBVIOUS
<1> DEFINE r == Head(todo)
<1>1. todo \in Seq(Todo) /\ todo # <<>> /\ unsteered = {} /\ pc = "update"
  BY DEF IInv, QueueOK, ControlOK, ApplyRoute
<1>2. r \in Todo /\ todo' \in Seq(Todo)
  BY <1>1, HeadTailProperties DEF ApplyRoute
<1>3. r.route \in Route /\ (r.announce => r.nexthop \in Nexthops)
  BY <1>2 DEF Todo
<1>4. r.route.nlri \in Nlris
  BY <1>3 DEF Route
<1>5. /\ rib' = IF r.announce THEN insert(rib, r.route, r.nexthop) ELSE remove(rib, r.route)
      /\ fib' = update_fib(fib, rib', r.route.nlri)
  BY DEF ApplyRoute
<1> HIDE DEF r
<1>6. RibOK(rib) /\ FibOK(fib) /\ Match(fib, rib)
  BY DEF IInv
<1>7. /\ RibOK(rib')
      /\ DOMAIN rib \ {r.route.nlri} \subseteq DOMAIN rib'
      /\ \A x \in DOMAIN rib \ {r.route.nlri} : rib'[x] = rib[x]
  <2>1. CASE r.announce
    <3>1. rib' = insert(rib, r.route, r.nexthop)
      BY <1>5, <2>1
    <3>2. r.nexthop \in Nexthops
      BY <1>3, <2>1
    <3>3. /\ RibOK(insert(rib, r.route, r.nexthop))
          /\ DOMAIN insert(rib, r.route, r.nexthop) = DOMAIN rib \cup {r.route.nlri}
          /\ \A n \in DOMAIN rib \ {r.route.nlri} :
               insert(rib, r.route, r.nexthop)[n] = rib[n]
      BY <1>3, <1>6, <3>2, InsertProperties
    <3> QED BY <3>1, <3>3
  <2>2. CASE ~r.announce
    <3>1. rib' = remove(rib, r.route)
      BY <1>5, <2>2
    <3>2. /\ RibOK(remove(rib, r.route))
          /\ DOMAIN rib \ {r.route.nlri} \subseteq DOMAIN remove(rib, r.route)
          /\ \A n \in DOMAIN rib \ {r.route.nlri} : remove(rib, r.route)[n] = rib[n]
      BY <1>3, <1>6, RemoveProperties
    <3> QED BY <3>1, <3>2
  <2> QED BY <2>1, <2>2
<1>8. FibOK(fib') /\ Match(fib', rib')
  BY <1>4, <1>5, <1>6, <1>7, UpdateFibProperties
<1>9. QueueOK' /\ ControlOK'
  BY <1>1, <1>2 DEF IInv, QueueOK, ControlOK, ApplyRoute
<1>10. WeightsOK' /\ SnapshotOK' /\ DOMAIN weights' \subseteq Nlris
  BY DEF IInv, ApplyRoute, WeightsOK, SnapshotOK
<1> QED BY <1>7, <1>8, <1>9, <1>10 DEF IInv

(* What a tick does for an NLRI: it stores a step of the descent from what  *)
(* was stored, on the floored simplex, and offers the map slots that        *)
(* FibEntry::new accepts, above the floor and within one of the weights.    *)
StoredOf(n) == IF n \in DOMAIN weights THEN weights[n] ELSE Empty
WindowsOf(n) == IF n \in DOMAIN snapshot THEN snapshot[n] ELSE Empty

Stepped(n, w) ==
  /\ w \in step(StoredOf(n), nexthops(rib, n), WindowsOf(n))
  /\ weights' = with(weights, n, w)
  /\ WeightMap(w, Nexthops) /\ Balanced(w)
  /\ \A nh \in DOMAIN w : w[nh] >= MINIMUM_WEIGHT
  /\ IsInjective(nexthops(rib, n)) => DOMAIN w = Range(nexthops(rib, n))

Offered(n, w, weighted) ==
  /\ fib' = fib_insert(fib, n, weighted)
  /\ weighted \in Seq(Slot(Nexthops)) /\ NexthopsOf(weighted) = DOMAIN w
  /\ FibEntryOk(weighted)
  /\ \A i \in DOMAIN weighted : weighted[i].weight >= MinimumSlot
  /\ \A i \in DOMAIN weighted :
       weighted[i].weight * Precision - w[weighted[i].nexthop] \in -Precision..Precision

LEMMA StoredProperties ==
  ASSUME NEW n \in Nlris, IInv, SteerNlri(n)
  PROVE  /\ n \in DOMAIN rib /\ RibOK(rib) /\ FibOK(fib) /\ Match(fib, rib)
         /\ nexthops(rib, n) \in Seq(Nexthops) /\ Len(nexthops(rib, n)) \in 1..MAX_NEXTHOPS
         /\ WeightMap(StoredOf(n), Nexthops) /\ Windows(WindowsOf(n))
<1>1. n \in DOMAIN rib /\ RibOK(rib) /\ FibOK(fib) /\ Match(fib, rib)
  BY DEF IInv, SteerNlri, ControlOK
<1>2. nexthops(rib, n) \in Seq(Nexthops) /\ Len(nexthops(rib, n)) \in 1..MAX_NEXTHOPS
  BY <1>1, NexthopsProperties
<1>3. WeightMap(StoredOf(n), Nexthops)
  <2>1. CASE n \in DOMAIN weights
    BY <2>1 DEF IInv, WeightsOK, StoredOf
  <2>2. CASE n \notin DOMAIN weights
    <3>1. DOMAIN Empty = {} /\ StoredOf(n) = Empty
      BY <2>2 DEF Empty, StoredOf
    <3>2. IsFiniteSet({}) /\ Cardinality({}) = 0
      BY FS_EmptySet
    <3>3. 0 <= MAX_NEXTHOPS
      BY DescentAssumption
    <3> QED BY <3>1, <3>2, <3>3 DEF WeightMap
  <2> QED BY <2>1, <2>2
<1>4. Windows(WindowsOf(n))
  BY DEF IInv, SnapshotOK, Windows, Empty, WindowsOf
<1> QED BY <1>1, <1>2, <1>3, <1>4

LEMMA SteerOutcome ==
  ASSUME NEW n \in Nlris, IInv, SteerNlri(n)
  PROVE  \E w : \E weighted : Stepped(n, w) /\ Offered(n, w, weighted)
<1> DEFINE nhs == nexthops(rib, n)
           stored == StoredOf(n)
           windows == WindowsOf(n)
<1>1. /\ nhs \in Seq(Nexthops) /\ Len(nhs) \in 1..MAX_NEXTHOPS
      /\ WeightMap(stored, Nexthops) /\ Windows(windows)
  BY StoredProperties
<1>2. nhs # <<>>
  BY <1>1, DescentAssumption
<1>3. \E w \in step(stored, nhs, windows) :
        /\ weights' = with(weights, n, w)
        /\ \E weighted \in quantise(w) : fib' = fib_insert(fib, n, weighted)
  BY <1>2 DEF SteerNlri, StoredOf, WindowsOf
<1> HIDE DEF nhs, stored, windows
<1>4. PICK w \in step(stored, nhs, windows) :
        /\ weights' = with(weights, n, w)
        /\ \E weighted \in quantise(w) : fib' = fib_insert(fib, n, weighted)
  BY <1>3
<1>5. PICK weighted \in quantise(w) : fib' = fib_insert(fib, n, weighted)
  BY <1>4
<1>6. /\ WeightMap(w, Nexthops)
      /\ \A nh \in DOMAIN w : w[nh] >= MINIMUM_WEIGHT
      /\ IsInjective(nhs) => DOMAIN w = Range(nhs)
  BY <1>1, StepProperties
<1>7. Balanced(w)
  BY <1>1, StepBalanced
<1>8. Stepped(n, w)
  BY <1>4, <1>6, <1>7 DEF Stepped, nhs, stored, windows
<1>9. weighted \in Seq(Slot(Nexthops)) /\ NexthopsOf(weighted) = DOMAIN w
  BY <1>6, QuantiseProperties
<1>10. \A i \in DOMAIN weighted : weighted[i].weight >= MinimumSlot
  BY <1>6, QuantiseFloor
<1>11. /\ FibEntryOk(weighted)
       /\ \A i \in DOMAIN weighted :
            weighted[i].weight * Precision - w[weighted[i].nexthop] \in -Precision..Precision
  BY <1>6, <1>7, QuantiseAccepted
<1>12. Offered(n, w, weighted)
  BY <1>5, <1>9, <1>10, <1>11 DEF Offered
<1> QED BY <1>8, <1>12

(* An NLRI of the tick: its weights move and its entry follows. *)
LEMMA SteerInvariant ==
  ASSUME NEW n \in Nlris
  PROVE  IInv /\ SteerNlri(n) => IInv'
<1> SUFFICES ASSUME IInv, SteerNlri(n) PROVE IInv'
  OBVIOUS
<1> DEFINE nhs == nexthops(rib, n)
<1>1. n \in DOMAIN rib /\ RibOK(rib) /\ FibOK(fib) /\ Match(fib, rib)
  BY StoredProperties
<1>2. PICK w : \E weighted : Stepped(n, w) /\ Offered(n, w, weighted)
  BY SteerOutcome
<1>3. PICK weighted : Stepped(n, w) /\ Offered(n, w, weighted)
  BY <1>2
<1> HIDE DEF nhs
<1>7. weights' = with(weights, n, w)
  BY <1>3 DEF Stepped
<1>8. fib' = fib_insert(fib, n, weighted)
  BY <1>3 DEF Offered
<1>9. /\ WeightMap(w, Nexthops)
      /\ \A nh \in DOMAIN w : w[nh] >= MINIMUM_WEIGHT
      /\ IsInjective(nhs) => DOMAIN w = Range(nhs)
  BY <1>3 DEF Stepped, nhs
<1>10. weighted \in Seq(Slot(Nexthops)) /\ NexthopsOf(weighted) = DOMAIN w
  BY <1>3 DEF Offered
<1>11. /\ FibOK(fib')
       /\ \/ fib' = fib
          \/ /\ DOMAIN fib' = DOMAIN fib \cup {n}
             /\ \A x \in DOMAIN fib \ {n} : fib'[x] = fib[x]
             /\ NexthopsOf(fib'[n]) = NexthopsOf(weighted)
  <2>0. weighted \in Seq(Slot(Nexthops))
    BY <1>10
  <2>1. FibInserted(fib, n, weighted, fib_insert(fib, n, weighted))
    BY <1>1, <2>0, FibInsertProperties
  <2> QED BY <1>8, <2>1 DEF FibInserted
<1>12. Match(fib', rib')
  <2>1. rib' = rib
    BY DEF SteerNlri
  <2>2. ASSUME NEW x \in DOMAIN fib'
        PROVE  /\ x \in DOMAIN rib
               /\ IsInjective(nexthops(rib, x)) => NexthopsOf(fib'[x]) = Range(nexthops(rib, x))
    <3>1. CASE fib' = fib
      BY <1>1, <3>1 DEF Match
    <3>2. CASE fib' # fib /\ x = n
      BY <1>1, <1>9, <1>10, <1>11, <3>2 DEF nhs
    <3>3. CASE fib' # fib /\ x # n
      BY <1>1, <1>11, <3>3 DEF Match
    <3> QED BY <3>1, <3>2, <3>3
  <2> QED BY <2>1, <2>2 DEF Match
<1>13. DOMAIN weights' \subseteq Nlris /\ WeightsOK'
  <2>1. DOMAIN weights' = DOMAIN weights \cup {n}
    BY <1>7 DEF with
  <2>2. \A x \in DOMAIN weights' : weights'[x] = IF x = n THEN w ELSE weights[x]
    BY <1>7 DEF with
  <2>3. DOMAIN weights \subseteq Nlris /\ WeightsOK
    BY DEF IInv
  <2> QED BY <1>9, <2>1, <2>2, <2>3 DEF WeightsOK
<1>14. QueueOK' /\ ControlOK'
  BY DEF IInv, QueueOK, ControlOK, SteerNlri
<1>15. SnapshotOK'
  BY DEF IInv, SnapshotOK, SteerNlri, Empty
<1>16. RibOK(rib')
  BY <1>1 DEF SteerNlri
<1> QED BY <1>11, <1>12, <1>13, <1>14, <1>15, <1>16 DEF IInv

(* The other steps do not touch the RIB, the map or the weights. *)
LEMMA NextInvariant == IInv /\ [Next]_vars => IInv'
<1> SUFFICES ASSUME IInv, [Next]_vars PROVE IInv'
  OBVIOUS
<1>1. ASSUME UNCHANGED <<rib, fib, weights>>, QueueOK', ControlOK', SnapshotOK'
      PROVE  IInv'
  BY <1>1 DEF IInv, WeightsOK
<1>2. ASSUME NEW u \in Updates, Send(u) PROVE IInv'
  <2>1. bgp_updates \in Seq(Updates) /\ Len(bgp_updates) < ChannelCapacity
    BY <1>2 DEF IInv, QueueOK, Send
  <2>2. bgp_updates' \in Seq(Updates) /\ Len(bgp_updates') = Len(bgp_updates) + 1
    BY <1>2, <2>1, AppendProperties DEF Send
  <2>3. Len(bgp_updates') <= ChannelCapacity
    BY <2>1, <2>2, SteeringAssumption
  <2>4. UNCHANGED <<senders, shutdown, pc, todo, unsteered, snapshot, rib, fib, weights>>
    BY <1>2 DEF Send, ctrl
  <2>5. QueueOK'
    BY <2>2, <2>3, <2>4 DEF IInv, QueueOK
  <2> QED BY <1>1, <2>4, <2>5 DEF IInv, ControlOK, SnapshotOK
<1>3. ASSUME DropSenders PROVE IInv'
  BY <1>1, <1>3 DEF IInv, DropSenders, ctrl, QueueOK, ControlOK, SnapshotOK
<1>4. ASSUME Cancel PROVE IInv'
  BY <1>1, <1>4 DEF IInv, Cancel, ctrl, QueueOK, ControlOK, SnapshotOK
<1>5. ASSUME Recv PROVE IInv'
  <2>1. bgp_updates \in Seq(Updates) /\ bgp_updates # <<>>
    BY <1>5 DEF IInv, QueueOK, Recv
  <2>2. /\ Head(bgp_updates) \in Updates
        /\ bgp_updates' \in Seq(Updates) /\ Len(bgp_updates') = Len(bgp_updates) - 1
    BY <1>5, <2>1, HeadTailProperties DEF Recv
  <2>3. Len(bgp_updates') <= ChannelCapacity
    BY <2>1, <2>2, SteeringAssumption DEF IInv, QueueOK
  <2>4. todo' \in Seq(Todo)
    BY <1>5, <2>2, RoutesProperties DEF Recv
  <2>5. QueueOK'
    BY <1>5, <2>2, <2>3, <2>4 DEF IInv, QueueOK, Recv
  <2>6. ControlOK' /\ SnapshotOK' /\ UNCHANGED <<rib, fib, weights>>
    BY <1>5 DEF IInv, ControlOK, SnapshotOK, Recv
  <2> QED BY <1>1, <2>5, <2>6
<1>6. ASSUME Tick PROVE IInv'
  <2>1. QueueOK' /\ ControlOK' /\ UNCHANGED <<rib, fib, weights>>
    BY <1>6 DEF IInv, QueueOK, ControlOK, RibOK, Tick
  <2>2. \A s \in Snapshots : \A n \in DOMAIN s : Windows(s[n])
    BY SteeringAssumption DEF Window, Windows
  <2>3. SnapshotOK'
    BY <1>6, <2>2 DEF Tick, SnapshotOK, Empty
  <2> QED BY <1>1, <2>1, <2>3
<1>7. ASSUME Stop PROVE IInv'
  BY <1>1, <1>7 DEF IInv, Stop, QueueOK, ControlOK, SnapshotOK
<1>8. ASSUME UNCHANGED vars PROVE IInv'
  BY <1>1, <1>8 DEF IInv, vars, ctrl, QueueOK, ControlOK, SnapshotOK
<1> QED
  BY <1>2, <1>3, <1>4, <1>5, <1>6, <1>7, <1>8, ApplyRouteInvariant, SteerInvariant
  DEF Next, TickFails, Stopped

(* What the inductive invariant says of the three checked invariants. *)
LEMMA InvariantImplies == IInv => TypeOK /\ RibWellFormed /\ FibMatchesRib
<1> SUFFICES ASSUME IInv PROVE TypeOK /\ RibWellFormed /\ FibMatchesRib
  OBVIOUS
<1>1. \A n \in DOMAIN weights :
        /\ DOMAIN weights[n] \subseteq Nexthops
        /\ \A nh \in DOMAIN weights[n] : weights[n][nh] \in Int
  BY DEF IInv, WeightsOK, WeightMap
<1>2. TypeOK
  BY <1>1 DEF IInv, QueueOK, RibOK, FibOK, TypeOK, Todo, Path
<1>3. RibWellFormed
  BY DEF IInv, RibOK, RibWellFormed, DistinctPaths
<1>4. FibMatchesRib
  BY DEF IInv, Match, FibMatchesRib
<1> QED BY <1>2, <1>3, <1>4

LEMMA SpecInvariant == Spec => []IInv
BY InitInvariant, NextInvariant, PTL DEF Spec

(* The controller's state stays well-typed and its channel within its       *)
(* bound, for every set of updates and snapshots.                           *)
THEOREM TypeCorrect == Spec => []TypeOK
BY SpecInvariant, InvariantImplies, PTL

(* Rib::insert and Rib::remove keep one entry per path id and no empty      *)
(* entry, whatever sequence of updates the speaker sends.                   *)
THEOREM RibStaysWellFormed == Spec => []RibWellFormed
BY SpecInvariant, InvariantImplies, PTL

(* Whatever interleaving of updates and ticks, and whatever the map's       *)
(* capacity, e_fib never holds an NLRI without a path, and its entry lists  *)
(* the nexthops of the RIB when these are distinct.                         *)
THEOREM FibFollowsRib == Spec => []FibMatchesRib
BY SpecInvariant, InvariantImplies, PTL

---------------------------------------------------------------------------
(* What the data plane reads, and what the descent stores. On top of IInv:  *)
(* every entry is usable, every weight vector is balanced, and a map with   *)
(* room for every NLRI holds those of the RIB.                              *)
FibUsable(map) == \A n \in DOMAIN map : Usable(map[n])

Cover(map, table) == Cardinality(Nlris) <= FibCapacity => DOMAIN table \subseteq DOMAIN map

OnSimplex == \A n \in DOMAIN weights : Balanced(weights[n])

DataPlaneInv == FibUsable(fib) /\ Cover(fib, rib) /\ OnSimplex

(* A map with room for every NLRI has room for one it does not hold. *)
LEMMA RoomForAll ==
  ASSUME NEW map, FibOK(map), NEW n \in Nlris, n \notin DOMAIN map,
         Cardinality(Nlris) <= FibCapacity
  PROVE  Cardinality(DOMAIN map) < FibCapacity
<1>1. DOMAIN map \in SUBSET Nlris /\ IsFiniteSet(Nlris)
  BY SteeringAssumption DEF FibOK
<1>2. /\ IsFiniteSet(DOMAIN map) /\ Cardinality(DOMAIN map) <= Cardinality(Nlris)
      /\ Cardinality(Nlris) = Cardinality(DOMAIN map) => Nlris = DOMAIN map
  BY <1>1, FS_Subset
<1>3. Cardinality(Nlris) # Cardinality(DOMAIN map)
  BY <1>2
<1>4. Cardinality(Nlris) \in Nat /\ Cardinality(DOMAIN map) \in Nat
  BY <1>1, <1>2, FS_CardinalityType
<1> QED BY <1>2, <1>3, <1>4, SteeringAssumption

(* Fib::insert of slots that FibEntry::new accepts. *)
LEMMA InsertAccepted ==
  ASSUME NEW map, FibOK(map), NEW n \in Nlris, NEW weighted \in Seq(Slot(Nexthops)),
         FibEntryOk(weighted), \A i \in DOMAIN weighted : weighted[i].weight >= MinimumSlot
  PROVE  /\ \/ fib_insert(map, n, weighted) = map
            \/ fib_insert(map, n, weighted) = with(map, n, FibEntry(weighted))
         /\ n \in DOMAIN map \/ Cardinality(DOMAIN map) < FibCapacity =>
              fib_insert(map, n, weighted) = with(map, n, FibEntry(weighted))
         /\ Usable(FibEntry(weighted))
         /\ FibUsable(map) => FibUsable(fib_insert(map, n, weighted))
         /\ DOMAIN map \subseteq DOMAIN fib_insert(map, n, weighted)
         /\ Cardinality(Nlris) <= FibCapacity => n \in DOMAIN fib_insert(map, n, weighted)
<1> DEFINE m == fib_insert(map, n, weighted)
           e == FibEntry(weighted)
<1>1. m = map \/ m = with(map, n, e)
  BY DEF fib_insert
<1>2. n \in DOMAIN map \/ Cardinality(DOMAIN map) < FibCapacity => m = with(map, n, e)
  BY DEF fib_insert
<1>3. Usable(e)
  <2>1. \A nh \in Nexthops : nh \in Int
    BY SteeringAssumption
  <2> QED BY <2>1, FibEntryUsable
<1> HIDE DEF m, e
<1>4. DOMAIN map \subseteq DOMAIN m /\ (FibUsable(map) => FibUsable(m))
  BY <1>1, <1>3 DEF with, FibUsable
<1>5. Cardinality(Nlris) <= FibCapacity => n \in DOMAIN m
  BY <1>2, RoomForAll DEF with
<1> QED BY <1>1, <1>2, <1>3, <1>4, <1>5 DEF m, e

LEMMA ApplyRouteData == IInv /\ DataPlaneInv /\ ApplyRoute => DataPlaneInv'
<1> SUFFICES ASSUME IInv, DataPlaneInv, ApplyRoute PROVE DataPlaneInv'
  OBVIOUS
<1> DEFINE r == Head(todo)
           n == r.route.nlri
<1>1. todo \in Seq(Todo) /\ todo # <<>>
  BY DEF IInv, QueueOK, ControlOK, ApplyRoute
<1>2. r \in Todo
  BY <1>1, HeadTailProperties
<1>3. r.route \in Route /\ (r.announce => r.nexthop \in Nexthops)
  BY <1>2 DEF Todo
<1>4. n \in Nlris
  BY <1>3 DEF Route
<1>5. /\ rib' = IF r.announce THEN insert(rib, r.route, r.nexthop) ELSE remove(rib, r.route)
      /\ fib' = update_fib(fib, rib', n)
  BY DEF ApplyRoute
<1>6. RibOK(rib) /\ FibOK(fib) /\ RibOK(rib')
  BY ApplyRouteInvariant DEF IInv
<1> HIDE DEF r
<1>7. DOMAIN rib' \subseteq DOMAIN rib \cup {n}
  <2>1. CASE r.announce
    <3>1. rib' = insert(rib, r.route, r.nexthop)
      BY <1>5, <2>1
    <3> QED BY <3>1 DEF insert, with
  <2>2. CASE ~r.announce
    <3>1. rib' = remove(rib, r.route)
      BY <1>5, <2>2
    <3>2. DOMAIN remove(rib, r.route) \subseteq DOMAIN rib
      BY <1>3, <1>6, RemoveProperties
    <3> QED BY <3>1, <3>2
  <2> QED BY <2>1, <2>2
<1> DEFINE nhs == nexthops(rib', n)
<1>8. OnSimplex'
  BY DEF ApplyRoute, DataPlaneInv, OnSimplex
<1> HIDE DEF n
<1>9. CASE nhs = <<>>
  <2>1. fib' = without(fib, n)
    BY <1>5, <1>9 DEF update_fib, fib_delete
  <2>2. n \notin DOMAIN rib'
    <3>1. n \in DOMAIN rib' => Len(nhs) \in 1..MAX_NEXTHOPS
      BY <1>6, NexthopsProperties
    <3>2. Len(<<>>) = 0 /\ 0 \notin 1..MAX_NEXTHOPS
      BY DescentAssumption
    <3> HIDE DEF nhs
    <3> QED BY <1>9, <3>1, <3>2
  <2>3. FibUsable(fib')
    BY <2>1 DEF without, DataPlaneInv, FibUsable
  <2>4. Cover(fib', rib')
    BY <1>7, <2>1, <2>2 DEF without, DataPlaneInv, Cover
  <2> QED BY <1>8, <2>3, <2>4 DEF DataPlaneInv
<1>10. CASE nhs # <<>>
  <2> DEFINE weighted == balance_equally(nhs)
  <2>1. fib' = fib_insert(fib, n, weighted)
    BY <1>5, <1>10 DEF update_fib
  <2>2. nhs \in Seq(Nexthops) /\ Len(nhs) \in 1..MAX_NEXTHOPS
    BY <1>6, <1>10, NexthopsProperties
  <2> HIDE DEF nhs
  <2>3. weighted \in Seq(Slot(Nexthops)) /\ FibEntryOk(weighted)
        /\ \A i \in DOMAIN weighted : weighted[i].weight >= MinimumSlot
    BY <2>2, BalanceProperties, BalanceAccepted, BalanceFloor
  <2> HIDE DEF weighted
  <2>4. /\ FibUsable(fib) => FibUsable(fib')
        /\ DOMAIN fib \subseteq DOMAIN fib'
        /\ Cardinality(Nlris) <= FibCapacity => n \in DOMAIN fib'
    BY <1>4, <1>6, <2>1, <2>3, InsertAccepted
  <2> QED BY <1>7, <1>8, <2>4 DEF DataPlaneInv, Cover
<1> QED BY <1>9, <1>10

LEMMA SteerData ==
  ASSUME NEW n \in Nlris
  PROVE  IInv /\ DataPlaneInv /\ SteerNlri(n) => DataPlaneInv'
<1> SUFFICES ASSUME IInv, DataPlaneInv, SteerNlri(n) PROVE DataPlaneInv'
  OBVIOUS
<1>1. PICK w : \E weighted : Stepped(n, w) /\ Offered(n, w, weighted)
  BY SteerOutcome
<1>2. PICK weighted : Stepped(n, w) /\ Offered(n, w, weighted)
  BY <1>1
<1>3. FibOK(fib) /\ rib' = rib
  BY DEF IInv, SteerNlri
<1>4. /\ fib' = fib_insert(fib, n, weighted)
      /\ weighted \in Seq(Slot(Nexthops)) /\ FibEntryOk(weighted)
      /\ \A i \in DOMAIN weighted : weighted[i].weight >= MinimumSlot
  BY <1>2 DEF Offered
<1>5. (FibUsable(fib) => FibUsable(fib')) /\ DOMAIN fib \subseteq DOMAIN fib'
  BY <1>3, <1>4, InsertAccepted
<1>6. OnSimplex'
  <2>1. weights' = with(weights, n, w) /\ Balanced(w)
    BY <1>2 DEF Stepped
  <2> QED BY <2>1 DEF with, OnSimplex, DataPlaneInv
<1> QED BY <1>3, <1>5, <1>6 DEF DataPlaneInv, Cover

(* The other steps do not touch the RIB, the map or the weights. *)
LEMMA DataUnchanged ==
  IInv /\ [Next]_vars => \/ ApplyRoute
                         \/ \E n \in Nlris : SteerNlri(n)
                         \/ UNCHANGED <<rib, fib, weights>>
BY DEF Next, Send, DropSenders, Cancel, Recv, Tick, TickFails, Stop, Stopped, vars

LEMMA SpecData == Spec => []DataPlaneInv
<1>1. Init => DataPlaneInv
  <2>1. DOMAIN Empty = {}
    BY DEF Empty
  <2> QED BY <2>1 DEF Init, DataPlaneInv, FibUsable, Cover, OnSimplex
<1>2. IInv /\ DataPlaneInv /\ [Next]_vars => DataPlaneInv'
  <2> SUFFICES ASSUME IInv, DataPlaneInv, [Next]_vars PROVE DataPlaneInv'
    OBVIOUS
  <2>1. CASE UNCHANGED <<rib, fib, weights>>
    BY <2>1 DEF DataPlaneInv, OnSimplex
  <2> QED BY <2>1, DataUnchanged, ApplyRouteData, SteerData
<1> QED BY <1>1, <1>2, SpecInvariant, PTL DEF Spec

(* Every entry the data plane can read sums to the denominator, is ordered  *)
(* by address and keeps every nexthop probed: FibEntry::new after quantise  *)
(* or balance_equally, for every rate, floor and number of nexthops.        *)
THEOREM EntriesStayUsable == Spec => []FibEntriesUsable
<1>1. DataPlaneInv => FibEntriesUsable
  BY DescentAssumption DEF DataPlaneInv, FibUsable, Usable, FibEntriesUsable, MinimumSlot
<1> QED BY <1>1, SpecData, PTL

(* A route is in the map from the moment it is in the RIB, when the map has *)
(* room for every prefix: neither an update nor a tick is ever refused by   *)
(* FibEntry::new.                                                           *)
THEOREM RoutesAreInstalled == Spec => []FibCoversRib
<1>1. DataPlaneInv => FibCoversRib
  BY DEF DataPlaneInv, Cover, FibCoversRib
<1> QED BY <1>1, SpecData, PTL

(* project puts the weights on the floored simplex again after every step,  *)
(* so that their sum never drifts from one by more than the rounding of a   *)
(* single projection.                                                       *)
THEOREM DescentStaysOnSimplex == Spec => []WeightsOnSimplex
<1>1. IInv /\ DataPlaneInv => WeightsOnSimplex
  <2> SUFFICES ASSUME IInv, DataPlaneInv, NEW n \in DOMAIN weights
               PROVE  LET w == weights[n] IN
                      /\ DOMAIN w # {}
                      /\ \A nh \in DOMAIN w : w[nh] >= MINIMUM_WEIGHT
                      /\ \A order \in DescendingOrders(DOMAIN w, w) :
                           Sum([i \in DOMAIN order |-> w[order[i]]]) - One
                             \in -Cardinality(DOMAIN w) .. Cardinality(DOMAIN w)
    BY DEF WeightsOnSimplex
  <2> DEFINE w == weights[n]
  <2>1. /\ WeightMap(w, Nexthops) /\ Balanced(w)
        /\ \A nh \in DOMAIN w : w[nh] >= MINIMUM_WEIGHT
    BY DEF IInv, WeightsOK, DataPlaneInv, OnSimplex
  <2> HIDE DEF w
  <2>2. DOMAIN w # {}
    <3>1. Cardinality(DOMAIN w) \in 1..MAX_NEXTHOPS
      BY <2>1 DEF Balanced
    <3>2. Cardinality({}) = 0 /\ 0 \notin 1..MAX_NEXTHOPS
      BY FS_EmptySet, DescentAssumption
    <3> QED BY <3>1, <3>2
  <2>3. ASSUME NEW order \in DescendingOrders(DOMAIN w, w)
        PROVE  Sum([i \in DOMAIN order |-> w[order[i]]]) - One
                 \in -Cardinality(DOMAIN w) .. Cardinality(DOMAIN w)
    <3>1. order \in Listings(DOMAIN w) /\ DOMAIN order = 1..Cardinality(DOMAIN w)
      BY DEF DescendingOrders, Listings
    <3>2. [i \in DOMAIN order |-> w[order[i]]] = Listed(w, order)
      BY <3>1 DEF Listed
    <3> QED BY <2>1, <3>1, <3>2 DEF Balanced
  <2> QED BY <2>1, <2>2, <2>3 DEF w
<1> QED BY <1>1, SpecInvariant, SpecData, PTL

(* Only the step of a tick for n takes n off the list. *)
LEMMA SteeredBy ==
  ASSUME IInv, [Next]_vars, NEW n \in Nlris, Steered(n)
  PROVE  SteerNlri(n)
<1>1. PICK m \in Nlris : SteerNlri(m)
  <2>1. CASE Recv
    BY <2>1 DEF Recv, Steered
  <2>2. CASE Tick
    BY <2>2 DEF Tick, Steered, IInv, ControlOK
  <2>3. CASE ApplyRoute
    BY <2>3 DEF ApplyRoute, Steered
  <2> QED BY <2>1, <2>2, <2>3
      DEF Next, Send, DropSenders, Cancel, TickFails, Stop, Stopped, vars, ctrl, Steered
<1>2. n = m
  BY <1>1 DEF SteerNlri, Steered
<1> QED BY <1>1, <1>2

(* A tick's result reaches the data plane: FibEntry::new never rejects what *)
(* quantise makes of the stored weights, and every slot of the new entry is *)
(* within one integer weight of the weight it stands for.                   *)
THEOREM TicksReachFib == Spec => SteeringReachesFib
<1> DEFINE Reached(n) ==
      Steered(n) /\ (n \in DOMAIN fib \/ Cardinality(DOMAIN fib) < FibCapacity) =>
        /\ n \in DOMAIN fib'
        /\ \A i \in DOMAIN fib'[n] :
             fib'[n][i].weight * Precision - weights'[n][fib'[n][i].nexthop]
               \in -Precision .. Precision
<1>1. ASSUME IInv, [Next]_vars, NEW n \in Nlris PROVE Reached(n)
  <2> SUFFICES ASSUME Steered(n), n \in DOMAIN fib \/ Cardinality(DOMAIN fib) < FibCapacity
               PROVE  /\ n \in DOMAIN fib'
                      /\ \A i \in DOMAIN fib'[n] :
                           fib'[n][i].weight * Precision - weights'[n][fib'[n][i].nexthop]
                             \in -Precision .. Precision
    OBVIOUS
  <2>1. SteerNlri(n)
    BY <1>1, SteeredBy
  <2>2. PICK w : \E weighted : Stepped(n, w) /\ Offered(n, w, weighted)
    BY <1>1, <2>1, SteerOutcome
  <2>3. PICK weighted : Stepped(n, w) /\ Offered(n, w, weighted)
    BY <2>2
  <2>4. FibOK(fib)
    BY <1>1 DEF IInv
  <2>5. weights'[n] = w
    BY <2>3 DEF Stepped, with
  <2>6. /\ fib' = fib_insert(fib, n, weighted)
        /\ weighted \in Seq(Slot(Nexthops)) /\ FibEntryOk(weighted)
        /\ \A i \in DOMAIN weighted : weighted[i].weight >= MinimumSlot
        /\ \A i \in DOMAIN weighted :
             weighted[i].weight * Precision - w[weighted[i].nexthop] \in -Precision..Precision
    BY <2>3 DEF Offered
  <2>7. fib' = with(fib, n, FibEntry(weighted))
    BY <2>4, <2>6, InsertAccepted
  <2>8. n \in DOMAIN fib' /\ fib'[n] = FibEntry(weighted)
    BY <2>7 DEF with
  <2> DEFINE k == Len(weighted)
  <2>9. k \in Nat /\ DOMAIN weighted = 1..k /\ \A i \in 1..k : weighted[i] \in Slot(Nexthops)
    BY <2>6, ElementOfSeq
  <2> HIDE DEF k
  <2>10. \A i \in 1..k : weighted[i].nexthop \in Int
    BY <2>9, SteeringAssumption DEF Slot
  <2>11. PICK p \in [1..k -> 1..k] : FibEntry(weighted) = [j \in 1..k |-> weighted[p[j]]]
    BY <2>9, <2>10, FibEntrySorted, ZenonT(60)
  <2>12. ASSUME NEW i \in DOMAIN fib'[n]
         PROVE  fib'[n][i].weight * Precision - weights'[n][fib'[n][i].nexthop]
                  \in -Precision .. Precision
    <3>1. i \in 1..k /\ fib'[n][i] = weighted[p[i]] /\ p[i] \in 1..k
      BY <2>8, <2>11
    <3>2. weighted[p[i]].weight * Precision - w[weighted[p[i]].nexthop] \in -Precision..Precision
      BY <2>6, <2>9, <3>1
    <3> QED BY <2>5, <3>1, <3>2
  <2> QED BY <2>8, <2>12
<1>2. IInv /\ [Next]_vars => \A n \in Nlris : Reached(n)
  BY <1>1
<1>3. IInv /\ [Next]_vars => [\A n \in Nlris : Reached(n)]_vars
  BY <1>2
<1> QED BY <1>3, SpecInvariant, PTL DEF Spec, SteeringReachesFib

(* Two measured nexthops never change places against the measurements, for  *)
(* every learning rate and whichever way the projection rounds.             *)
THEOREM CheaperKeepsItsLead == Spec => CheaperStaysAhead
<1> DEFINE Ahead(n) ==
      Steered(n) /\ n \in DOMAIN weights /\ n \in DOMAIN snapshot
        /\ IsInjective(nexthops(rib, n)) /\ DOMAIN weights[n] = DOMAIN weights'[n] =>
        \A a, b \in DOMAIN weights[n] \cap DOMAIN snapshot[n] :
          /\ weights[n][a] >= weights[n][b]
          /\ gradient(snapshot[n][a]) <= gradient(snapshot[n][b])
          => weights'[n][a] >= weights'[n][b]
<1>1. ASSUME IInv, [Next]_vars, NEW n \in Nlris PROVE Ahead(n)
  <2> SUFFICES ASSUME Steered(n), n \in DOMAIN weights, n \in DOMAIN snapshot,
                      IsInjective(nexthops(rib, n)), DOMAIN weights[n] = DOMAIN weights'[n],
                      NEW a \in DOMAIN weights[n] \cap DOMAIN snapshot[n],
                      NEW b \in DOMAIN weights[n] \cap DOMAIN snapshot[n],
                      weights[n][a] >= weights[n][b],
                      gradient(snapshot[n][a]) <= gradient(snapshot[n][b])
               PROVE  weights'[n][a] >= weights'[n][b]
    OBVIOUS
  <2>1. SteerNlri(n)
    BY <1>1, SteeredBy
  <2>2. PICK w : \E weighted : Stepped(n, w) /\ Offered(n, w, weighted)
    BY <1>1, <2>1, SteerOutcome
  <2>3. Stepped(n, w)
    BY <2>2
  <2> DEFINE old == weights[n]
             ws == snapshot[n]
             nhs == nexthops(rib, n)
  <2>4. weights'[n] = w /\ w \in step(StoredOf(n), nhs, WindowsOf(n))
    BY <2>3 DEF Stepped, with
  <2>5. StoredOf(n) = old /\ WindowsOf(n) = ws
    BY DEF StoredOf, WindowsOf
  <2>6. /\ nhs \in Seq(Nexthops) /\ Len(nhs) \in 1..MAX_NEXTHOPS
        /\ WeightMap(old, Nexthops) /\ Windows(ws)
    BY <1>1, <2>1, <2>5, StoredProperties
  <2>7. /\ w \in step(old, nhs, ws) /\ IsInjective(nhs) /\ DOMAIN old = DOMAIN w
        /\ a \in DOMAIN old /\ a \in DOMAIN ws /\ b \in DOMAIN old /\ b \in DOMAIN ws
        /\ old[a] >= old[b] /\ gradient(ws[a]) <= gradient(ws[b])
    BY <2>4, <2>5
  <2> HIDE DEF old, ws, nhs
  <2>8. w[a] >= w[b]
    BY <2>6, <2>7, StepKeepsOrder
  <2> QED BY <2>4, <2>8
<1>2. IInv /\ [Next]_vars => \A n \in Nlris : Ahead(n)
  BY <1>1
<1>3. IInv /\ [Next]_vars => [\A n \in Nlris : Ahead(n)]_vars
  BY <1>2
<1> QED BY <1>3, SpecInvariant, PTL DEF Spec, CheaperStaysAhead
============================================================================
