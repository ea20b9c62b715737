------------------------------ MODULE Steering ------------------------------
(***************************************************************************)
(* The steering controller (steering.rs): one task that owns the RIB,      *)
(* mirrors it into the eBPF map e_fib, and once a second moves the weights  *)
(* of every route by a step of gradient descent.                           *)
(*                                                                         *)
(* The task is a loop over tokio::select!: shutdown, the one-second tick,   *)
(* or the next BGP update. An update is applied route by route and a tick   *)
(* NLRI by NLRI; each of those iterations writes the map once, and the      *)
(* data plane reads the map between them, so each is a step here. The task *)
(* never awaits inside them, so nothing else of the controller comes        *)
(* between.                                                                *)
(***************************************************************************)
EXTENDS Descent

CONSTANTS
  Nlris,            \* prefixes
  PathIds,          \* ADD-PATH identifiers
  Nexthops,         \* nexthop addresses, as integers (ordered as octets are)
  Updates,          \* the BGP updates the speaker can send
  Snapshots,        \* the RTT snapshots the aggregator can return
  ChannelCapacity,  \* bound of the mpsc channel (32 in the code)
  FibCapacity       \* max_entries of e_fib (1024 in the code)

Route == [nlri : Nlris, path_id : PathIds]

(* bgp::Update, its announcements flattened to one nexthop per route. *)
Update ==
  [announcements : Seq([route : Route, nexthop : Nexthops]),
   withdrawals : Seq(Route)]

Window == [avg_srtt_us : Nat, min_rtt_min : Nat]

PartialFunctions(S, T) == UNION {[D -> T] : D \in SUBSET S}

ASSUME SteeringAssumption ==
  /\ IsFiniteSet(Nlris)
  /\ Nexthops \subseteq Int
  /\ \A u \in Updates : u \in Update
  /\ \A s \in Snapshots :
       /\ DOMAIN s \subseteq Nlris
       /\ \A n \in DOMAIN s : /\ DOMAIN s[n] \subseteq Nexthops
                              /\ \A nh \in DOMAIN s[n] : s[n][nh] \in Window
  /\ ChannelCapacity \in Nat \ {0}
  /\ FibCapacity \in Nat

VARIABLES
  bgp_updates,  \* the channel's queue of updates
  senders,      \* TRUE while the speaker or a peer's task still holds a sender
  shutdown,     \* the cancellation token
  pc,           \* "select", "update", "steer" or "stopped"
  todo,         \* the routes of the current update that are left
  unsteered,    \* the NLRIs the current tick has left
  snapshot,     \* the RTT snapshot of the current tick
  rib,          \* Rib::table: NLRI to a list of (path id, nexthop)
  fib,          \* the map e_fib: NLRI to the entry the data plane uses
  weights       \* Descent::weights: NLRI to nexthop to fixed-point weight

ctrl == <<pc, todo, unsteered, snapshot>>
vars == <<bgp_updates, senders, shutdown, ctrl, rib, fib, weights>>

Empty == [x \in {} |-> x]

---------------------------------------------------------------------------
(* The RIB. *)

(* Vec::retain of the entries with another path id. insert keeps path ids   *)
(* distinct within an NLRI (RibWellFormed), so at most one entry goes.      *)
retain(entries, path_id) ==
  IF \E i \in DOMAIN entries : entries[i].path_id = path_id
  THEN LET i == CHOOSE i \in DOMAIN entries : entries[i].path_id = path_id
       IN  SubSeq(entries, 1, i - 1) \o SubSeq(entries, i + 1, Len(entries))
  ELSE entries

entriesOf(table, nlri) == IF nlri \in DOMAIN table THEN table[nlri] ELSE <<>>

(* A function with one more (or another) value. *)
with(f, k, v) == [x \in DOMAIN f \cup {k} |-> IF x = k THEN v ELSE f[x]]
without(f, k) == [x \in DOMAIN f \ {k} |-> f[x]]

insertTwice(table, route, nexthop) ==
  with(table, route.nlri,
       Append(entriesOf(table, route.nlri),
              [path_id |-> route.path_id, nexthop |-> nexthop]))

insert(table, route, nexthop) ==
  with(table, route.nlri,
       Append(retain(entriesOf(table, route.nlri), route.path_id),
              [path_id |-> route.path_id, nexthop |-> nexthop]))

remove(table, route) ==
  IF route.nlri \notin DOMAIN table THEN table
  ELSE LET left == retain(table[route.nlri], route.path_id)
       IN  IF left = <<>> THEN without(table, route.nlri)
                          ELSE with(table, route.nlri, left)

(* Rib::nexthops, cut to the slots of a FIB entry. *)
nexthops(table, nlri) ==
  LET entries == entriesOf(table, nlri)
      count == IF Len(entries) < MAX_NEXTHOPS THEN Len(entries) ELSE MAX_NEXTHOPS
  IN  [i \in 1..count |-> entries[i].nexthop]

---------------------------------------------------------------------------
(* The map e_fib: a new key does not fit a full map, and a missing key is   *)
(* not deleted. Both errors are logged and forgotten.                       *)
fib_insert_off_by_one(map, nlri, weighted) ==
  IF /\ FibEntryOk(weighted)
     /\ nlri \in DOMAIN map \/ Cardinality(DOMAIN map) < FibCapacity - 1
  THEN with(map, nlri, FibEntry(weighted))
  ELSE map

fib_insert(map, nlri, weighted) ==
  IF /\ FibEntryOk(weighted)
     /\ nlri \in DOMAIN map \/ Cardinality(DOMAIN map) < FibCapacity
  THEN with(map, nlri, FibEntry(weighted))
  ELSE map

fib_delete(map, nlri) == without(map, nlri)

(* update_fib, after the RIB became `table'. *)
update_fib(map, table, nlri) ==
  IF nexthops(table, nlri) = <<>>
  THEN fib_delete(map, nlri)
  ELSE fib_insert(map, nlri, balance_equally(nexthops(table, nlri)))

---------------------------------------------------------------------------
Init ==
  /\ bgp_updates = <<>> /\ senders = TRUE /\ shutdown = FALSE
  /\ pc = "select" /\ todo = <<>> /\ unsteered = {} /\ snapshot = Empty
  /\ rib = Empty /\ fib = Empty /\ weights = Empty

(* The environment: a peer's task sends an update (and waits while the      *)
(* channel is full), the last sender goes away, the daemon shuts down.      *)
SendUnbounded(u) ==
  /\ senders
  /\ Len(bgp_updates) <= ChannelCapacity
  /\ bgp_updates' = Append(bgp_updates, u)
  /\ UNCHANGED <<senders, shutdown, ctrl, rib, fib, weights>>

Send(u) ==
  /\ senders
  /\ Len(bgp_updates) < ChannelCapacity
  /\ bgp_updates' = Append(bgp_updates, u)
  /\ UNCHANGED <<senders, shutdown, ctrl, rib, fib, weights>>

DropSenders ==
  /\ senders
  /\ senders' = FALSE
  /\ UNCHANGED <<bgp_updates, shutdown, ctrl, rib, fib, weights>>

Cancel ==
  /\ ~shutdown
  /\ shutdown' = TRUE
  /\ UNCHANGED <<bgp_updates, senders, ctrl, rib, fib, weights>>

(* The routes of an update in the order the loops visit them. *)
routesOf(u) ==
  [i \in DOMAIN u.announcements |->
     [announce |-> TRUE, route |-> u.announcements[i].route,
      nexthop |-> u.announcements[i].nexthop]]
  \o
  [i \in DOMAIN u.withdrawals |->
     [announce |-> FALSE, route |-> u.withdrawals[i]]]

Recv ==
  /\ pc = "select"
  /\ bgp_updates # <<>>
  /\ bgp_updates' = Tail(bgp_updates)
  /\ todo' = routesOf(Head(bgp_updates))
  /\ pc' = IF todo' = <<>> THEN "select" ELSE "update"
  /\ UNCHANGED <<senders, shutdown, unsteered, snapshot, rib, fib, weights>>

(* One iteration of either loop: change the RIB, then update_fib. *)
ApplyRoute ==
  /\ pc = "update"
  /\ LET r == Head(todo)
     IN  /\ rib' = IF r.announce THEN insert(rib, r.route, r.nexthop)
                                 ELSE remove(rib, r.route)
         /\ fib' = update_fib(fib, rib', r.route.nlri)
  /\ todo' = Tail(todo)
  /\ pc' = IF todo' = <<>> THEN "select" ELSE "update"
  /\ UNCHANGED <<bgp_updates, senders, shutdown, unsteered, snapshot, weights>>

TickInstalledOnly ==
  /\ pc = "select"
  /\ unsteered' = DOMAIN rib \cap DOMAIN fib
  /\ pc' = IF unsteered' = {} THEN "select" ELSE "steer"
  /\ \E s \in Snapshots : snapshot' = IF unsteered' = {} THEN Empty ELSE s
  /\ UNCHANGED <<bgp_updates, senders, shutdown, todo, rib, fib, weights>>

(* The tick: take a snapshot and collect the RIB's NLRIs. *)
Tick ==
  /\ pc = "select"
  /\ unsteered' = DOMAIN rib
  /\ pc' = IF unsteered' = {} THEN "select" ELSE "steer"
  /\ \E s \in Snapshots : snapshot' = IF unsteered' = {} THEN Empty ELSE s
  /\ UNCHANGED <<bgp_updates, senders, shutdown, todo, rib, fib, weights>>

(* The tick when the snapshot fails: log and return. *)
TickFails ==
  /\ pc = "select"
  /\ UNCHANGED vars

(* One iteration of steer_fib's loop, in the HashMap's order. *)
SteerNlri(n) ==
  /\ pc = "steer"
  /\ n \in unsteered
  /\ LET nhs == nexthops(rib, n)
         stored == IF n \in DOMAIN weights THEN weights[n] ELSE Empty
         windows == IF n \in DOMAIN snapshot THEN snapshot[n] ELSE Empty
     IN  IF nhs = <<>>
         THEN /\ weights' = without(weights, n)
              /\ fib' = fib_delete(fib, n)
         ELSE \E w \in step(stored, nhs, windows) :
                /\ weights' = with(weights, n, w)
                /\ \E weighted \in quantise(w) : fib' = fib_insert(fib, n, weighted)
  /\ unsteered' = unsteered \ {n}
  /\ pc' = IF unsteered' = {} THEN "select" ELSE "steer"
  /\ snapshot' = IF unsteered' = {} THEN Empty ELSE snapshot
  /\ UNCHANGED <<bgp_updates, senders, shutdown, todo, rib>>

(* The loop breaks: the token is cancelled, or recv returns None because    *)
(* the queue is empty and every sender is gone.                             *)
Stop ==
  /\ pc = "select"
  /\ shutdown \/ (bgp_updates = <<>> /\ ~senders)
  /\ pc' = "stopped"
  /\ UNCHANGED <<bgp_updates, senders, shutdown, todo, unsteered, snapshot,
                 rib, fib, weights>>

Stopped == pc = "stopped" /\ UNCHANGED vars

Next ==
  \/ \E u \in Updates : Send(u)
  \/ DropSenders
  \/ Cancel
  \/ Recv
  \/ ApplyRoute
  \/ Tick
  \/ TickFails
  \/ \E n \in Nlris : SteerNlri(n)
  \/ Stop
  \/ Stopped

Spec == Init /\ [][Next]_vars

(* The task runs: an iteration begun is finished, and select!, which polls  *)
(* its branches in random order, takes a branch that is ready again and     *)
(* again. A snapshot that keeps failing is a poisoned lock or a broken      *)
(* clock, which no code path of the aggregator causes. Each conjunct but    *)
(* Tick's is stated on the part of the task's state that one action alone   *)
(* changes in that way: ApplyRoute, SteerNlri, Recv and Stop.               *)
Fairness ==
  /\ WF_todo(pc = "update" /\ todo' = Tail(todo))
  /\ WF_unsteered(pc = "steer" /\ \E n \in unsteered : unsteered' = unsteered \ {n})
  /\ SF_bgp_updates(/\ pc = "select" /\ bgp_updates # <<>>
                    /\ bgp_updates' = Tail(bgp_updates))
  /\ SF_vars(Tick)
  /\ SF_pc(/\ pc = "select"
           /\ shutdown \/ (bgp_updates = <<>> /\ ~senders)
           /\ pc' = "stopped")

FairSpec == Spec /\ Fairness

---------------------------------------------------------------------------
(* Properties. *)

FibSlot == [nexthop : Nexthops, weight : Nat \ {0}]

TypeOK ==
  /\ bgp_updates \in Seq(Updates) /\ Len(bgp_updates) <= ChannelCapacity
  /\ senders \in BOOLEAN /\ shutdown \in BOOLEAN
  /\ pc \in {"select", "update", "steer", "stopped"}
  /\ todo \in Seq([announce : {TRUE}, route : Route, nexthop : Nexthops]
                     \cup [announce : {FALSE}, route : Route])
  /\ unsteered \in SUBSET Nlris
  /\ DOMAIN rib \subseteq Nlris
  /\ \A n \in DOMAIN rib : rib[n] \in Seq([path_id : PathIds, nexthop : Nexthops])
  /\ DOMAIN fib \subseteq Nlris
  /\ \A n \in DOMAIN fib : fib[n] \in Seq(FibSlot)
  /\ DOMAIN weights \subseteq Nlris
  /\ \A n \in DOMAIN weights :
       /\ DOMAIN weights[n] \subseteq Nexthops
       /\ \A nh \in DOMAIN weights[n] : weights[n][nh] \in Int

(* The RIB keeps an NLRI only while it has a path, and one entry per path   *)
(* id however often a path is announced again (Rib::insert, Rib::remove).   *)
RibWellFormed ==
  \A n \in DOMAIN rib :
    /\ rib[n] # <<>>
    /\ \A i, j \in DOMAIN rib[n] : rib[n][i].path_id = rib[n][j].path_id => i = j

(* The data plane steers to the nexthops of the RIB: in every state between *)
(* two map writes, whatever the updates, the ticks and a full map did, no   *)
(* NLRI without a path has an entry in e_fib, and where the paths in use    *)
(* have distinct nexthops an entry lists exactly those.                     *)
FibMatchesRib ==
  \A n \in DOMAIN fib :
    /\ n \in DOMAIN rib
    /\ IsInjective(nexthops(rib, n)) => NexthopsOf(fib[n]) = Range(nexthops(rib, n))

(* The same without the condition, as step's comment has it ("We            *)
(* initialise/remove new/old weights"): no traffic for a nexthop none of    *)
(* whose paths is left. reconcile does not see the change when two paths    *)
(* come to share a nexthop, so this is violated.                            *)
OldNexthopsRemoved ==
  \A n \in DOMAIN fib : NexthopsOf(fib[n]) \subseteq Range(nexthops(rib, n))

(* While the map has room for every NLRI, a route is in it from the moment  *)
(* it is in the RIB.                                                        *)
FibCoversRib == Cardinality(Nlris) <= FibCapacity => DOMAIN rib \subseteq DOMAIN fib

(* What fib_entry_select_nexthop relies on: weights that sum to the         *)
(* denominator, ordered nexthops, and no nexthop below the floor that keeps *)
(* it probed.                                                               *)
FibEntriesUsable ==
  \A n \in DOMAIN fib :
    /\ Len(fib[n]) <= MAX_NEXTHOPS
    /\ Sum(WeightsOf(fib[n])) = WEIGHT_DENOMINATOR
    /\ \A i \in DOMAIN fib[n] :
         fib[n][i].weight >= WEIGHT_DENOMINATOR \div FloorInverse
    /\ \A i, j \in DOMAIN fib[n] : i < j => fib[n][i].nexthop <= fib[n][j].nexthop

(* Every stored weight vector lies on the floored simplex, up to less than  *)
(* one fixed-point unit per nexthop, and has a nexthop: repeated steps      *)
(* never drift.                                                             *)
WeightsOnSimplex ==
  \A n \in DOMAIN weights :
    LET w == weights[n] IN
    /\ DOMAIN w # {}
    /\ \A nh \in DOMAIN w : w[nh] >= MINIMUM_WEIGHT
    /\ \A order \in DescendingOrders(DOMAIN w, w) :
         Sum([i \in DOMAIN order |-> w[order[i]]]) - One
           \in -Cardinality(DOMAIN w) .. Cardinality(DOMAIN w)

(* The n steered by this step, if any. *)
Steered(n) == n \in unsteered /\ n \notin unsteered'

(* A tick's result reaches the data plane: FibEntry::new never rejects what *)
(* quantise made of the weights, and every slot is within one of its        *)
(* weight, so the map follows the descent as long as it has room.           *)
SteeringReachesFib ==
  [][\A n \in Nlris :
       Steered(n) /\ (n \in DOMAIN fib \/ Cardinality(DOMAIN fib) < FibCapacity) =>
         /\ n \in DOMAIN fib'
         /\ \A i \in DOMAIN fib'[n] :
              fib'[n][i].weight * Precision - weights'[n][fib'[n][i].nexthop]
                \in -Precision .. Precision]_vars

(* Two measured nexthops never change places against the measurements: the  *)
(* one with the larger weight and no larger cost keeps at least the weight  *)
(* of the other. (A nexthop that two paths share moves twice as far, which  *)
(* may put it behind; see OldNexthopsRemoved for such routes.)              *)
CheaperStaysAhead ==
  [][\A n \in Nlris :
       Steered(n) /\ n \in DOMAIN weights /\ n \in DOMAIN snapshot
         /\ IsInjective(nexthops(rib, n)) /\ DOMAIN weights[n] = DOMAIN weights'[n] =>
         \A a, b \in DOMAIN weights[n] \cap DOMAIN snapshot[n] :
           /\ weights[n][a] >= weights[n][b]
           /\ gradient(snapshot[n][a]) <= gradient(snapshot[n][b])
           => weights'[n][a] >= weights'[n][b]]_vars

(* Every snapshot measures the nexthops H of n, and best costs the least. *)
Cheapest(n, H, best) ==
  /\ best \in H
  /\ \A s \in Snapshots :
       /\ n \in DOMAIN s /\ H \subseteq DOMAIN s[n]
       /\ \A nh \in H \ {best} : gradient(s[n][best]) < gradient(s[n][nh])

(* Once the nexthops of an NLRI stay the same, on whose costs the snapshots *)
(* agree, and the map has room for the RIB, it gives all the weight above   *)
(* the floors to the cheapest again and again: an announcement that repeats *)
(* a route resets the entry to equal weights, and a later tick undoes that. *)
BestNexthopWins ==
  \A n \in Nlris, H \in SUBSET Nexthops, best \in Nexthops :
    Cheapest(n, H, best) =>
      (<>[](/\ pc # "stopped"
            /\ Cardinality(DOMAIN rib) <= FibCapacity
            /\ IsInjective(nexthops(rib, n)) /\ Range(nexthops(rib, n)) = H)
       =>
       []<>(n \in DOMAIN fib /\
              \E i \in DOMAIN fib[n] :
                /\ fib[n][i].nexthop = best
                /\ fib[n][i].weight = WEIGHT_DENOMINATOR
                     - (Len(fib[n]) - 1) * (WEIGHT_DENOMINATOR \div FloorInverse)))

(* A route that did not fit the map, and would fit now, is installed (by    *)
(* the next tick), unless it is withdrawn, does not fit any more or the     *)
(* controller stops.                                                        *)
RouteEventuallyInstalled ==
  \A n \in Nlris :
    (n \in DOMAIN rib /\ Cardinality(DOMAIN rib) <= FibCapacity) ~>
       \/ n \in DOMAIN fib
       \/ n \notin DOMAIN rib
       \/ Cardinality(DOMAIN rib) > FibCapacity
       \/ pc = "stopped"
============================================================================
