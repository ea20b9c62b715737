----------------------------- MODULE RouteFeed -----------------------------
(***************************************************************************)
(* What the speaker promises the steering controller: for every peer, the   *)
(* changes of its routes, each once and in the order the peer made them,    *)
(* applied to one RIB, until the controller goes away. BgpUpdates shows     *)
(* that the code behind it (decoding, queues, tasks) implements this.       *)
(***************************************************************************)
EXTENDS Sequences

CONSTANTS
  Peers,
  Changes   \* [announced : routes to nexthops, withdrawn : a set of routes]

VARIABLES
  pending,     \* for every peer the changes not yet applied
  rib,         \* the nexthop of every route
  subscribed   \* the controller listens

vars == <<pending, rib, subscribed>>

(* The announcements of a change first, then its withdrawals. *)
Apply(table, change) ==
  [r \in (DOMAIN table \cup DOMAIN change.announced) \ change.withdrawn |->
     IF r \in DOMAIN change.announced THEN change.announced[r] ELSE table[r]]

Init ==
  /\ pending = [p \in Peers |-> <<>>]
  /\ rib = [r \in {} |-> r]
  /\ subscribed = TRUE

Advertise(p, change) ==
  /\ subscribed
  /\ pending' = [pending EXCEPT ![p] = Append(@, change)]
  /\ UNCHANGED <<rib, subscribed>>

Deliver(p) ==
  /\ pending[p] # <<>>
  /\ rib' = Apply(rib, Head(pending[p]))
  /\ pending' = [pending EXCEPT ![p] = Tail(@)]
  /\ UNCHANGED subscribed

Unsubscribe ==
  /\ subscribed' = FALSE
  /\ pending' = [p \in Peers |-> <<>>]
  /\ UNCHANGED rib

Next ==
  \/ \E p \in Peers, change \in Changes : Advertise(p, change)
  \/ \E p \in Peers : Deliver(p)
  \/ Unsubscribe

Spec == Init /\ [][Next]_vars
============================================================================
