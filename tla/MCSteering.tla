---------------------------- MODULE MCSteering ----------------------------
(* Instances of Steering for TLC. *)
EXTENDS Steering

R(n, p) == [nlri |-> n, path_id |-> p]
Announce(n, p, nh) ==
  [announcements |-> <<[route |-> R(n, p), nexthop |-> nh]>>, withdrawals |-> <<>>]
Withdraw(n, p) == [announcements |-> <<>>, withdrawals |-> <<R(n, p)>>]

(* A full map (FibCapacity = 1): n1 has three paths over two nexthops, the  *)
(* first of which moves between them; n2 has one path. One update withdraws *)
(* the path it announces and that of n2.                                    *)
RouteUpdates ==
  {Announce("n1", 1, nh) : nh \in Nexthops}
  \cup {Announce("n1", 2, 2), Announce("n1", 3, 1)}
  \cup {Withdraw("n1", p) : p \in PathIds}
  \cup {Announce("n2", 1, 1), Withdraw("n2", 1)}
  \cup {[announcements |-> Announce("n1", 1, 2).announcements,
         withdrawals |-> <<R("n1", 1), R("n2", 1)>>]}

(* One NLRI, which fits the map, with the same three paths; one update       *)
(* withdraws them all, the one it announces among them.                     *)
LearningUpdates ==
  {Announce("n1", 1, nh) : nh \in Nexthops}
  \cup {Announce("n1", 2, 2), Announce("n1", 3, 1), Withdraw("n1", 1)}
  \cup {[announcements |-> Announce("n1", 1, 2).announcements,
         withdrawals |-> <<R("n1", 2), R("n1", 1), R("n1", 3)>>]}

(* n1 as before, and a route to n2 that takes the only place in the map. *)
ContendedUpdates ==
  {Announce("n1", p, p) : p \in PathIds}
  \cup {Announce("n2", 1, 1), Withdraw("n2", 1)}

NoRtt == {Empty}

(* A nexthop is unmeasured, fast or slow. *)
Fast == [avg_srtt_us |-> 10, min_rtt_min |-> 10]
Slow == [avg_srtt_us |-> 20, min_rtt_min |-> 10]
AllRtt ==
  {[n \in Nlris |-> f] : f \in PartialFunctions(Nexthops, {Fast, Slow})}

(* Nexthop i costs i times the first. *)
RankedRtt ==
  {[n \in Nlris |-> [nh \in Nexthops |->
     [avg_srtt_us |-> 10 * nh, min_rtt_min |-> 10 * nh]]]}
============================================================================
