--------------------------- MODULE UpdateMessage ---------------------------
(***************************************************************************)
(* What is made of one BGP UPDATE: whether the connection refuses it and    *)
(* how its parsing errors are to be treated (netgauze, connection.rs), and  *)
(* the routes the daemon reads from it (bgp.rs).                            *)
(*                                                                         *)
(* A message is its withdrawn routes, its NLRI, its path attributes in      *)
(* order and the errors the decoder has ignored. An attribute that lists    *)
(* routes has an address family, one that gives a nexthop a nexthop (for    *)
(* IPv6 the global one). A route is an NLRI with its path identifier.       *)
(***************************************************************************)
EXTENDS Integers, Sequences, FiniteSets

(* The families the daemon reads from MP_REACH and MP_UNREACH. *)
Unicast == {4, 6}

Attribute(type) == [type |-> type, family |-> 0, routes |-> <<>>, nexthop |-> 0]

(* The attributes that list routes of R. *)
Attributes(R) == [type : STRING, family : Nat, routes : Seq(R), nexthop : Nat]

Types(attributes) == {attributes[i].type : i \in DOMAIN attributes}

(* How often an attribute appears in a list. *)
Count(attributes, type) == Cardinality({i \in DOMAIN attributes : attributes[i].type = type})

---------------------------------------------------------------------------
(* connection.rs *)

(* The treatments in their order, and the one each class of error asks for; *)
(* each class stands for the errors of the same arm.                        *)
Treatments ==
  <<"Normal", "AttributeDiscard", "TreatAsWithdraw", "ResetAddressFamily", "SessionReset">>

TreatmentRank ==
  [UnknownAttributeError |-> 1, AggregatorError |-> 2, CommunitiesError |-> 3,
   MpReachAddressError |-> 4, MpReachNomError |-> 5]

(* The messages over the routes of R. *)
UpdateMessages(R) ==
  [withdrawn : Seq(R), attributes : Seq(Attributes(R)), nlri : Seq(R),
   errors : SUBSET DOMAIN TreatmentRank]

update_treatment(errors) ==
  LET ranks == {TreatmentRank[e] : e \in errors} \cup {1}
  IN  Treatments[CHOOSE r \in ranks : \A s \in ranks : s <= r]

Mandatory == {"Origin", "AsPath", "NextHop"}

(* The attributes the loop looks at: it stops once it has seen the three    *)
(* mandatory ones.                                                          *)
Scanned(attributes) ==
  LET seen(i) == Types(SubSeq(attributes, 1, i - 1))
      last == Cardinality({i \in DOMAIN attributes : ~(Mandatory \subseteq seen(i))})
  IN  SubSeq(attributes, 1, last)

end_of_rib(m) ==
  /\ m.withdrawn = <<>> /\ m.nlri = <<>>
  /\ \/ m.attributes = <<>>
     \/ /\ Count(m.attributes, "MpReach") = 0
        /\ Count(m.attributes, "MpUnreach") = 1
        /\ \A i \in DOMAIN m.attributes : m.attributes[i].routes = <<>>

(* handle_update_message answers with UpdateMsgErr. *)
Refuses(m) ==
  LET scanned == Scanned(m.attributes)
      announces == Count(scanned, "MpReach") > 0 \/ m.nlri # <<>>
      missing(type) == type \notin Types(scanned)
  IN  \/ ~end_of_rib(m) /\ announces /\ (missing("Origin") \/ missing("AsPath"))
      \/ /\ ~end_of_rib(m) /\ m.nlri # <<>>
         /\ missing("NextHop") /\ missing("MpReach") /\ missing("MpUnreach")
      \/ Count(scanned, "MpReach") > 1 \/ Count(scanned, "MpUnreach") > 1

---------------------------------------------------------------------------
(* bgp.rs, Update::try_from. *)

First(attributes, type) ==
  attributes[CHOOSE i \in DOMAIN attributes :
               /\ attributes[i].type = type
               /\ \A j \in 1..(i - 1) : attributes[j].type # type]

Announcement(routes, nexthop) == [routes |-> routes, nexthop |-> nexthop]

(* The conversion fails for an NLRI without a NEXT_HOP attribute. *)
try_from_ok(m) == m.nlri # <<>> => "NextHop" \in Types(m.attributes)

mpLast(m, type) ==
  IF type \in Types(m.attributes) /\ m.attributes[Len(m.attributes)].type = type
     /\ First(m.attributes, type).family \in Unicast
  THEN <<First(m.attributes, type)>>
  ELSE <<>>

(* Of several MP_REACH or MP_UNREACH attributes only the first is read, and *)
(* only for the two unicast families.                                       *)
mp(m, type) ==
  IF type \in Types(m.attributes) /\ First(m.attributes, type).family \in Unicast
  THEN <<First(m.attributes, type)>>
  ELSE <<>>

legacy(m) ==
  IF m.nlri = <<>> THEN <<>>
  ELSE <<Announcement(m.nlri, First(m.attributes, "NextHop").nexthop)>>

mp_reach(m) ==
  LET reach == mp(m, "MpReach")
  IN  [i \in DOMAIN reach |-> Announcement(reach[i].routes, reach[i].nexthop)]

mp_unreach(m) ==
  LET unreach == mp(m, "MpUnreach")
  IN  IF unreach = <<>> THEN <<>> ELSE unreach[1].routes

try_from(m) ==
  [announcements |-> legacy(m) \o mp_reach(m), withdrawals |-> m.withdrawn \o mp_unreach(m)]
============================================================================
