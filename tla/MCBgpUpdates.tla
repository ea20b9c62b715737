---------------------------- MODULE MCBgpUpdates ----------------------------
(* Instances of BgpUpdates for TLC. *)
EXTENDS BgpUpdates

Message(withdrawn, attributes, nlri, errors) ==
  [withdrawn |-> withdrawn, attributes |-> attributes, nlri |-> nlri, errors |-> errors]

NextHop(nh) == [Attribute("NextHop") EXCEPT !.nexthop = nh]
MpReach(family, routes, nh) ==
  [type |-> "MpReach", family |-> family, routes |-> routes, nexthop |-> nh]
MpUnreach(family, routes) ==
  [type |-> "MpUnreach", family |-> family, routes |-> routes, nexthop |-> 0]

(* IPv4 routes by both ways, an IPv6 route, one of another family, and the  *)
(* end of a RIB.                                                             *)
AnyAttribute ==
  {Attribute("Origin"), Attribute("AsPath"), NextHop(1), MpReach(4, <<"a">>, 2),
   MpReach(6, <<"b", "c">>, 2), MpReach(0, <<"x">>, 2), MpUnreach(4, <<"b">>),
   MpUnreach(6, <<"c">>), MpUnreach(6, <<>>)}

(* Any list of up to four attributes, none of them twice, with or without    *)
(* routes outside the attributes; and the errors in a message that is        *)
(* otherwise valid. ORIGIN and AS_PATH are alike to the code: one order.     *)
Distinct ==
  {s \in UNION {[1..n -> AnyAttribute] : n \in 0..4} :
     \A i, j \in DOMAIN s : i < j => /\ s[i].type # s[j].type
                                    /\ ~(s[i].type = "AsPath" /\ s[j].type = "Origin")}

(* A nexthop other than 1 and 2 is named by messages with errors alone. *)
BaseTo(nh) == <<Attribute("Origin"), Attribute("AsPath"), NextHop(nh)>>

MCAnyMessage ==
  {Message(w, a, n, {}) : w \in {<<>>, <<"b">>}, a \in Distinct, n \in {<<>>, <<"a">>}}
  \cup {Message(<<>>, BaseTo(3), <<"a">>, e) :
          e \in SUBSET (DOMAIN TreatmentRank) \ {{}, {"UnknownAttributeError"}}}
  \cup {Message(<<>>, BaseTo(1), <<"a">>, {"UnknownAttributeError"})}

(* A route that moves between nexthops and is withdrawn, a message that is   *)
(* refused, and one for each of AttributeDiscard, TreatAsWithdraw and        *)
(* SessionReset.                                                             *)
Moves ==
  {Message(<<>>, BaseTo(1), <<"a">>, {}),
   Message(<<>>, <<Attribute("Origin"), Attribute("AsPath"), MpReach(4, <<"a">>, 2)>>, <<>>, {}),
   Message(<<"a">>, <<>>, <<>>, {}),
   Message(<<>>, <<>>, <<"a">>, {}),
   Message(<<>>, BaseTo(3), <<"a">>, {"AggregatorError"}),
   Message(<<>>, BaseTo(4), <<"a">>, {"CommunitiesError"}),
   Message(<<>>, BaseTo(5), <<"a">>, {"MpReachNomError"})}
============================================================================
