------------------------------ MODULE MpRoutes ------------------------------
(***************************************************************************)
(* MP_REACH_NLRI and MP_UNREACH_NLRI: next hop and routes of an address    *)
(* type.  A value is [family, next_hop, nlri] ([family, nlri] withdrawn),  *)
(* or the octets behind an AFI and a SAFI whose routes are not read.       *)
(*                                                                         *)
(* The maps of ADD-PATH families and of label limits are empty in the      *)
(* context erezd starts its codec with: the families whose reader does not *)
(* ask the map are ForcedAddPath, every other one is read without path id, *)
(* and a label stack has one label.                                        *)
(***************************************************************************)
EXTENDS AddressFamily, BgpLs

\* The attribute's length, one octet or two.
LengthWidth(extended) == IF extended THEN 2 ELSE 1

\* write_length: len is the attribute's whole length, its length field counted.  Behind
\* 255 octets the field grows to two, with or without the flag that announces it.
WriteLength(extended, len) ==
  IF extended \/ len - 1 > 255 THEN U16(len - 2) ELSE U8(len - 1)

\* An attribute's octets behind their length.
Sized(extended, w) ==
  LET len == LengthWidth(extended) + w.len IN W(len, WriteLength(extended, len) \o w.octets)

-----------------------------------------------------------------------------
(* Next hops *)

GlobalFamilies == {"Ipv6Unicast", "Ipv6Multicast"}
EitherFamilies == {"Ipv4Unicast", "Ipv4Multicast", "Ipv4NlriMplsLabels", "Ipv6NlriMplsLabels"}
IpFamilies == {"L2VpnBgpEvpn", "RouteTargetConstrains", "BgpLs"}
LabeledFamilies == {"Ipv4MplsLabeledVpn", "Ipv6MplsLabeledVpn", "BgpLsVpn"}
ReadFamilies == GlobalFamilies \cup EitherFamilies \cup IpFamilies \cup LabeledFamilies

\* The distinguisher a link-state next hop should have.
Rd0 == {[kind |-> "As2Administrator", asn2 |-> Zeros(2), number |-> Zeros(4)]}

NextHops(family) ==
  LET global == [addr : {Ramp(16)}, local : Lists({Ones(16)})]
  IN CASE family \in GlobalFamilies -> global
       [] family \in EitherFamilies -> global \cup [addr : {Ramp(4)}, local : {<<>>}]
       [] family \in IpFamilies -> {Ramp(4), Ramp(16)}
       [] family = "BgpLsVpn" ->
            [rd : Rd0 \cup Rd1, next_hop : {Ramp(4)}]
              \cup [rd : Rd0, next_hop : {Ramp(16)}, local : Lists({Ones(16)})]
       [] OTHER -> LabeledNextHop

\* IpAddr: a length octet, which IpAddr::len leaves to its owner, and the address.
ReadIpAddr(b) ==
  Bind(Take(1, b), LAMBDA len, rest :
    IF len[1] \in {4, 16} THEN Take(len[1], rest) ELSE Err("InvalidIpAddressType"))
WriteIpAddr(ip) == W(Len(ip), U8(Len(ip)) \o ip)

ReadIpNextHop(b) == ReadIpAddr(b)

\* One octet of length, an address, and behind 32 a link-local one.
ReadGlobalNextHop(b) ==
  Bind(Take(1, b), LAMBDA len, rest :
    Bind(Take(IF len[1] = 32 THEN 32 ELSE 16, rest), LAMBDA s, tail :
      Ok([addr |-> SubSeq(s, 1, 16), local |-> IF len[1] = 32 THEN <<Drop(s, 16)>> ELSE <<>>],
         tail)))
ReadEitherNextHop(b) ==
  Bind(Take(1, b), LAMBDA len, rest :
    CASE len[1] = 4 -> Bind(Take(4, rest), LAMBDA s, tail : Ok([addr |-> s, local |-> <<>>], tail))
      [] len[1] \in {16, 32} -> ReadGlobalNextHop(b)
      [] OTHER -> Err("InvalidIpAddressLength"))

ReadNextHopOf(family, b) ==
  CASE family \in GlobalFamilies -> ReadGlobalNextHop(b)
    [] family \in EitherFamilies -> ReadEitherNextHop(b)
    [] family \in IpFamilies -> ReadIpNextHop(b)
    [] OTHER -> ReadLabeledNextHop(b)

\* The route distinguisher of a link-state next hop is written as zeros.
WriteNextHopOf(family, h) ==
  CASE family \in GlobalFamilies \cup EitherFamilies ->
         Behind(1, <<>>, WriteIpAddr(h.addr \o (IF h.local = <<>> THEN <<>> ELSE h.local[1])))
    [] family \in IpFamilies -> Behind(1, <<>>, WriteIpAddr(h))
    [] family = "BgpLsVpn" ->
         LET w == WriteLabeledNextHop(h)
         IN W(w.len, U8(w.len - 1) \o Zeros(8) \o h.next_hop)
    [] OTHER -> WriteLabeledNextHop(h)

-----------------------------------------------------------------------------
(* Routes *)

Routes(family) ==
  CASE family = "Ipv4Unicast" -> Ipv4UnicastAddress
    [] family = "Ipv4Multicast" -> Ipv4MulticastAddress
    [] family = "Ipv4NlriMplsLabels" -> Ipv4NlriMplsLabelsAddress
    [] family = "Ipv4MplsLabeledVpn" -> Ipv4MplsVpnUnicastAddress
    [] family = "Ipv6Unicast" -> Ipv6UnicastAddress
    [] family = "Ipv6Multicast" -> Ipv6MulticastAddress
    [] family = "Ipv6NlriMplsLabels" -> Ipv6NlriMplsLabelsAddress
    [] family = "Ipv6MplsLabeledVpn" -> Ipv6MplsVpnUnicastAddress
    [] family = "L2VpnBgpEvpn" -> L2EvpnAddress
    [] family = "RouteTargetConstrains" -> RouteTargetMembershipAddress
    [] family = "BgpLs" -> BgpLsNlri
    [] family = "BgpLsVpn" -> BgpLsVpnNlri

ReadRoute(family, add_path, is_unreach, b) ==
  CASE family = "Ipv4Unicast" -> ReadIpv4UnicastAddress(add_path, b)
    [] family = "Ipv4Multicast" -> ReadIpv4MulticastAddress(add_path, b)
    [] family = "Ipv4NlriMplsLabels" -> ReadIpv4NlriMplsLabels(add_path, is_unreach, 1, b)
    [] family = "Ipv4MplsLabeledVpn" -> ReadIpv4MplsVpn(add_path, is_unreach, 1, b)
    [] family = "Ipv6Unicast" -> ReadIpv6UnicastAddress(add_path, b)
    [] family = "Ipv6Multicast" -> ReadIpv6MulticastAddress(add_path, b)
    [] family = "Ipv6NlriMplsLabels" -> ReadIpv6NlriMplsLabels(add_path, is_unreach, 1, b)
    [] family = "Ipv6MplsLabeledVpn" -> ReadIpv6MplsVpn(add_path, is_unreach, 1, b)
    [] family = "L2VpnBgpEvpn" -> ReadL2EvpnAddress(add_path, b)
    [] family = "RouteTargetConstrains" -> ReadRouteTargetMembershipAddress(add_path, b)
    [] family = "BgpLs" -> ReadBgpLsNlri(add_path, b)
    [] family = "BgpLsVpn" -> ReadBgpLsVpnNlri(add_path, b)

WriteRoute(family, route) ==
  CASE family = "Ipv4Unicast" -> WriteIpv4UnicastAddress(route)
    [] family = "Ipv4Multicast" -> WriteIpv4MulticastAddress(route)
    [] family = "Ipv4NlriMplsLabels" -> WriteIpv4NlriMplsLabels(route)
    [] family = "Ipv4MplsLabeledVpn" -> WriteIpv4MplsVpn(route)
    [] family = "Ipv6Unicast" -> WriteIpv6UnicastAddress(route)
    [] family = "Ipv6Multicast" -> WriteIpv6MulticastAddress(route)
    [] family = "Ipv6NlriMplsLabels" -> WriteIpv6NlriMplsLabels(route)
    [] family = "Ipv6MplsLabeledVpn" -> WriteIpv6MplsVpn(route)
    [] family = "L2VpnBgpEvpn" -> WriteL2EvpnAddress(route)
    [] family = "RouteTargetConstrains" -> WriteRouteTargetMembershipAddress(route)
    [] family = "BgpLs" -> WriteBgpLsNlri(route)
    [] family = "BgpLsVpn" -> WriteBgpLsVpnNlri(route)

-----------------------------------------------------------------------------
(* The two attributes *)

\* The values of a family; Unknown is a pair without a name, or one whose routes are not read.
Unread == {[family |-> "Unknown", afi |-> 3, safi |-> 1, octets |-> Ramp(3)],
           [family |-> "Unknown", afi |-> 1, safi |-> 133, octets |-> Ramp(3)]}
MpReach(family) ==
  IF family = "Unknown" THEN Unread
  ELSE [family : {family}, next_hop : NextHops(family), nlri : {<<>>}]
         \cup [family : {family}, nlri : Lists(Routes(family)),
               next_hop : {CHOOSE h \in NextHops(family) : family = "BgpLsVpn" => h.rd \in Rd0}]
MpUnreach(family) ==
  IF family = "Unknown" THEN Unread
  ELSE [family : {family}, nlri : Lists(Routes(family))]

\* afi() and safi() of a value.
FamilyOctets(v) ==
  IF v.family = "Unknown" THEN U16(v.afi) \o U8(v.safi)
  ELSE U16(AddressType[v.family][1]) \o U8(AddressType[v.family][2])

\* The part of both readers that comes before the match on the address type.
ReadFamily(extended, b, Value(_, _, _)) ==
  Bind(LengthData(LengthWidth(extended), b), LAMBDA data, rest :
    Bind(ReadFields(<<<<"afi", 2>>, <<"safi", 1>>>>, data), LAMBDA v, mp :
      LET afi == Num(v.afi)
          safi == Num(v.safi)
          name == FromAfiSafi(afi, safi)
      IN IF afi \notin AddressFamily \/ safi \notin SubsequentAddressFamily
         THEN Err("UndefinedAddressFamily")
         ELSE IF \E family \in ReadFamilies : name = <<family>>
              THEN Value(name[1], mp, rest)
              ELSE Ok([family |-> "Unknown", afi |-> afi, safi |-> safi, octets |-> mp], rest)))

\* The families read with a path id whatever the peers agreed on.
ForcedAddPath == {"Ipv4Unicast", "Ipv6Unicast"}
ReadMpReach(extended, b) ==
  ReadFamily(extended, b, LAMBDA family, mp, rest :
    Bind(ReadNextHopOf(family, mp), LAMBDA h, tail :
    Bind(Take(1, tail), LAMBDA reserved, routes :
    Bind(ParseTillEmpty(LAMBDA r : ReadRoute(family, family \in ForcedAddPath, FALSE, r), routes),
      LAMBDA nlri, none : Ok([family |-> family, next_hop |-> h, nlri |-> nlri], rest)))))

\* An unread value has no reserved octet, but its length counts one.
WriteMpReach(extended, v) ==
  Sized(extended,
    IF v.family = "Unknown" THEN W(4 + Len(v.octets), FamilyOctets(v) \o v.octets)
    ELSE Behind(4, FamilyOctets(v),
           WriteAll(<<WriteNextHopOf(v.family, v.next_hop), W(0, U8(0)),
                      WriteEach(LAMBDA r : WriteRoute(v.family, r), v.nlri)>>)))

\* IPv6 withdrawals are read without the path id that IPv6 routes are read with, and
\* withdrawn route targets are read as EVPN routes.
ReadMpUnreach(extended, b) ==
  ReadFamily(extended, b, LAMBDA family, mp, rest :
    LET as == IF family = "RouteTargetConstrains" THEN "L2VpnBgpEvpn" ELSE family
    IN Bind(ParseTillEmpty(LAMBDA r : ReadRoute(as, family = "Ipv4Unicast", TRUE, r), mp),
         LAMBDA nlri, none : Ok([family |-> as, nlri |-> nlri], rest)))
WriteMpUnreach(extended, v) ==
  Sized(extended,
    Behind(3, FamilyOctets(v),
      IF v.family = "Unknown" THEN W(Len(v.octets), v.octets)
      ELSE WriteEach(LAMBDA r : WriteRoute(v.family, r), v.nlri)))
=============================================================================
