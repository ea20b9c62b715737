-------------------------------- MODULE Nlri --------------------------------
(***************************************************************************)
(* The reachability information of a route, for every address type the     *)
(* codec knows except BGP-LS: prefixes with and without path id, label     *)
(* stacks and route distinguishers, EVPN routes, route target membership.  *)
(*                                                                         *)
(* As in module Communities, every type has its sample values, its reader  *)
(* and its writer.  A network is [addr, len], an option a sequence of no   *)
(* element or one.  The types of IPv4 and IPv6 differ in the width of the  *)
(* address, 4 or 16 octets, which is a parameter.                          *)
(***************************************************************************)
EXTENDS Octets, Iana

\* Mutant: the octets a length fills.
FullOctets(len) == len \div 8

\* round_len.
Octets(len) == (len + 7) \div 8
Zeros(n) == [i \in 1 .. n |-> 0]

-----------------------------------------------------------------------------
(* Networks *)

\* The value of an octet's k leading bits, and of all other bits.
HostSize(i, len) ==
  LET k == IF len <= 8 * (i - 1) THEN 0 ELSE IF len >= 8 * i THEN 8 ELSE len - 8 * (i - 1)
  IN 2 ^ (8 - k)

\* Ipv4Net::network and hosts().last().
Network(net) ==
  [i \in DOMAIN net.addr |-> net.addr[i] - (net.addr[i] % HostSize(i, net.len))]
LastHost(net) ==
  LET last == [i \in DOMAIN net.addr |-> Network(net)[i] + HostSize(i, net.len) - 1]
  IN IF Len(net.addr) = 4 /\ net.len < 31 THEN [last EXCEPT ![4] = @ - 1] ELSE last

IsBroadcast(addr) == Len(addr) = 4 /\ addr = Ones(4)
IsMulticast(addr) == IF Len(addr) = 4 THEN addr[1] \in 224 .. 239 ELSE addr[1] = 255

\* A prefix whose length was read before: as many octets as it needs, zeros behind.
ReadPrefix(width, len, b) ==
  LET size == IF len >= 248 THEN 255 ELSE Octets(len)
  IN Bind(Take(IF size < width THEN size ELSE width, b), LAMBDA s, rest :
       IF len > 8 * width THEN Err("InvalidPrefixLen")
       ELSE Ok([addr |-> s \o Zeros(width - Len(s)), len |-> len], rest))

ReadNet(width, b) == Bind(Take(1, b), LAMBDA s, rest : ReadPrefix(width, s[1], rest))

\* The octets of the network, host bits cleared.
PrefixOctets(net) == SubSeq(Network(net), 1, Octets(net.len))
WriteNet(net) == W(1 + Octets(net.len), U8(net.len) \o PrefixOctets(net))

\* Octet boundaries, a length inside an octet, and host bits behind the length.
Ipv4Net ==
  {[addr |-> <<10, 1, 0, 0>>, len |-> 16], [addr |-> Zeros(4), len |-> 0],
   [addr |-> <<10, 1, 1, 129>>, len |-> 32], [addr |-> <<10, 192, 0, 0>>, len |-> 10],
   [addr |-> <<10, 200, 0, 0>>, len |-> 10]}
Ipv6Net ==
  {[addr |-> <<32, 1>> \o Zeros(14), len |-> 32], [addr |-> <<32>> \o Ramp(15), len |-> 128],
   [addr |-> <<32, 1, 13, 224>> \o Zeros(12), len |-> 27]}

\* from_net of the four restricted networks.
Ipv4UnicastFromNet(net) ==
  ~ \E addr \in {net.addr, LastHost(net)} : IsBroadcast(addr) \/ IsMulticast(addr)
Ipv6UnicastFromNet(net) == ~ IsMulticast(net.addr)
Ipv4MulticastFromNet(net) == IsMulticast(net.addr)
Ipv6MulticastFromNet(net) == IsMulticast(net.addr) /\ IsMulticast(LastHost(net))

Admit(FromNet(_), r) ==
  IF r.ok /\ ~ FromNet(r.v) THEN Err("InvalidNetwork") ELSE r

ReadIpv4Unicast(b) == Admit(Ipv4UnicastFromNet, ReadNet(4, b))
ReadIpv6Unicast(b) == Admit(Ipv6UnicastFromNet, ReadNet(16, b))
ReadIpv4Multicast(b) == Admit(Ipv4MulticastFromNet, ReadNet(4, b))
ReadIpv6Multicast(b) == Admit(Ipv6MulticastFromNet, ReadNet(16, b))

WriteIpv4Unicast(net) == WriteNet(net)
WriteIpv6Unicast(net) == WriteNet(net)
WriteIpv4Multicast(net) == WriteNet(net)
WriteIpv6Multicast(net) == WriteNet(net)

-----------------------------------------------------------------------------
(* Addresses: a network with a path id when ADD-PATH is on *)

PathId == Lists({Ramp(4)})
ReadPathId(add_path, b) ==
  IF add_path THEN Bind(Take(4, b), LAMBDA s, rest : Ok(<<s>>, rest)) ELSE Ok(<<>>, b)
WritePathId(path_id) == IF path_id = <<>> THEN W(0, <<>>) ELSE W(4, path_id[1])

ReadAddress(add_path, Read(_), b) ==
  Bind(ReadPathId(add_path, b), LAMBDA id, rest :
    Bind(Read(rest), LAMBDA net, tail : Ok([path_id |-> id, network |-> net], tail)))

\* Mutant: the path id is written, not counted.
WriteAddressUncounted(a) ==
  W(WriteNet(a.network).len, WritePathId(a.path_id).octets \o WriteNet(a.network).octets)
WriteAddress(a) == WriteAll(<<WritePathId(a.path_id), WriteNet(a.network)>>)

Ipv4UnicastAddress == [path_id : PathId, network : Ipv4Net]
ReadIpv4UnicastAddress(add_path, b) == ReadAddress(add_path, ReadIpv4Unicast, b)
WriteIpv4UnicastAddress(a) == WriteAddress(a)

Ipv6UnicastAddress == [path_id : PathId, network : Ipv6Net]
ReadIpv6UnicastAddress(add_path, b) == ReadAddress(add_path, ReadIpv6Unicast, b)
WriteIpv6UnicastAddress(a) == WriteAddress(a)

Ipv4MulticastAddress ==
  [path_id : PathId, network : {[addr |-> <<225, 1, 0, 0>>, len |-> 16]}]
ReadIpv4MulticastAddress(add_path, b) == ReadAddress(add_path, ReadIpv4Multicast, b)
WriteIpv4MulticastAddress(a) == WriteAddress(a)

Ipv6MulticastAddress ==
  [path_id : PathId, network : {[addr |-> <<255, 3>> \o Zeros(14), len |-> 16]}]
ReadIpv6MulticastAddress(add_path, b) == ReadAddress(add_path, ReadIpv6Multicast, b)
WriteIpv6MulticastAddress(a) == WriteAddress(a)

-----------------------------------------------------------------------------
(* Labels, route distinguishers and the next hops they qualify *)

\* A label at the bottom of the stack, and one that is not.
MplsLabel == {<<0, 1, 33>>, <<0, 2, 32>>}
ReadMplsLabel(b) == Take(3, b)
WriteMplsLabel(l) == W(3, l)

IsBottom(l) == l[3] % 2 = 1
IsUnreachCompatibility(l) == l = <<128, 0, 0>>

\* Labels up to the bottom of the stack or the limit, which 255 lifts.
ReadLabelStack(is_unreach, limit, b) ==
  LET from[n \in 0 .. Len(b), left \in 0 .. limit] ==
        IF left = 0 THEN Ok(<<>>, Drop(b, n))
        ELSE Bind(ReadMplsLabel(Drop(b, n)), LAMBDA l, rest :
               IF IsBottom(l) \/ (is_unreach /\ IsUnreachCompatibility(l)) THEN Ok(<<l>>, rest)
               ELSE Bind(from[n + 3, IF left = 255 THEN left ELSE left - 1], LAMBDA ls, tail :
                      Ok(<<l>> \o ls, tail)))
  IN from[0, limit]

RouteDistinguisher ==
  [kind : {"As2Administrator"}, asn2 : {Ramp(2)}, number : {Ones(4)}]
    \cup [kind : {"Ipv4Administrator"}, ip : {Ramp(4)}, number : {Ones(2)}]
    \cup [kind : {"As4Administrator"}, asn4 : {Ramp(4)}, number : {Ones(2)}]
    \cup [kind : {"LeafAdRoutes"}]

ReadRouteDistinguisher(b) ==
  Bind(Take(2, b), LAMBDA s, rest :
    LET kind == TryFrom(RouteDistinguisherTypeCode, Num(s))[1]
        As(layout) == Bind(ReadFields(layout, rest), LAMBDA v, tail :
                        Ok([kind |-> kind] @@ v, tail))
    IN CASE kind = "As2Administrator" -> As(<<<<"asn2", 2>>, <<"number", 4>>>>)
         [] kind = "Ipv4Administrator" -> As(<<<<"ip", 4>>, <<"number", 2>>>>)
         [] kind = "As4Administrator" -> As(<<<<"asn4", 4>>, <<"number", 2>>>>)
         [] kind = "LeafAdRoutes" ->
              Bind(Take(6, rest), LAMBDA ones, tail :
                IF ones = Ones(6) THEN Ok([kind |-> kind], tail) ELSE Err("InvalidLeafAdRoutes"))
         [] OTHER -> Err("UndefinedRouteDistinguisherTypeCode"))

\* From<RouteDistinguisher> for u64: one big-endian word.
RouteDistinguisherWord(rd) ==
  U16(RouteDistinguisherTypeCode[rd.kind])
    \o CASE rd.kind = "As2Administrator" -> rd.asn2 \o rd.number
         [] rd.kind = "Ipv4Administrator" -> rd.ip \o rd.number
         [] rd.kind = "As4Administrator" -> rd.asn4 \o rd.number
         [] rd.kind = "LeafAdRoutes" -> Ones(6)
WriteRouteDistinguisher(rd) == W(8, RouteDistinguisherWord(rd))

\* A record that begins with a route distinguisher.
ReadQualified(layout, b) ==
  Bind(ReadRouteDistinguisher(b), LAMBDA rd, rest :
    Bind(ReadFields(layout, rest), LAMBDA v, tail : Ok([rd |-> rd] @@ v, tail)))

\* The link-local address can be held, and is never written.
LabeledIpv4NextHop == [rd : RouteDistinguisher, next_hop : {Ramp(4)}]
LabeledIpv6NextHop ==
  [rd : RouteDistinguisher, next_hop : {Ramp(16)}, local : Lists({Ones(16)})]

ReadLabeledIpv4NextHop(b) == ReadQualified(<<<<"next_hop", 4>>>>, b)
ReadLabeledIpv6NextHop(b) ==
  Bind(ReadQualified(<<<<"next_hop", 16>>>>, b), LAMBDA v, rest :
    IF rest = <<>> THEN Ok(v @@ [local |-> <<>>], rest)
    ELSE Bind(Take(16, rest), LAMBDA local, tail : Ok(v @@ [local |-> <<local>>], tail)))
WriteLabeledIpv4NextHop(h) == W(12, RouteDistinguisherWord(h.rd) \o h.next_hop)
WriteLabeledIpv6NextHop(h) == W(24, RouteDistinguisherWord(h.rd) \o h.next_hop)

LabeledNextHop == LabeledIpv4NextHop \cup LabeledIpv6NextHop
ReadLabeledNextHop(b) ==
  Bind(LengthTake(1, b), LAMBDA address, rest :
    IF Len(address) \notin {12, 24} THEN Err("InvalidLength")
    ELSE Bind(IF Len(address) = 12 THEN ReadLabeledIpv4NextHop(address)
              ELSE ReadLabeledIpv6NextHop(address), LAMBDA v, tail : Ok(v, rest)))
WriteLabeledNextHop(h) ==
  LET w == IF Len(h.next_hop) = 4 THEN WriteLabeledIpv4NextHop(h) ELSE WriteLabeledIpv6NextHop(h)
  IN Behind(1, U8(w.len), w)

-----------------------------------------------------------------------------
(* Labelled networks.  The length counts the bits of everything behind it. *)

\* The octets a length in bits announces: 255 at the most.
Announced(len, b) == Take(IF len > 248 THEN 255 ELSE Octets(len), b)

MplsVpn(nets) ==
  [path_id : {<<>>}, rd : RouteDistinguisher, network : nets,
   label_stack : {<<<<0, 1, 33>>>>}]
    \cup [path_id : PathId, rd : {[kind |-> "LeafAdRoutes"]}, network : nets,
          label_stack : {<<<<0, 1, 33>>>>, <<<<0, 2, 32>>, <<0, 1, 33>>>>}]
Ipv4MplsVpnUnicastAddress == MplsVpn(Ipv4Net)
Ipv6MplsVpnUnicastAddress == MplsVpn(Ipv6Net)

ReadMplsVpn(width, FromNet(_), add_path, is_unreach, limit, b) ==
  Bind(ReadPathId(add_path, b), LAMBDA id, rest :
  Bind(Take(1, rest), LAMBDA bits, rest1 :
  Bind(Announced(bits[1], rest1), LAMBDA prefix, tail :
  Bind(ReadLabelStack(is_unreach, limit, prefix), LAMBDA ls, rest2 :
  Bind(ReadRouteDistinguisher(rest2), LAMBDA rd, rest3 :
    LET read == (64 + 24 * Len(ls)) % 256
        left == bits[1] - read
    IN IF bits[1] < read THEN Err("InvalidPrefixLength")
       ELSE Bind(Admit(FromNet, ReadPrefix(width, left, rest3)), LAMBDA net, none :
              IF none # <<>> THEN Err("InvalidPrefixLength")
              ELSE Ok([path_id |-> id, rd |-> rd, network |-> net, label_stack |-> ls], tail)))))))
ReadIpv4MplsVpn(add_path, is_unreach, limit, b) ==
  ReadMplsVpn(4, Ipv4UnicastFromNet, add_path, is_unreach, limit, b)
ReadIpv6MplsVpn(add_path, is_unreach, limit, b) ==
  ReadMplsVpn(16, Ipv6UnicastFromNet, add_path, is_unreach, limit, b)

WriteMplsVpn(a) ==
  LET ls == WriteEach(WriteMplsLabel, a.label_stack)
      id == WritePathId(a.path_id)
  IN W(id.len + 8 + WriteNet(a.network).len + ls.len,
       id.octets \o U8(64 + 24 * Len(a.label_stack) + a.network.len) \o ls.octets
         \o RouteDistinguisherWord(a.rd) \o PrefixOctets(a.network))
WriteIpv4MplsVpn(a) == WriteMplsVpn(a)
WriteIpv6MplsVpn(a) == WriteMplsVpn(a)

NlriMplsLabels(nets) ==
  [path_id : PathId, prefix : nets,
   labels : {<<<<0, 1, 33>>>>, <<<<0, 2, 32>>, <<0, 1, 33>>>>}]
Ipv4NlriMplsLabelsAddress == NlriMplsLabels(Ipv4Net)
Ipv6NlriMplsLabelsAddress == NlriMplsLabels(Ipv6Net)

\* Octets behind the prefix are dropped here, where ReadMplsVpn refuses them.
ReadNlriMplsLabels(width, add_path, is_unreach, limit, b) ==
  Bind(ReadPathId(add_path, b), LAMBDA id, rest :
  Bind(Take(1, rest), LAMBDA bits, rest1 :
  Bind(Announced(bits[1], rest1), LAMBDA nlri, tail :
  Bind(ReadLabelStack(is_unreach, limit, nlri), LAMBDA ls, rest2 :
    IF bits[1] < (24 * Len(ls)) % 256 THEN Err("InvalidPrefixLength")
    ELSE Bind(ReadPrefix(width, bits[1] - ((24 * Len(ls)) % 256), rest2), LAMBDA net, dropped :
           IF 24 * Len(ls) + net.len > 255 THEN Err("InvalidLabelsLength")
           ELSE Ok([path_id |-> id, prefix |-> net, labels |-> ls], tail))))))
ReadIpv4NlriMplsLabels(add_path, is_unreach, limit, b) ==
  ReadNlriMplsLabels(4, add_path, is_unreach, limit, b)
ReadIpv6NlriMplsLabels(add_path, is_unreach, limit, b) ==
  ReadNlriMplsLabels(16, add_path, is_unreach, limit, b)

\* The path id is neither counted nor written.
WriteNlriMplsLabels(a) ==
  LET ls == WriteEach(WriteMplsLabel, a.labels)
  IN W(1 + ls.len + Octets(a.prefix.len),
       U8(24 * Len(a.labels) + a.prefix.len) \o ls.octets \o PrefixOctets(a.prefix))
WriteIpv4NlriMplsLabels(a) == WriteNlriMplsLabels(a)
WriteIpv6NlriMplsLabels(a) == WriteNlriMplsLabels(a)

-----------------------------------------------------------------------------
(* EVPN routes *)

MacAddress == {Ramp(6)}
EthernetSegmentIdentifier == {Ramp(10)}
EthernetTag == {Ones(4)}
WriteMacAddress(mac) == W(6, mac)
WriteEthernetSegmentIdentifier(esi) == W(10, esi)
WriteEthernetTag(tag) == W(4, tag)

\* from_wire of the three: fields of a layout.
MacAddressField == <<"mac", 6>>
SegmentIdField == <<"segment_id", 10>>
EthernetTagField == <<"tag", 4>>

\* An address of an EVPN route behind its length in bits; none has length 0.
ReadIpBits(optional, b) ==
  Bind(Take(1, b), LAMBDA bits, rest :
    CASE bits[1] = 0 /\ optional -> Ok(<<>>, rest)
      [] bits[1] \in {32, 128} -> Take(bits[1] \div 8, rest)
      [] OTHER -> Err("InvalidIpAddressAddressLength"))
WriteIpBits(ip) == W(1 + Len(ip), U8(8 * Len(ip)) \o ip)

Rd1 == {[kind |-> "As2Administrator", asn2 |-> Ramp(2), number |-> Ones(4)]}

EthernetAutoDiscovery ==
  [rd : Rd1, segment_id : EthernetSegmentIdentifier, tag : EthernetTag, mpls_label : MplsLabel]
ReadEthernetAutoDiscovery(b) ==
  ReadQualified(<<SegmentIdField, EthernetTagField, <<"mpls_label", 3>>>>, b)
WriteEthernetAutoDiscovery(r) ==
  WriteAll(<<WriteRouteDistinguisher(r.rd), WriteEthernetSegmentIdentifier(r.segment_id),
             WriteEthernetTag(r.tag), WriteMplsLabel(r.mpls_label)>>)

MacIpAdvertisement ==
  [rd : Rd1, segment_id : EthernetSegmentIdentifier, tag : EthernetTag, mac : MacAddress,
   ip : {<<>>, Ramp(4), Ramp(16)}, mpls_label1 : MplsLabel, mpls_label2 : Lists({<<0, 1, 33>>})]
ReadMacIpAdvertisement(b) ==
  Bind(ReadQualified(<<SegmentIdField, EthernetTagField, <<"bits", 1>>,
                       MacAddressField>>, b), LAMBDA v, rest :
    IF v.bits # <<48>> THEN Err("InvalidMacAddressLength")
    ELSE Bind(ReadIpBits(TRUE, rest), LAMBDA ip, rest1 :
         Bind(ReadMplsLabel(rest1), LAMBDA l1, rest2 :
           LET As(l2, tail) == Ok(Restrict(v, DOMAIN v \ {"bits"})
                   @@ [ip |-> ip, mpls_label1 |-> l1, mpls_label2 |-> l2], tail)
           IN IF rest2 = <<>> THEN As(<<>>, rest2)
              ELSE Bind(ReadMplsLabel(rest2), LAMBDA l, tail : As(<<l>>, tail)))))
WriteMacIpAdvertisement(r) ==
  WriteAll(<<WriteRouteDistinguisher(r.rd), WriteEthernetSegmentIdentifier(r.segment_id),
             WriteEthernetTag(r.tag), W(1, U8(48)), WriteMacAddress(r.mac), WriteIpBits(r.ip),
             WriteMplsLabel(r.mpls_label1), WriteEach(WriteMplsLabel, r.mpls_label2)>>)

InclusiveMulticastEthernetTagRoute == [rd : Rd1, tag : EthernetTag, ip : {Ramp(4), Ramp(16)}]
ReadInclusiveMulticastEthernetTagRoute(b) ==
  Bind(ReadQualified(<<EthernetTagField>>, b), LAMBDA v, rest :
    Bind(ReadIpBits(FALSE, rest), LAMBDA ip, tail : Ok(v @@ [ip |-> ip], tail)))
WriteInclusiveMulticastEthernetTagRoute(r) ==
  WriteAll(<<WriteRouteDistinguisher(r.rd), WriteEthernetTag(r.tag), WriteIpBits(r.ip)>>)

EthernetSegmentRoute ==
  [rd : Rd1, segment_id : EthernetSegmentIdentifier, ip : {Ramp(4), Ramp(16)}]
ReadEthernetSegmentRoute(b) ==
  Bind(ReadQualified(<<SegmentIdField>>, b), LAMBDA v, rest :
    Bind(ReadIpBits(FALSE, rest), LAMBDA ip, tail : Ok(v @@ [ip |-> ip], tail)))
WriteEthernetSegmentRoute(r) ==
  WriteAll(<<WriteRouteDistinguisher(r.rd), WriteEthernetSegmentIdentifier(r.segment_id),
             WriteIpBits(r.ip)>>)

\* The prefix takes the whole width whatever its length.
IpPrefixRoute(width, nets) ==
  [rd : Rd1, segment_id : EthernetSegmentIdentifier, tag : EthernetTag, prefix : nets,
   gateway : {Ramp(width)}, label : MplsLabel]
L2EvpnIpv4PrefixRoute == IpPrefixRoute(4, Ipv4Net)
L2EvpnIpv6PrefixRoute == IpPrefixRoute(16, Ipv6Net)

ReadPrefixRoute(width, b) ==
  Bind(ReadQualified(<<SegmentIdField, EthernetTagField, <<"len", 1>>,
                       <<"network", width>>, <<"gateway", width>>, <<"label", 3>>>>, b),
    LAMBDA v, rest :
      IF v.len[1] > 8 * width THEN Err("InvalidPrefixLen")
      ELSE Ok(Restrict(v, DOMAIN v \ {"len", "network"})
                @@ [prefix |-> [addr |-> v.network, len |-> v.len[1]]], rest))
ReadL2EvpnIpv4PrefixRoute(b) == ReadPrefixRoute(4, b)
ReadL2EvpnIpv6PrefixRoute(b) == ReadPrefixRoute(16, b)

WritePrefixRoute(base, r) ==
  WriteAll(<<WriteRouteDistinguisher(r.rd), WriteEthernetSegmentIdentifier(r.segment_id),
             WriteEthernetTag(r.tag),
             W(base, U8(r.prefix.len) \o Network(r.prefix) \o r.gateway \o r.label)>>)
WriteL2EvpnIpv4PrefixRoute(r) == WritePrefixRoute(12, r)
WriteL2EvpnIpv6PrefixRoute(r) == WritePrefixRoute(36, r)

L2EvpnIpPrefixRoute == L2EvpnIpv4PrefixRoute \cup L2EvpnIpv6PrefixRoute
ReadL2EvpnIpPrefixRoute(b) ==
  CASE Len(b) = 34 -> ReadL2EvpnIpv4PrefixRoute(b)
    [] Len(b) = 58 -> ReadL2EvpnIpv6PrefixRoute(b)
    [] OTHER -> Err("InvalidBufferLength")
WriteL2EvpnIpPrefixRoute(r) ==
  IF Len(r.gateway) = 4 THEN WriteL2EvpnIpv4PrefixRoute(r) ELSE WriteL2EvpnIpv6PrefixRoute(r)

L2EvpnRoute ==
  LET Kind(kind, values) == [kind : {kind}, value : values]
  IN Kind("EthernetAutoDiscovery", EthernetAutoDiscovery)
       \cup Kind("MacIpAdvertisement", MacIpAdvertisement)
       \cup Kind("InclusiveMulticastEthernetTagRoute", InclusiveMulticastEthernetTagRoute)
       \cup Kind("EthernetSegmentRoute", EthernetSegmentRoute)
       \cup Kind("IpPrefix", L2EvpnIpPrefixRoute)
       \cup [kind : {"Unknown"}, code : {6, 200}, value : {Ramp(3)}]

\* A route of another type takes its octets from behind the route: be_u8 and take
\* work on buf, not on route_buf, and what they leave of it is not kept.
ReadL2EvpnRoute(b) ==
  Bind(Take(1, b), LAMBDA code, b1 :
  Bind(LengthTake(1, b1), LAMBDA route, rest :
    LET kind == TryFrom(L2EvpnRouteTypeCode, code[1])[1]
        As(r) == Bind(r, LAMBDA v, tail : Ok([kind |-> kind, value |-> v], rest))
    IN CASE kind = "EthernetAutoDiscovery" -> As(ReadEthernetAutoDiscovery(route))
         [] kind = "MacIpAdvertisement" -> As(ReadMacIpAdvertisement(route))
         [] kind = "InclusiveMulticastEthernetTagRoute" ->
              As(ReadInclusiveMulticastEthernetTagRoute(route))
         [] kind = "EthernetSegmentRoute" -> As(ReadEthernetSegmentRoute(route))
         [] kind = "IpPrefix" -> As(ReadL2EvpnIpPrefixRoute(route))
         [] OTHER -> Bind(LengthTake(1, rest), LAMBDA v, tail :
                       Ok([kind |-> "Unknown", code |-> code[1], value |-> v], rest))))

\* An unknown route has a length octet of its own that len() does not count.
WriteL2EvpnRoute(r) ==
  LET As(w) == Behind(2, U8(L2EvpnRouteTypeCode[r.kind]) \o U8(w.len), w)
  IN CASE r.kind = "EthernetAutoDiscovery" -> As(WriteEthernetAutoDiscovery(r.value))
       [] r.kind = "MacIpAdvertisement" -> As(WriteMacIpAdvertisement(r.value))
       [] r.kind = "InclusiveMulticastEthernetTagRoute" ->
            As(WriteInclusiveMulticastEthernetTagRoute(r.value))
       [] r.kind = "EthernetSegmentRoute" -> As(WriteEthernetSegmentRoute(r.value))
       [] r.kind = "IpPrefix" -> As(WriteL2EvpnIpPrefixRoute(r.value))
       [] OTHER -> W(2 + Len(r.value),
                     U8(r.code) \o U8(Len(r.value)) \o U8(Len(r.value) + 1) \o r.value)

L2EvpnAddress == [path_id : {<<>>}, route : L2EvpnRoute]
ReadL2EvpnAddress(add_path, b) ==
  Bind(ReadPathId(add_path, b), LAMBDA id, rest :
    Bind(ReadL2EvpnRoute(rest), LAMBDA route, tail : Ok([path_id |-> id, route |-> route], tail)))
WriteL2EvpnAddress(a) == WriteAll(<<WritePathId(a.path_id), WriteL2EvpnRoute(a.route)>>)

-----------------------------------------------------------------------------
(* Route target membership *)

RouteTargetMembership == [origin_as : {Ramp(4)}, route_target : {<<>>, Ramp(3), Ramp(8)}]
ReadRouteTargetMembership(bits, b) ==
  ReadFields(<<<<"origin_as", 4>>, <<"route_target", (bits - 32) \div 8>>>>, b)
WriteRouteTargetMembership(m) == W(4 + Len(m.route_target), m.origin_as \o m.route_target)

RouteTargetMembershipAddress == [path_id : {<<>>}, membership : Lists(RouteTargetMembership)]
ReadRouteTargetMembershipAddress(add_path, b) ==
  Bind(ReadPathId(add_path, b), LAMBDA id, rest :
  Bind(Take(1, rest), LAMBDA bits, rest1 :
    CASE bits[1] = 0 -> Ok([path_id |-> id, membership |-> <<>>], rest1)
      [] bits[1] \in 32 .. 96 ->
           Bind(ReadRouteTargetMembership(bits[1], rest1), LAMBDA m, tail :
             Ok([path_id |-> id, membership |-> <<m>>], tail))
      [] OTHER -> Err("InvalidPrefixLen")))
WriteRouteTargetMembershipAddress(a) ==
  LET m == WriteEach(WriteRouteTargetMembership, a.membership)
      id == WritePathId(a.path_id)
  IN W(1 + id.len + m.len, id.octets \o U8(8 * m.len) \o m.octets)
=============================================================================
