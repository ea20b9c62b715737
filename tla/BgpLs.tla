-------------------------------- MODULE BgpLs --------------------------------
(***************************************************************************)
(* BGP-LS: the link-state NLRI (nodes, links, prefixes, with and without a *)
(* route distinguisher) and the link-state path attribute.                 *)
(*                                                                         *)
(* Nearly everything is a TLV.  A set of flags is the set of the names     *)
(* that are on.                                                            *)
(***************************************************************************)
EXTENDS Tlvs, Nlri

-----------------------------------------------------------------------------
(* TLVs, flags and topology identifiers *)

\* The types of every table that are reserved.
Reserved == 0 .. 255
UnknownTlv == [kind : {"Unknown"}, code : {4096}, value : {Ramp(3)}]

ReadFlags(table, n) == {name \in DOMAIN table : HasBit(n, table[name])}
WriteFlags(table, flags) == FoldSet(LAMBDA name, n : n + table[name], 0, flags)
FlagSets(table) == {{}, DOMAIN table} \cup {{name} : name \in DOMAIN table}

\* The four leading bits of a topology identifier are reserved and masked.
MultiTopologyId == {<<0, 2>>, <<15, 255>>}
MultiTopologyIdData == Lists(MultiTopologyId) \cup {<<<<0, 2>>, <<15, 255>>>>}
ReadMultiTopologyId(b) ==
  Bind(Take(2, b), LAMBDA id, rest : Ok(<<id[1] % 16, id[2]>>, rest))
ReadMultiTopologyIdData(b) == ParseTillEmpty(ReadMultiTopologyId, b)
WriteMultiTopologyId(id) == W(2, id)
WriteMultiTopologyIdData(ids) == W(2 * Len(ids), WriteEach(WriteMultiTopologyId, ids).octets)

-----------------------------------------------------------------------------
(* Node descriptors *)

BgpLsNodeDescriptorSubTlv ==
  [kind : DOMAIN BgpLsNodeDescriptorSubType \ {"IgpRouterId"}, value : {Ramp(4)}]
    \cup [kind : {"IgpRouterId"}, value : {Ramp(6)}] \cup UnknownTlv
ReadNodeDescriptorValue(kind, data) ==
  IF kind = "IgpRouterId" THEN Ok(data, <<>>) ELSE Take(4, data)
ReadNodeDescriptorSubTlv(b) ==
  ReadTlvOf(2, BgpLsNodeDescriptorSubType, Reserved, ReadNodeDescriptorValue, b)
WriteNodeDescriptorSubTlv(tlv) ==
  WriteTlvOf(2, BgpLsNodeDescriptorSubType, LAMBDA t : W(Len(t.value), t.value), tlv)

BgpLsNodeDescriptors == Lists(BgpLsNodeDescriptorSubTlv)
ReadNodeDescriptors(kind, b) ==
  Bind(ReadTlv(2, b), LAMBDA tlv, rest :
    IF TryFrom(BgpLsNodeDescriptorType, tlv.type) # <<kind>> THEN Err("BadNodeDescriptorTlvType")
    ELSE Bind(ParseTillEmpty(ReadNodeDescriptorSubTlv, tlv.data), LAMBDA v, none : Ok(v, rest)))
WriteNodeDescriptors(kind, tlvs) ==
  WriteTlv(2, BgpLsNodeDescriptorType[kind], WriteEach(WriteNodeDescriptorSubTlv, tlvs))

ReadLocalNodeDescriptors(b) == ReadNodeDescriptors("LocalNodeDescriptor", b)
WriteLocalNodeDescriptors(tlvs) == WriteNodeDescriptors("LocalNodeDescriptor", tlvs)
ReadRemoteNodeDescriptors(b) == ReadNodeDescriptors("RemoteNodeDescriptor", b)
WriteRemoteNodeDescriptors(tlvs) == WriteNodeDescriptors("RemoteNodeDescriptor", tlvs)

-----------------------------------------------------------------------------
(* Link and prefix descriptors *)

BgpLsLinkDescriptor ==
  [kind : {"LinkLocalRemoteIdentifiers"},
   value : [link_local_identifier : {Ramp(4)}, link_remote_identifier : {Ones(4)}]]
    \cup [kind : {"IPv4InterfaceAddress", "IPv4NeighborAddress"}, value : {Ramp(4)}]
    \cup [kind : {"IPv6InterfaceAddress", "IPv6NeighborAddress"}, value : {Ramp(16)}]
    \cup [kind : {"MultiTopologyIdentifier"}, value : MultiTopologyIdData]
    \cup UnknownTlv
ReadLinkDescriptorValue(kind, data) ==
  CASE kind = "LinkLocalRemoteIdentifiers" ->
         ReadFields(<<<<"link_local_identifier", 4>>, <<"link_remote_identifier", 4>>>>, data)
    [] kind \in {"IPv4InterfaceAddress", "IPv4NeighborAddress"} -> Take(4, data)
    [] kind \in {"IPv6InterfaceAddress", "IPv6NeighborAddress"} -> Take(16, data)
    [] kind = "MultiTopologyIdentifier" -> ReadMultiTopologyIdData(data)
ReadLinkDescriptor(b) == ReadTlvOf(2, BgpLsLinkDescriptorType, Reserved, ReadLinkDescriptorValue, b)
WriteLinkDescriptor(tlv) ==
  LET Value(t) ==
        CASE t.kind = "LinkLocalRemoteIdentifiers" ->
               W(8, Fields(t.value, <<"link_local_identifier", "link_remote_identifier">>))
          [] t.kind = "MultiTopologyIdentifier" -> WriteMultiTopologyIdData(t.value)
          [] OTHER -> W(Len(t.value), t.value)
  IN WriteTlvOf(2, BgpLsLinkDescriptorType, Value, tlv)

OspfRouteType ==
  [IntraArea |-> 1, InterArea |-> 2, External1 |-> 3, External2 |-> 4, Nssa1 |-> 5, Nssa2 |-> 6]

\* The network of a prefix has the family of its NLRI.
IpReachabilityInformationData(width) == IF width = 4 THEN Ipv4Net ELSE Ipv6Net
ReadIpReachability(width, b) == ReadNet(width, b)
WriteIpReachability(net) == WriteNet(net)

BgpLsPrefixDescriptor(width) ==
  [kind : {"MultiTopologyIdentifier"}, value : MultiTopologyIdData]
    \cup [kind : {"OspfRouteType"}, value : DOMAIN OspfRouteType]
    \cup [kind : {"IpReachabilityInformation"}, value : IpReachabilityInformationData(width)]
    \cup UnknownTlv
ReadPrefixDescriptor(width, b) ==
  LET Value(kind, data) ==
        CASE kind = "MultiTopologyIdentifier" -> ReadMultiTopologyIdData(data)
          [] kind = "OspfRouteType" ->
               Bind(Take(1, data), LAMBDA s, rest :
                 IF TryFrom(OspfRouteType, s[1]) = Undefined THEN Err("UnknownOspfRouteType")
                 ELSE Ok(TryFrom(OspfRouteType, s[1])[1], rest))
          [] kind = "IpReachabilityInformation" -> ReadIpReachability(width, data)
  IN ReadTlvOf(2, BgpLsPrefixDescriptorType, Reserved, Value, b)
WritePrefixDescriptor(tlv) ==
  LET Value(t) ==
        CASE t.kind = "MultiTopologyIdentifier" -> WriteMultiTopologyIdData(t.value)
          [] t.kind = "OspfRouteType" -> W(1, U8(OspfRouteType[t.value]))
          [] t.kind = "IpReachabilityInformation" -> WriteIpReachability(t.value)
  IN WriteTlvOf(2, BgpLsPrefixDescriptorType, Value, tlv)

-----------------------------------------------------------------------------
(* NLRI *)

\* What all link-state NLRI begin with.
LsHeader(v) == W(9, U8(BgpLsProtocolId[v.protocol_id]) \o v.identifier)
ReadLsHeader(b) ==
  Bind(Take(1, b), LAMBDA s, rest :
    IF TryFrom(BgpLsProtocolId, s[1]) = Undefined THEN Err("UnknownProtocolId")
    ELSE Bind(Take(8, rest), LAMBDA id, rest1 :
         Bind(ReadLocalNodeDescriptors(rest1), LAMBDA local, tail :
           Ok([protocol_id |-> TryFrom(BgpLsProtocolId, s[1])[1], identifier |-> id,
               local_node_descriptors |-> local], tail))))

BgpLsNlriNode ==
  [protocol_id : DOMAIN BgpLsProtocolId, identifier : {Ramp(8)}, local_node_descriptors : {<<>>}]
    \cup [protocol_id : {"Direct"}, identifier : {Ramp(8)},
          local_node_descriptors : BgpLsNodeDescriptors]
ReadNlriNode(b) == ReadLsHeader(b)
WriteNlriNode(v) == WriteAll(<<LsHeader(v), WriteLocalNodeDescriptors(v.local_node_descriptors)>>)

BgpLsNlriLink ==
  [protocol_id : {"Direct"}, identifier : {Ramp(8)}, local_node_descriptors : {<<>>},
   remote_node_descriptors : BgpLsNodeDescriptors, link_descriptors : Lists(BgpLsLinkDescriptor)]
ReadNlriLink(b) ==
  Bind(ReadLsHeader(b), LAMBDA v, rest :
  Bind(ReadRemoteNodeDescriptors(rest), LAMBDA remote, rest1 :
  Bind(ParseTillEmpty(ReadLinkDescriptor, rest1), LAMBDA links, tail :
    Ok(v @@ [remote_node_descriptors |-> remote, link_descriptors |-> links], tail))))
WriteNlriLink(v) ==
  WriteAll(<<LsHeader(v), WriteLocalNodeDescriptors(v.local_node_descriptors),
             WriteRemoteNodeDescriptors(v.remote_node_descriptors),
             WriteEach(WriteLinkDescriptor, v.link_descriptors)>>)

BgpLsNlriIpPrefix(width) ==
  [protocol_id : {"Direct"}, identifier : {Ramp(8)}, local_node_descriptors : {<<>>},
   prefix_descriptors : Lists(BgpLsPrefixDescriptor(width))]
ReadNlriIpPrefix(width, b) ==
  Bind(ReadLsHeader(b), LAMBDA v, rest :
  Bind(ParseTillEmpty(LAMBDA s : ReadPrefixDescriptor(width, s), rest), LAMBDA prefixes, tail :
    Ok(v @@ [prefix_descriptors |-> prefixes], tail)))
WriteNlriIpPrefix(v) ==
  WriteAll(<<LsHeader(v), WriteLocalNodeDescriptors(v.local_node_descriptors),
             WriteEach(WritePrefixDescriptor, v.prefix_descriptors)>>)

BgpLsNlriValue ==
  [kind : {"Node"}, value : BgpLsNlriNode] \cup [kind : {"Link"}, value : BgpLsNlriLink]
    \cup [kind : {"Ipv4TopologyPrefix"}, value : BgpLsNlriIpPrefix(4)]
    \cup [kind : {"Ipv6TopologyPrefix"}, value : BgpLsNlriIpPrefix(16)]
    \cup [kind : {"Unknown"}, code : {BgpLsNlriType.TePolicy, BgpLsNlriType.Srv6Sid},
          value : {Ramp(3)}]
ReadNlriValue(kind, b) ==
  LET As(r) == Bind(r, LAMBDA v, rest : Ok([kind |-> kind, value |-> v], rest))
  IN CASE kind = "Node" -> As(ReadNlriNode(b))
       [] kind = "Link" -> As(ReadNlriLink(b))
       [] kind = "Ipv4TopologyPrefix" -> As(ReadNlriIpPrefix(4, b))
       [] kind = "Ipv6TopologyPrefix" -> As(ReadNlriIpPrefix(16, b))
       [] kind \in {"TePolicy", "Srv6Sid"} ->
            Ok([kind |-> "Unknown", code |-> BgpLsNlriType[kind], value |-> b], <<>>)
WriteNlriValue(v) ==
  CASE v.kind = "Node" -> WriteNlriNode(v.value)
    [] v.kind = "Link" -> WriteNlriLink(v.value)
    [] v.kind \in {"Ipv4TopologyPrefix", "Ipv6TopologyPrefix"} -> WriteNlriIpPrefix(v.value)
    [] v.kind = "Unknown" -> W(Len(v.value), v.value)

BgpLsNlriCode(v) == IF v.kind = "Unknown" THEN v.code ELSE BgpLsNlriType[v.kind]

BgpLsNlri == [path_id : {<<>>}, value : BgpLsNlriValue]
ReadBgpLsNlri(add_path, b) ==
  Bind(ReadPathId(add_path, b), LAMBDA id, rest :
  Bind(ReadTlv(2, rest), LAMBDA tlv, tail :
    LET kind == TryFrom(BgpLsNlriType, tlv.type)
    IN IF kind = Undefined THEN Err("UnknownNlriType")
       ELSE Bind(ReadNlriValue(kind[1], tlv.data), LAMBDA v, left :
              Ok([path_id |-> id, value |-> v], tail))))
WriteBgpLsNlri(n) ==
  WriteAll(<<WritePathId(n.path_id), WriteTlv(2, BgpLsNlriCode(n.value), WriteNlriValue(n.value))>>)

BgpLsVpnNlri ==
  [path_id : {<<>>}, rd : RouteDistinguisher, value : [kind : {"Node"}, value : BgpLsNlriNode]]
ReadBgpLsVpnNlri(add_path, b) ==
  Bind(ReadPathId(add_path, b), LAMBDA id, rest :
  Bind(ReadTlv(2, rest), LAMBDA tlv, tail :
    LET kind == TryFrom(BgpLsNlriType, tlv.type)
    IN IF kind = Undefined THEN Err("UnknownNlriType")
       ELSE Bind(ReadRouteDistinguisher(tlv.data), LAMBDA rd, data :
            Bind(ReadNlriValue(kind[1], data), LAMBDA v, left :
              Ok([path_id |-> id, rd |-> rd, value |-> v], tail)))))
WriteBgpLsVpnNlri(n) ==
  WriteAll(<<WritePathId(n.path_id),
             WriteTlv(2, BgpLsNlriCode(n.value),
                      WriteAll(<<WriteRouteDistinguisher(n.rd), WriteNlriValue(n.value)>>))>>)
=============================================================================
