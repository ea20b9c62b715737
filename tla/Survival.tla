------------------------------ MODULE Survival ------------------------------
(***************************************************************************)
(* Which messages come back from the wire as they were written.  The       *)
(* readers and writers of the codec are two sets of functions that nothing *)
(* but tests keeps together; here is what they owe to each other, and      *)
(* every case in which the code does not give it, at its line.  Module     *)
(* Codec checks both directions: what survives is read back exactly, and   *)
(* what is named here as lost is lost.                                     *)
(*                                                                         *)
(* The paths are relative to netgauze/bgp-pkt/src/wire.                    *)
(***************************************************************************)
EXTENDS Messages

Every(S(_), vs) == \A i \in DOMAIN vs : S(vs[i])

-----------------------------------------------------------------------------
(* Routes *)

\* serializer/nlri/nlri.rs:280: host bits behind the length are not written; the reader
\* keeps those it is sent.
CleanNet(net) == Network(net) = net.addr

\* deserializer/nlri/nlri.rs:1166: without a negotiated limit, one label is read.
OneLabel(stack) == Len(stack) = 1

CleanPrefixes(tlvs) ==
  Every(LAMBDA t : t.kind = "IpReachabilityInformation" => CleanNet(t.value), tlvs)

\* deserializer/nlri/nlri.rs:815: an EVPN route of an unknown type is taken from behind itself.
RouteSurvives(family, add_path, r) ==
  /\ (r.path_id # <<>>) = add_path
  /\ CASE family \in {"Ipv4Unicast", "Ipv6Unicast", "Ipv4Multicast", "Ipv6Multicast"} ->
            CleanNet(r.network)
       [] family \in {"Ipv4MplsLabeledVpn", "Ipv6MplsLabeledVpn"} ->
            CleanNet(r.network) /\ OneLabel(r.label_stack)
       [] family \in {"Ipv4NlriMplsLabels", "Ipv6NlriMplsLabels"} ->
            CleanNet(r.prefix) /\ OneLabel(r.labels)
       [] family = "L2VpnBgpEvpn" ->
            /\ r.route.kind # "Unknown"
            /\ r.route.kind = "IpPrefix" => CleanNet(r.route.value.prefix)
       [] family = "BgpLs" ->
            r.value.kind \in {"Ipv4TopologyPrefix", "Ipv6TopologyPrefix"}
              => CleanPrefixes(r.value.value.prefix_descriptors)
       [] OTHER -> TRUE

\* serializer/nlri/nlri.rs:97, serializer/path_attribute/path_attribute.rs:1118: a link-local
\* part is not written, nor the distinguisher of a link-state next hop.
NextHopSurvives(family, h) ==
  /\ family \in LabeledFamilies => "local" \notin DOMAIN h \/ h.local = <<>>
  /\ family = "BgpLsVpn" => h.rd \in Rd0

\* serializer/path_attribute/path_attribute.rs:880: a reach of an unread family is written
\* with a length that counts an octet too many.
MpReachSurvives(v) ==
  /\ v.family # "Unknown"
  /\ NextHopSurvives(v.family, v.next_hop)
  /\ Every(LAMBDA r : RouteSurvives(v.family, v.family \in ForcedAddPath, r), v.nlri)

\* deserializer/path_attribute/path_attribute.rs:1092, 1127: IPv6 withdrawals have no path id,
\* and withdrawn route targets are read as EVPN routes.
MpUnreachSurvives(v) ==
  /\ v.family # "RouteTargetConstrains"
  /\ v.family # "Unknown" =>
       Every(LAMBDA r : RouteSurvives(v.family, v.family = "Ipv4Unicast", r), v.nlri)

-----------------------------------------------------------------------------
(* The other attributes *)

\* serializer/community.rs:269, 615 and deserializer/community.rs:738, 763: source AS is
\* written as route target, and the fourth octet of two EVPN communities is read as the third.
CommunitySurvives(c) ==
  LET v == c.value
  IN CASE c.kind \in {"TransitiveTwoOctet", "TransitiveFourOctet"} -> v.sub # <<"SourceAs">>
       [] c.kind = "Evpn" /\ v.sub = <<"EsImportRouteTarget">> ->
            v.route_target[3] = v.route_target[4]
       [] c.kind = "Evpn" /\ v.sub[1] = "Unassigned" -> v.value[3] = v.value[4]
       [] OTHER -> TRUE

\* serializer/path_attribute/path_attribute.rs:1367: from 255 octets on, the length field
\* grows to two octets, but the flag that says so does not change.
Countable(a) == a.kind = "Communities" => a.extended \/ 4 * Len(a.value) < 255

\* serializer/path_attribute/bgp_ls.rs:131 and 227, bgp_sid.rs:99: link protection flags are written
\* in less octets than they are counted and read, a forwarding address behind an octet that
\* is neither counted nor read, and an unknown SID TLV with its code once more.
TlvsSurvive(a) ==
  CASE a.kind = "BgpLsAttribute" ->
         Every(LAMBDA t : t.kind \notin {"LinkProtectionType", "OspfForwardingAddress"}, a.value)
    [] a.kind = "BgpPrefixSid" -> Every(LAMBDA t : t.kind # "Unknown", a.value)
    [] OTHER -> TRUE

AttributeSurvives(a) ==
  /\ Countable(a) /\ TlvsSurvive(a)
  /\ CASE a.kind = "ExtendedCommunities" -> Every(CommunitySurvives, a.value)
       [] a.kind = "MpReachNlri" -> MpReachSurvives(a.value)
       [] a.kind = "MpUnreachNlri" -> MpUnreachSurvives(a.value)
       [] OTHER -> TRUE

-----------------------------------------------------------------------------
(* Messages *)

\* deserializer/path_attribute/bgp_ls.rs:83: nothing is read behind a link-state attribute.
LinkStateIsLast(as) ==
  \A i \in DOMAIN as : as[i].kind = "BgpLsAttribute" => i = Len(as)

\* serializer/capabilities.rs:265, 93: a family is offered for receiving paths, whatever
\* its flags, and multiple labels have no length.
CapabilitySurvives(c) ==
  CASE c.kind = "AddPathCapability" -> Every(LAMBDA f : f.receive /\ ~ f.send, c.value)
    [] c.kind = "MultipleLabelsCapability" -> FALSE
    [] OTHER -> TRUE

\* deserializer/update.rs:155: the routes of an UPDATE are read with a path id.
UpdateSurvives(v) ==
  /\ Every(LAMBDA r : RouteSurvives("Ipv4Unicast", TRUE, r), v.withdrawn_routes \o v.nlri)
  /\ Every(AttributeSurvives, v.path_attributes)
  /\ LinkStateIsLast(v.path_attributes)

Survives(m) ==
  CASE m.kind = "Open" -> Every(CapabilitySurvives, capabilities(m.value))
    [] m.kind = "Update" -> UpdateSurvives(m.value)
    [] OTHER -> TRUE

\* Those of the losses above that make len() differ from what write() writes: the header
\* then announces a message that begins or ends elsewhere.
AttributeIsSized(a) ==
  /\ Countable(a) /\ TlvsSurvive(a)
  /\ a.kind = "MpReachNlri" => a.value.family # "Unknown"
  /\ a.kind \in {"MpReachNlri", "MpUnreachNlri"} /\ a.value.family = "L2VpnBgpEvpn"
       => Every(LAMBDA r : r.route.kind # "Unknown", a.value.nlri)

IsSized(m) ==
  CASE m.kind = "Open" ->
         Every(LAMBDA c : c.kind # "MultipleLabelsCapability", capabilities(m.value))
    [] m.kind = "Update" -> Every(AttributeIsSized, m.value.path_attributes)
    [] OTHER -> TRUE
=============================================================================
