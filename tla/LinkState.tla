----------------------------- MODULE LinkState -----------------------------
(***************************************************************************)
(* The link-state path attribute (BgpLsAttribute): TLVs about a node, a    *)
(* link or a prefix.  A TLV is [kind, value] as in module BgpLs; a float   *)
(* is the four octets of its representation, a string its octets.          *)
(***************************************************************************)
EXTENDS BgpLs

LinkProtectionType ==
  [ExtraTraffic |-> 1, Unprotected |-> 2, Shared |-> 4, Dedicated1c1 |-> 8,
   Dedicated1p1 |-> 16, Enhanced |-> 32]
MplsProtocolMask == [LabelDistributionProtocol |-> 128, ExtensionToRsvpForLspTunnels |-> 64]
IgpFlags ==
  [IsIsUp |-> 128, OspfNoUnicast |-> 64, OspfLocalAddress |-> 32, OspfPropagateNssa |-> 16]

\* The TLVs that are a number or an address, with its width.
FixedWidth ==
  [LocalNodeIpv4RouterId |-> 4, LocalNodeIpv6RouterId |-> 16, RemoteNodeIpv4RouterId |-> 4,
   RemoteNodeIpv6RouterId |-> 16, RemoteNodeAdministrativeGroupColor |-> 4,
   MaximumLinkBandwidth |-> 4, MaximumReservableLinkBandwidth |-> 4,
   UnreservedBandwidth |-> 32, TeDefaultMetric |-> 4, PrefixMetric |-> 4]

\* The TLVs that are a list of numbers, with the width of one.
ListWidth == [SharedRiskLinkGroup |-> 4, IgpRouteTag |-> 4, IgpExtendedRouteTag |-> 8]

\* The TLVs kept as they are, and the ones that must be UTF-8 text.
Raw == {"IgpMetric", "OpaqueLinkAttribute", "OpaquePrefixAttribute", "OpaqueNodeAttribute",
        "IsIsArea"}
Text == {"LinkName", "NodeNameTlv"}

\* String::from_utf8, of ASCII text: octets of 128 and more are left to the library.
IsUtf8(s) == \A i \in DOMAIN s : s[i] < 128

-----------------------------------------------------------------------------
(* The SID of a BGP peer *)

HasValueFlag(flags) == HasBit(flags[1], BgpLsSidAttributeFlags.ValueFlag)

BgpLsPeerSid ==
  [kind : {"LabelValue"}, flags : {<<128>>, <<192>>}, weight : {<<7>>}, label : MplsLabel]
    \cup [kind : {"IndexValue"}, flags : {<<0>>, <<64>>}, weight : {<<7>>}, index : {Ramp(4)}]
ReadPeerSid(b) ==
  Bind(ReadFields(<<<<"flags", 1>>, <<"weight", 1>>, <<"reserved", 2>>>>, b), LAMBDA v, rest :
    LET As(kind, field, r) ==
          Bind(r, LAMBDA x, tail :
            Ok([kind |-> kind, flags |-> v.flags, weight |-> v.weight] @@ (field :> x), tail))
    IN CASE Len(b) = 7 /\ HasValueFlag(v.flags) -> As("LabelValue", "label", ReadMplsLabel(rest))
         [] Len(b) = 8 /\ ~ HasValueFlag(v.flags) -> As("IndexValue", "index", Take(4, rest))
         [] OTHER -> Err("BadSidValue"))
WritePeerSid(sid) ==
  LET value == IF sid.kind = "LabelValue" THEN sid.label ELSE sid.index
  IN W(4 + (IF sid.kind = "LabelValue" THEN 3 ELSE 4), sid.flags \o sid.weight \o U16(0) \o value)

-----------------------------------------------------------------------------
(* The TLVs of the attribute *)

BgpLsAttributeValue ==
  UNION {[kind : {kind}, value : {Ramp(FixedWidth[kind])}] : kind \in DOMAIN FixedWidth}
    \cup UNION {[kind : {kind}, value : Lists({Ramp(ListWidth[kind])})] : kind \in DOMAIN ListWidth}
    \cup [kind : Raw \cup Text, value : {Ramp(3)}]
    \cup [kind : {"LinkProtectionType"}, value : FlagSets(LinkProtectionType)]
    \cup [kind : {"MplsProtocolMask"}, value : FlagSets(MplsProtocolMask)]
    \cup [kind : {"IgpFlags"}, value : FlagSets(IgpFlags)]
    \cup [kind : {"NodeFlagBits"}, value : FlagSets(BgpLsNodeFlagsBits)]
    \cup [kind : {"OspfForwardingAddress"}, value : {Ramp(4), Ramp(16)}]
    \cup [kind : {"MultiTopologyIdentifier"}, value : MultiTopologyIdData]
    \cup [kind : {"PeerNodeSid", "PeerAdjSid", "PeerSetSid"}, value : BgpLsPeerSid]
    \cup UnknownTlv

ReadAttributeTlvValue(kind, data) ==
  LET AsFlags(width, table) ==
        Bind(Take(width, data), LAMBDA s, rest : Ok(ReadFlags(table, Num(s)), rest))
  IN CASE kind \in DOMAIN FixedWidth -> Take(FixedWidth[kind], data)
       [] kind \in DOMAIN ListWidth -> ParseTillEmpty(LAMBDA b : Take(ListWidth[kind], b), data)
       [] kind \in Raw -> Ok(data, <<>>)
       [] kind \in Text -> IF IsUtf8(data) THEN Ok(data, <<>>) ELSE Err("Utf8Error")
       [] kind = "LinkProtectionType" -> AsFlags(2, LinkProtectionType)
       [] kind = "MplsProtocolMask" -> AsFlags(1, MplsProtocolMask)
       [] kind = "IgpFlags" -> AsFlags(1, IgpFlags)
       [] kind = "NodeFlagBits" -> AsFlags(1, BgpLsNodeFlagsBits)
       [] kind = "OspfForwardingAddress" ->
            IF Len(data) \in {4, 16} THEN Ok(data, <<>>) ELSE Err("WrongIpAddrLength")
       [] kind = "MultiTopologyIdentifier" -> ReadMultiTopologyIdData(data)
       [] kind \in {"PeerNodeSid", "PeerAdjSid", "PeerSetSid"} -> ReadPeerSid(data)
ReadAttributeTlv(b) == ReadTlvOf(2, BgpLsAttributeType, Reserved, ReadAttributeTlvValue, b)

\* Two lengths are not what is written: the protection type has one octet where two
\* are announced, and an address comes with a length octet nobody counts.
WriteAttributeTlvValue(tlv) ==
  LET v == tlv.value
      AsFlags(len, table) == W(len, U8(WriteFlags(table, v)))
  IN CASE tlv.kind \in DOMAIN FixedWidth -> W(FixedWidth[tlv.kind], v)
       [] tlv.kind \in DOMAIN ListWidth ->
            WriteEach(LAMBDA x : W(ListWidth[tlv.kind], x), v)
       [] tlv.kind \in Raw \cup Text -> W(Len(v), v)
       [] tlv.kind = "LinkProtectionType" -> AsFlags(2, LinkProtectionType)
       [] tlv.kind = "MplsProtocolMask" -> AsFlags(1, MplsProtocolMask)
       [] tlv.kind = "IgpFlags" -> AsFlags(1, IgpFlags)
       [] tlv.kind = "NodeFlagBits" -> AsFlags(1, BgpLsNodeFlagsBits)
       [] tlv.kind = "OspfForwardingAddress" -> W(Len(v), U8(Len(v)) \o v)
       [] tlv.kind = "MultiTopologyIdentifier" -> WriteMultiTopologyIdData(v)
       [] tlv.kind \in {"PeerNodeSid", "PeerAdjSid", "PeerSetSid"} -> WritePeerSid(v)
WriteAttributeTlv(tlv) == WriteTlvOf(2, BgpLsAttributeType, WriteAttributeTlvValue, tlv)

\* What is left behind the attribute is taken from the attribute's own octets: none,
\* however much the message goes on with.
BgpLsAttribute == Lists(BgpLsAttributeValue)
ReadBgpLsAttribute(extended, b) ==
  Bind(LengthData(IF extended THEN 2 ELSE 1, b), LAMBDA data, rest :
    ParseTillEmpty(ReadAttributeTlv, data))
=============================================================================
