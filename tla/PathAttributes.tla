--------------------------- MODULE PathAttributes ---------------------------
(***************************************************************************)
(* Path attributes: flags, a type, a length of one octet or two, a value.  *)
(*                                                                         *)
(* An attribute is [optional, transitive, partial, extended, kind, value]; *)
(* kind names its PathAttributeType, or is UnknownAttribute.  Every reader *)
(* starts at the length, every writer writes it; asn4 is what the context  *)
(* says about the width of an AS number.                                   *)
(***************************************************************************)
EXTENDS Communities, LinkState, PrefixSid, MpRoutes

Width(asn4) == IF asn4 THEN 4 ELSE 2

\* check_length: an attribute that must have n octets and has them.
ReadFixed(n, extended, b) ==
  Bind(Take(LengthWidth(extended), b), LAMBDA len, rest :
    IF Num(len) # n THEN Err("InvalidLength") ELSE Take(n, rest))

\* length_data: the attribute's octets apart from what follows it.
ReadSized(extended, b, Read(_)) ==
  Bind(LengthData(LengthWidth(extended), b), LAMBDA data, rest :
    Bind(Read(data), LAMBDA v, left : Ok(v, rest)))
ReadList(extended, b, Read(_)) ==
  ReadSized(extended, b, LAMBDA data : ParseTillEmpty(Read, data))

WriteWord(extended, v) == Sized(extended, W(Len(v), v))
WriteList(extended, Write(_), vs) == Sized(extended, WriteEach(Write, vs))

-----------------------------------------------------------------------------
(* Words *)

Origin == [IGP |-> 0, EGP |-> 1, Incomplete |-> 2]
ReadOrigin(extended, b) ==
  Bind(ReadFixed(1, extended, b), LAMBDA s, rest :
    LET name == TryFrom(Origin, s[1])
    IN IF name = Undefined THEN Err("UndefinedOrigin") ELSE Ok(name[1], rest))
WriteOrigin(extended, v) == WriteWord(extended, U8(Origin[v]))

NextHop == Words(4)
ReadNextHop(extended, b) == ReadFixed(4, extended, b)
WriteNextHop(extended, v) == WriteWord(extended, v)

MultiExitDiscriminator == Words(4)
ReadMultiExitDiscriminator(extended, b) == ReadFixed(4, extended, b)
WriteMultiExitDiscriminator(extended, v) == WriteWord(extended, v)

LocalPreference == Words(4)
ReadLocalPreference(extended, b) == ReadFixed(4, extended, b)
WriteLocalPreference(extended, v) == WriteWord(extended, v)

AtomicAggregate == {<<>>}
ReadAtomicAggregate(extended, b) == ReadFixed(0, extended, b)
WriteAtomicAggregate(extended, v) == WriteWord(extended, v)

Originator == Words(4)
ReadOriginator(extended, b) == ReadSized(extended, b, LAMBDA data : Take(4, data))
WriteOriginator(extended, v) == WriteWord(extended, v)

OnlyToCustomer == Words(4)
ReadOnlyToCustomer(extended, b) == ReadSized(extended, b, LAMBDA data : Take(4, data))
WriteOnlyToCustomer(extended, v) == WriteWord(extended, v)

\* A TLV whose length counts its own header.
Aigp == Words(8)
ReadAigp(extended, b) ==
  ReadSized(extended, b, LAMBDA data :
    Bind(ReadFields(<<<<"type", 1>>, <<"length", 2>>>>, data), LAMBDA v, rest :
      CASE TryFrom(AigpAttributeType, v.type[1]) = Undefined -> Err("UndefinedAigpAttributeType")
        [] Num(v.length) # 11 -> Err("InvalidLength")
        [] OTHER -> Take(8, rest)))
WriteAigp(extended, v) ==
  WriteWord(extended, U8(AigpAttributeType.AccumulatedIgpMetric) \o U16(11) \o v)

\* Two forms, told apart by nothing on the wire: the context decides.
Aggregator(asn4) == [origin : Words(Width(asn4)), aggregator : {Ramp(4)}]
ReadAggregator(asn4, extended, b) ==
  Bind(ReadFixed(Width(asn4) + 4, extended, b), LAMBDA s, rest :
    ReadFields(<<<<"origin", Width(asn4)>>, <<"aggregator", 4>>>>, s \o rest))
WriteAggregator(extended, v) == WriteWord(extended, Fields(v, <<"origin", "aggregator">>))

-----------------------------------------------------------------------------
(* Lists *)

AsPathSegmentType == [AsSet |-> 1, AsSequence |-> 2]
AsPathSegment(width) ==
  [segment_type : DOMAIN AsPathSegmentType, as_numbers : {<<Ramp(width)>>, <<Ones(width), Ramp(width)>>}]
ReadAsPathSegment(width, b) ==
  Bind(ReadFields(<<<<"type", 1>>, <<"count", 1>>>>, b), LAMBDA v, rest :
    LET name == TryFrom(AsPathSegmentType, v.type[1])
        count == v.count[1]
    IN CASE name = Undefined -> Err("UndefinedAsPathSegmentType")
         [] name # Undefined /\ count = 0 -> Err("ZeroSegmentLength")
         [] OTHER ->
              Bind(Take(count * width, rest), LAMBDA s, tail :
              Bind(ParseTillEmpty(LAMBDA r : Take(width, r), s), LAMBDA numbers, none :
                Ok([segment_type |-> name[1], as_numbers |-> numbers], tail))))
WriteAsPathSegment(width, v) ==
  Behind(2, U8(AsPathSegmentType[v.segment_type]) \o U8(Len(v.as_numbers)),
         WriteEach(LAMBDA n : W(width, n), v.as_numbers))
ReadAs2PathSegment(b) == ReadAsPathSegment(2, b)
ReadAs4PathSegment(b) == ReadAsPathSegment(4, b)
WriteAs2PathSegment(v) == WriteAsPathSegment(2, v)
WriteAs4PathSegment(v) == WriteAsPathSegment(4, v)

\* As2PathSegments or As4PathSegments.
AsPath(as4) == [as4 : {as4}, segments : Lists(AsPathSegment(Width(as4)))]
ReadAsPath(asn4, extended, b) ==
  Bind(IF asn4 THEN ReadList(extended, b, ReadAs4PathSegment)
       ELSE ReadList(extended, b, ReadAs2PathSegment),
       LAMBDA v, rest : Ok([as4 |-> asn4, segments |-> v], rest))
WriteAsPath(extended, v) ==
  IF v.as4 THEN WriteList(extended, WriteAs4PathSegment, v.segments)
  ELSE WriteList(extended, WriteAs2PathSegment, v.segments)

As4Path == Lists(AsPathSegment(4))
ReadAs4Path(extended, b) == ReadList(extended, b, ReadAs4PathSegment)
WriteAs4Path(extended, v) == WriteList(extended, WriteAs4PathSegment, v)

\* Sixty-four communities are one octet more than a short length can count.
ManyCommunities == [i \in 1 .. 64 |-> <<i, 0, 0, 1>>]
CommunityList == Lists(Community) \cup {ManyCommunities}
ReadCommunities(extended, b) == ReadList(extended, b, ReadCommunity)
WriteCommunities(extended, v) == WriteList(extended, WriteCommunity, v)

ExtendedCommunities == Lists(ExtendedCommunity)
ReadExtendedCommunities(extended, b) == ReadList(extended, b, ReadExtendedCommunity)
WriteExtendedCommunities(extended, v) == WriteList(extended, WriteExtendedCommunity, v)

ExtendedCommunitiesIpv6 == Lists(ExtendedCommunityIpv6)
ReadExtendedCommunitiesIpv6(extended, b) == ReadList(extended, b, ReadExtendedCommunityIpv6)
WriteExtendedCommunitiesIpv6(extended, v) == WriteList(extended, WriteExtendedCommunityIpv6, v)

LargeCommunities == Lists(LargeCommunity)
ReadLargeCommunities(extended, b) == ReadList(extended, b, ReadLargeCommunity)
WriteLargeCommunities(extended, v) == WriteList(extended, WriteLargeCommunity, v)

ClusterId == Words(4)
ReadClusterId(b) == Take(4, b)
WriteClusterId(v) == W(4, v)
ClusterList == Lists(ClusterId) \cup {<<Ramp(4), Ones(4)>>}
ReadClusterList(extended, b) == ReadList(extended, b, ReadClusterId)
WriteClusterList(extended, v) == WriteList(extended, WriteClusterId, v)

WriteBgpLsAttribute(extended, v) == WriteList(extended, WriteAttributeTlv, v)
WritePrefixSegmentIdentifier(extended, v) == WriteList(extended, WriteSid, v)

-----------------------------------------------------------------------------
(* Types the codec does not read *)

\* The type is part of the value: it is read and written with it.
UnknownAttribute == [code : {PathAttributeType.As4Aggregator, 99}, octets : {<<>>, Ramp(3)}]
ReadUnknownAttribute(extended, b) ==
  Bind(Take(1, b), LAMBDA code, rest :
    Bind(LengthTake(LengthWidth(extended), rest), LAMBDA s, tail :
      Ok([code |-> code[1], octets |-> s], tail)))
WriteUnknownAttribute(extended, v) ==
  LET l == Len(v.octets) + LengthWidth(extended) - 1
  IN W(1 + LengthWidth(extended) + Len(v.octets),
       U8(v.code) \o (IF extended \/ l > 255 THEN U16(l - 1) ELSE U8(l)) \o v.octets)

-----------------------------------------------------------------------------
(* Attributes *)

\* can_be_optional, can_be_transitive and can_be_partial.
WellKnown == {"Origin", "AsPath", "NextHop", "LocalPreference", "AtomicAggregate"}
NonTransitive ==
  {"MultiExitDiscriminator", "OriginatorId", "ClusterList", "MpReachNlri", "MpUnreachNlri",
   "AccumulatedIgp", "BgpLsAttribute"}
Admits(kind, optional, transitive, partial) ==
  \/ kind = "UnknownAttribute"
  \/ /\ optional = (kind \notin WellKnown)
     /\ transitive = (kind \notin NonTransitive)
     /\ partial => kind \notin WellKnown \cup NonTransitive \cup {"OnlyToCustomer"}

ReadAttributeValue(kind, asn4, extended, b) ==
  CASE kind = "Origin" -> ReadOrigin(extended, b)
    [] kind = "AsPath" -> ReadAsPath(asn4, extended, b)
    [] kind = "As4Path" -> ReadAs4Path(extended, b)
    [] kind = "NextHop" -> ReadNextHop(extended, b)
    [] kind = "MultiExitDiscriminator" -> ReadMultiExitDiscriminator(extended, b)
    [] kind = "LocalPreference" -> ReadLocalPreference(extended, b)
    [] kind = "AtomicAggregate" -> ReadAtomicAggregate(extended, b)
    [] kind = "Aggregator" -> ReadAggregator(asn4, extended, b)
    [] kind = "Communities" -> ReadCommunities(extended, b)
    [] kind = "ExtendedCommunities" -> ReadExtendedCommunities(extended, b)
    [] kind = "ExtendedCommunitiesIpv6" -> ReadExtendedCommunitiesIpv6(extended, b)
    [] kind = "LargeCommunities" -> ReadLargeCommunities(extended, b)
    [] kind = "OriginatorId" -> ReadOriginator(extended, b)
    [] kind = "ClusterList" -> ReadClusterList(extended, b)
    [] kind = "MpReachNlri" -> ReadMpReach(extended, b)
    [] kind = "MpUnreachNlri" -> ReadMpUnreach(extended, b)
    [] kind = "OnlyToCustomer" -> ReadOnlyToCustomer(extended, b)
    [] kind = "AccumulatedIgp" -> ReadAigp(extended, b)
    [] kind = "BgpLsAttribute" -> ReadBgpLsAttribute(extended, b)
    [] kind = "BgpPrefixSid" -> ReadPrefixSegmentIdentifier(extended, b)

WriteAttributeValue(kind, extended, v) ==
  CASE kind = "Origin" -> WriteOrigin(extended, v)
    [] kind = "AsPath" -> WriteAsPath(extended, v)
    [] kind = "As4Path" -> WriteAs4Path(extended, v)
    [] kind = "NextHop" -> WriteNextHop(extended, v)
    [] kind = "MultiExitDiscriminator" -> WriteMultiExitDiscriminator(extended, v)
    [] kind = "LocalPreference" -> WriteLocalPreference(extended, v)
    [] kind = "AtomicAggregate" -> WriteAtomicAggregate(extended, v)
    [] kind = "Aggregator" -> WriteAggregator(extended, v)
    [] kind = "Communities" -> WriteCommunities(extended, v)
    [] kind = "ExtendedCommunities" -> WriteExtendedCommunities(extended, v)
    [] kind = "ExtendedCommunitiesIpv6" -> WriteExtendedCommunitiesIpv6(extended, v)
    [] kind = "LargeCommunities" -> WriteLargeCommunities(extended, v)
    [] kind = "OriginatorId" -> WriteOriginator(extended, v)
    [] kind = "ClusterList" -> WriteClusterList(extended, v)
    [] kind = "MpReachNlri" -> WriteMpReach(extended, v)
    [] kind = "MpUnreachNlri" -> WriteMpUnreach(extended, v)
    [] kind = "OnlyToCustomer" -> WriteOnlyToCustomer(extended, v)
    [] kind = "AccumulatedIgp" -> WriteAigp(extended, v)
    [] kind = "BgpLsAttribute" -> WriteBgpLsAttribute(extended, v)
    [] kind = "BgpPrefixSid" -> WritePrefixSegmentIdentifier(extended, v)

\* The values of a kind; family matters to the routes, asn4 to AS numbers.
PathAttributeValue(kind, family, asn4) ==
  CASE kind = "Origin" -> DOMAIN Origin
    [] kind = "AsPath" -> AsPath(asn4)
    [] kind = "As4Path" -> As4Path
    [] kind = "NextHop" -> NextHop
    [] kind = "MultiExitDiscriminator" -> MultiExitDiscriminator
    [] kind = "LocalPreference" -> LocalPreference
    [] kind = "AtomicAggregate" -> AtomicAggregate
    [] kind = "Aggregator" -> Aggregator(asn4)
    [] kind = "Communities" -> CommunityList
    [] kind = "ExtendedCommunities" -> ExtendedCommunities
    [] kind = "ExtendedCommunitiesIpv6" -> ExtendedCommunitiesIpv6
    [] kind = "LargeCommunities" -> LargeCommunities
    [] kind = "OriginatorId" -> Originator
    [] kind = "ClusterList" -> ClusterList
    [] kind = "MpReachNlri" -> MpReach(family)
    [] kind = "MpUnreachNlri" -> MpUnreach(family)
    [] kind = "OnlyToCustomer" -> OnlyToCustomer
    [] kind = "AccumulatedIgp" -> Aigp
    [] kind = "BgpLsAttribute" -> BgpLsAttribute
    [] kind = "BgpPrefixSid" -> PrefixSegmentIdentifier
    [] kind = "UnknownAttribute" -> UnknownAttribute

\* The kinds with a reader; every other type is unknown.
ReadKinds ==
  {"Origin", "AsPath", "As4Path", "NextHop", "MultiExitDiscriminator", "LocalPreference",
   "AtomicAggregate", "Aggregator", "Communities", "ExtendedCommunities",
   "ExtendedCommunitiesIpv6", "LargeCommunities", "OriginatorId", "ClusterList", "MpReachNlri",
   "MpUnreachNlri", "OnlyToCustomer", "AccumulatedIgp", "BgpLsAttribute", "BgpPrefixSid"}

FamiliesOf(kind) ==
  IF kind \in {"MpReachNlri", "MpUnreachNlri"} THEN ReadFamilies \cup {"Unknown"} ELSE {"none"}

\* Attributes as their constructor admits them.
PathAttribute(kind, family, asn4) ==
  {a \in [optional : BOOLEAN, transitive : BOOLEAN, partial : BOOLEAN, extended : BOOLEAN,
          kind : {kind}, value : PathAttributeValue(kind, family, asn4)]
     : Admits(kind, a.optional, a.transitive, a.partial)}

\* An error carries the kind of the attribute it was found in.
ReadPathAttribute(asn4, b) ==
  Bind(Within("Nom", Take(2, b)), LAMBDA s, rest :
    LET extended == HasBit(s[1], 16)
        named == TryFrom(PathAttributeType, s[2])[1]
        kind == IF named \in ReadKinds THEN named ELSE "UnknownAttribute"
        flags == [optional |-> HasBit(s[1], 128), transitive |-> HasBit(s[1], 64),
                  partial |-> HasBit(s[1], 32), extended |-> extended]
    IN Bind(Within(kind, IF kind = "UnknownAttribute" THEN ReadUnknownAttribute(extended, Drop(b, 1))
                         ELSE ReadAttributeValue(kind, asn4, extended, rest)),
         LAMBDA v, tail :
           IF Admits(kind, flags.optional, flags.transitive, flags.partial)
           THEN Ok(flags @@ [kind |-> kind, value |-> v], tail)
           ELSE Err("InvalidPathAttribute")))

WritePathAttribute(a) ==
  LET Bit(flag, mask) == IF flag THEN mask ELSE 0
      flags == U8(Bit(a.optional, 128) + Bit(a.transitive, 64) + Bit(a.partial, 32)
                    + Bit(a.extended, 16))
  IN IF a.kind = "UnknownAttribute"
     THEN Behind(1, flags, WriteUnknownAttribute(a.extended, a.value))
     ELSE Behind(2, flags \o U8(PathAttributeType[a.kind]),
                 WriteAttributeValue(a.kind, a.extended, a.value))
=============================================================================
