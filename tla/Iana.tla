-------------------------------- MODULE Iana --------------------------------
(***************************************************************************)
(* The registries of the BGP codec, one per enum of the source: a record   *)
(* that gives every name its code point.  From<T> reads a table forwards   *)
(* (Table.Name), TryFrom<u8 or u16> backwards, where a code point without  *)
(* a name is Undefined.                                                    *)
(***************************************************************************)
EXTENDS Naturals, Sequences

Undefined == <<"Undefined">>

\* TryFrom: <<name>>, or Undefined.
TryFrom(table, code) ==
  IF \E name \in DOMAIN table : table[name] = code
  THEN <<CHOOSE name \in DOMAIN table : table[name] = code>>
  ELSE Undefined

BgpMessageType ==
  [Open |-> 1, Update |-> 2, Notification |-> 3, KeepAlive |-> 4, RouteRefresh
   |-> 5]

PathAttributeType ==
  [Origin |-> 1, AsPath |-> 2, NextHop |-> 3, MultiExitDiscriminator |-> 4,
   LocalPreference |-> 5, AtomicAggregate |-> 6, Aggregator |-> 7, Communities
   |-> 8, OriginatorId |-> 9, ClusterList |-> 10, MpReachNlri |-> 14,
   MpUnreachNlri |-> 15, ExtendedCommunities |-> 16, As4Path |-> 17,
   As4Aggregator |-> 18, PmsiTunnel |-> 22, TunnelEncapsulation |-> 23,
   TrafficEngineering |-> 24, ExtendedCommunitiesIpv6 |-> 25, AccumulatedIgp
   |-> 26, PeDistinguisherLabels |-> 27, BgpLsAttribute |-> 29,
   LargeCommunities |-> 32, BgpPSecPath |-> 33, OnlyToCustomer |-> 35,
   BgpDomainPath |-> 36, SfpAttribute |-> 37, BfdDiscriminator |-> 38,
   BgpPrefixSid |-> 40, AttributesSet |-> 128, Development |-> 255]

BgpErrorNotificationCode ==
  [MessageHeaderError |-> 1, OpenMessageError |-> 2, UpdateMessageError |-> 3,
   HoldTimerExpired |-> 4, FiniteStateMachineError |-> 5, Cease |-> 6,
   RouteRefreshMessageError |-> 7]

MessageHeaderErrorSubCode ==
  [Unspecific |-> 0, ConnectionNotSynchronized |-> 1, BadMessageLength |-> 2,
   BadMessageType |-> 3]

OpenMessageErrorSubCode ==
  [Unspecific |-> 0, UnsupportedVersionNumber |-> 1, BadPeerAs |-> 2,
   BadBgpIdentifier |-> 3, UnsupportedOptionalParameter |-> 4,
   UnacceptableHoldTime |-> 6, UnsupportedCapability |-> 7, RoleMismatch |->
   11]

UpdateMessageErrorSubCode ==
  [Unspecific |-> 0, MalformedAttributeList |-> 1,
   UnrecognizedWellKnownAttribute |-> 2, MissingWellKnownAttribute |-> 3,
   AttributeFlagsError |-> 4, AttributeLengthError |-> 5,
   InvalidOriginAttribute |-> 6, InvalidNextHopAttribute |-> 8,
   OptionalAttributeError |-> 9, InvalidNetworkField |-> 10, MalformedAsPath
   |-> 11]

FiniteStateMachineErrorSubCode ==
  [UnspecifiedError |-> 0, ReceiveUnexpectedMessageInOpenSentState |-> 1,
   ReceiveUnexpectedMessageInOpenConfirmState |-> 2,
   ReceiveUnexpectedMessageInEstablishedState |-> 3]

CeaseErrorSubCode ==
  [MaximumNumberOfPrefixesReached |-> 1, AdministrativeShutdown |-> 2,
   PeerDeConfigured |-> 3, AdministrativeReset |-> 4, ConnectionRejected |->
   5, OtherConfigurationChange |-> 6, ConnectionCollisionResolution |-> 7,
   OutOfResources |-> 8, HardReset |-> 9, BfdDown |-> 10]

RouteRefreshMessageErrorSubCode ==
  [InvalidMessageLength |-> 1]

BgpOpenMessageParameterType ==
  [Capability |-> 2, ExtendedLength |-> 255]

BgpCapabilityCode ==
  [MultiProtocolExtensions |-> 1, RouteRefreshCapability |-> 2,
   OutboundRouteFilteringCapability |-> 3, ExtendedNextHopEncoding |-> 5,
   BgpExtendedMessage |-> 6, BgpSecCapability |-> 7, MultipleLabelsCapability
   |-> 8, BgpRole |-> 9, GracefulRestartCapability |-> 64, FourOctetAs |-> 65,
   SupportForDynamicCapability |-> 67, MultiSessionBgpCapability |-> 68,
   AddPathCapability |-> 69, EnhancedRouteRefresh |-> 70,
   LongLivedGracefulRestartLLGRCapability |-> 71, RoutingPolicyDistribution
   |-> 72, FQDN |-> 73, CiscoRouteRefresh |-> 128]

ExperimentalCapabilities == 239 .. 254

RouteRefreshSubcode ==
  [NormalRequest |-> 0, BeginningOfRouteRefresh |-> 1, EndOfRouteRefresh |->
   2]

RouteDistinguisherTypeCode ==
  [As2Administrator |-> 0, Ipv4Administrator |-> 1, As4Administrator |-> 2,
   LeafAdRoutes |-> 65535]

BgpExtendedCommunityType ==
  [TransitiveTwoOctet |-> 0, NonTransitiveTwoOctet |-> 64, TransitiveIpv4 |->
   1, NonTransitiveIpv4 |-> 65, TransitiveFourOctet |-> 2,
   NonTransitiveFourOctet |-> 66, TransitiveOpaque |-> 3, NonTransitiveOpaque
   |-> 67, TransitiveQosMarking |-> 4, NonTransitiveQosMarking |-> 68,
   CosCapability |-> 5, Evpn |-> 6, FlowSpecNextHop |-> 8,
   FlowSpecIndirectionId |-> 9, TransitiveTransportClass |-> 10,
   NonTransitiveTransportClass |-> 74, ServiceFunctionChain |-> 11,
   Srv6MobileUserPlane |-> 12, GenericPart1 |-> 128, GenericPart2 |-> 129,
   GenericPart3 |-> 130]

ExperimentalCommunities == (131 .. 143) \cup (192 .. 207)

BgpExtendedCommunityIpv6Type ==
  [TransitiveIpv6 |-> 0, NonTransitiveIpv6 |-> 64]

TransitiveTwoOctetExtendedCommunitySubType ==
  [RouteTarget |-> 2, RouteOrigin |-> 3, OspfDomainIdentifier |-> 5,
   BgpDataCollection |-> 8, SourceAs |-> 9, L2VpnIdentifier |-> 10,
   CiscoVpnDistinguisher |-> 16, RouteTargetRecord |-> 19, RtDerivedEc |-> 21,
   VirtualNetworkIdentifier |-> 128]

NonTransitiveTwoOctetExtendedCommunitySubType ==
  [LinkBandwidth |-> 4, VirtualNetworkIdentifier |-> 128]

TransitiveFourOctetExtendedCommunitySubType ==
  [RouteTarget |-> 2, RouteOrigin |-> 3, OspfDomainIdentifier |-> 5,
   BgpDataCollection |-> 8, SourceAs |-> 9, CiscoVpnDistinguisher |-> 16,
   RouteTargetRecord |-> 19, RtDerivedEc |-> 21]

TransitiveIpv4ExtendedCommunitySubType ==
  [RouteTarget |-> 2, RouteOrigin |-> 3, Ipv4Ifit |-> 4, OspfDomainIdentifier
   |-> 5, OspfRouteID |-> 8, NodeTarget |-> 9, L2VpnIdentifier |-> 10,
   VrfRouteImport |-> 11, FlowSpecRedirectToIpv4 |-> 12, CiscoVpnDistinguisher
   |-> 16, InterAreaP2MpSegmentedNextHop |-> 18, RouteTargetRecord |-> 19,
   VrfRecursiveNextHop |-> 20, RtDerivedEc |-> 21, MulticastVpnRpAddress |->
   128]

TransitiveIpv6ExtendedCommunitySubType ==
  [RouteTarget |-> 2, RouteOrigin |-> 3, Ipv6Ifit |-> 5, VrfRouteImport |->
   11, FlowSpecRedirectToIpv6 |-> 12, FlowSpecRtRedirectToIpv6 |-> 13,
   CiscoVpnDistinguisher |-> 16, InterAreaP2MpSegmentedNextHop |-> 18,
   RtDerivedEc |-> 21]

L2EvpnRouteTypeCode ==
  [EthernetAutoDiscovery |-> 1, MacIpAdvertisement |-> 2,
   InclusiveMulticastEthernetTagRoute |-> 3, EthernetSegmentRoute |-> 4,
   IpPrefix |-> 5, SelectiveMulticastEthernetTagRoute |-> 6,
   MulticastMembershipReportSynchRoute |-> 7, MulticastLeaveSynchRoute |-> 8]

EvpnExtendedCommunitySubType ==
  [MacMobility |-> 0, EsiLabel |-> 1, EsImportRouteTarget |-> 2,
   EvpnRoutersMac |-> 3, EvpnL2Attribute |-> 4, ETree |-> 5, DfSelection |->
   6, ArpNd |-> 8, MulticastFlags |-> 9, EviRtType0 |-> 10, EviRtType1 |-> 11,
   EviRtType2 |-> 12, EviRtType3 |-> 13]

TransitiveOpaqueExtendedCommunitySubType ==
  [DefaultGateway |-> 13]

BgpRoleValue ==
  [Provider |-> 0, Customer |-> 1, RS |-> 2, RsClient |-> 3, Peer |-> 4]

AigpAttributeType ==
  [AccumulatedIgpMetric |-> 1]

BgpLsNlriType ==
  [Node |-> 1, Link |-> 2, Ipv4TopologyPrefix |-> 3, Ipv6TopologyPrefix |-> 4,
   TePolicy |-> 5, Srv6Sid |-> 6]

BgpLsProtocolId ==
  [IsIsLevel1 |-> 1, IsIsLevel2 |-> 2, OspfV2 |-> 3, Direct |-> 4,
   StaticConfiguration |-> 5, OspfV3 |-> 6, Bgp |-> 7, RsvpTe |-> 8,
   SegmentRouting |-> 9]

BgpLsNodeDescriptorType ==
  [LocalNodeDescriptor |-> 256, RemoteNodeDescriptor |-> 257]

BgpLsNodeDescriptorSubType ==
  [AutonomousSystem |-> 512, BgpLsIdentifier |-> 513, OspfAreaId |-> 514,
   IgpRouterId |-> 515, BgpRouterIdentifier |-> 516, MemberAsNumber |-> 517]

BgpLsPrefixDescriptorType ==
  [MultiTopologyIdentifier |-> 263, OspfRouteType |-> 264,
   IpReachabilityInformation |-> 265]

BgpLsLinkDescriptorType ==
  [LinkLocalRemoteIdentifiers |-> 258, IPv4InterfaceAddress |-> 259,
   IPv4NeighborAddress |-> 260, IPv6InterfaceAddress |-> 261,
   IPv6NeighborAddress |-> 262, MultiTopologyIdentifier |-> 263]

BgpLsAttributeType ==
  [MultiTopologyIdentifier |-> 263, NodeFlagBits |-> 1024, OpaqueNodeAttribute
   |-> 1025, NodeNameTlv |-> 1026, IsIsArea |-> 1027, LocalNodeIpv4RouterId
   |-> 1028, LocalNodeIpv6RouterId |-> 1029, RemoteNodeIpv4RouterId |-> 1030,
   RemoteNodeIpv6RouterId |-> 1031, RemoteNodeAdministrativeGroupColor |->
   1088, MaximumLinkBandwidth |-> 1089, MaximumReservableLinkBandwidth |->
   1090, UnreservedBandwidth |-> 1091, TeDefaultMetric |-> 1092,
   LinkProtectionType |-> 1093, MplsProtocolMask |-> 1094, IgpMetric |-> 1095,
   SharedRiskLinkGroup |-> 1096, OpaqueLinkAttribute |-> 1097, LinkName |->
   1098, IgpFlags |-> 1152, IgpRouteTag |-> 1153, IgpExtendedRouteTag |->
   1154, PrefixMetric |-> 1155, OspfForwardingAddress |-> 1156,
   OpaquePrefixAttribute |-> 1157, PeerNodeSid |-> 1101, PeerAdjSid |-> 1102,
   PeerSetSid |-> 1103]

BgpLsSidAttributeFlags ==
  [ValueFlag |-> 128, LocalFlag |-> 64, BackupFlag |-> 32, PersistentFlag |->
   16]

BgpLsNodeFlagsBits ==
  [Overload |-> 128, Attached |-> 64, External |-> 32, Abr |-> 16, Router |->
   8, V6 |-> 4]

BgpSidAttributeType ==
  [LabelIndex |-> 1, Originator |-> 3, SRv6ServiceL3 |-> 5, SRv6ServiceL2 |->
   6]

BgpSrv6ServiceSubTlvType ==
  [SRv6SIDInformation |-> 1]

BgpSrv6ServiceSubSubTlvType ==
  [SRv6SIDStructure |-> 1]
=============================================================================
