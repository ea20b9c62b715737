--------------------------- MODULE AddressFamily ---------------------------
(***************************************************************************)
(* IANA address families and subsequent address families, and the pairs    *)
(* of them that the codec gives a name (AddressType).                      *)
(***************************************************************************)
EXTENDS Naturals, Sequences, Functions

\* The codes the enums define.
AddressFamily == (1 .. 31) \cup (16384 .. 16399)
SubsequentAddressFamily ==
  {1, 2, 4, 5, 6, 8, 9, 128, 129, 132, 133, 134, 140} \cup (64 .. 79) \cup (241 .. 254)

\* address_family and subsequent_address_family of an AddressType.
AddressType ==
  [Ipv4Unicast |-> <<1, 1>>, Ipv4Multicast |-> <<1, 2>>, Ipv4NlriMplsLabels |-> <<1, 4>>,
   Ipv4Bgp4over6 |-> <<1, 67>>, Ipv4MplsLabeledVpn |-> <<1, 128>>,
   Ipv4MulticastBgpMplsVpn |-> <<1, 129>>, RouteTargetConstrains |-> <<1, 132>>,
   Ipv4FlowSpec |-> <<1, 133>>, Ipv4FlowSpecL3Vpn |-> <<1, 134>>,
   Ipv6Unicast |-> <<2, 1>>, Ipv6Multicast |-> <<2, 2>>, Ipv6NlriMplsLabels |-> <<2, 4>>,
   Ipv6Bgp6over4 |-> <<2, 68>>, Ipv6MplsLabeledVpn |-> <<2, 128>>,
   Ipv6MulticastBgpMplsVpn |-> <<2, 129>>, Ipv6FlowSpec |-> <<2, 133>>,
   Ipv6FlowSpecL3Vpn |-> <<2, 134>>, L2VpnVpls |-> <<25, 65>>, L2VpnBgpEvpn |-> <<25, 70>>,
   BgpLs |-> <<16388, 71>>, BgpLsVpn |-> <<16388, 72>>]

\* The name of a pair, in a sequence of one; none for a pair without a name.
FromAfiSafi(afi, safi) ==
  IF <<afi, safi>> \in Range(AddressType)
  THEN <<CHOOSE name \in DOMAIN AddressType : AddressType[name] = <<afi, safi>>>>
  ELSE <<>>
=============================================================================
