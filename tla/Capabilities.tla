---------------------------- MODULE Capabilities ----------------------------
(***************************************************************************)
(* The capabilities of an OPEN message: a code, a length of one octet, a   *)
(* value.  A capability is [kind, value]; the kinds without a value have   *)
(* <<>>, Experimental and Unrecognized keep [code, octets].                *)
(***************************************************************************)
EXTENDS Octets, Iana, AddressFamily

\* An address type from the octets of its AFI and SAFI.
NamedFamily(afi, safi) ==
  LET name == FromAfiSafi(Num(afi), Num(safi))
  IN CASE Num(afi) \notin AddressFamily -> Err("AddressFamilyError")
       [] Num(safi) \notin SubsequentAddressFamily -> Err("SubsequentAddressFamilyError")
       [] name = <<>> -> Err("AddressTypeError")
       [] OTHER -> Ok(name[1], <<>>)

\* A record whose afi and safi name the address type; Value makes the rest of it.
ReadTyped(layout, Value(_, _), b) ==
  Bind(ReadFields(layout, b), LAMBDA v, rest :
    Bind(NamedFamily(v.afi, v.safi), LAMBDA family, none :
    Bind(Value(family, v), LAMBDA x, left : Ok(x, rest))))

Afi(family) == U16(AddressType[family][1])
Safi(family) == U8(AddressType[family][2])

\* check_capability_length: the length octet must be n.
ReadExactly(n, b) ==
  Bind(Take(1, b), LAMBDA len, rest : IF len[1] # n THEN Err("InvalidLength") ELSE Ok(len, rest))

\* A list behind a length octet.
ReadCapabilityList(Read(_), b) ==
  Bind(LengthData(1, b), LAMBDA data, rest :
    Bind(ParseTillEmpty(Read, data), LAMBDA vs, none : Ok(vs, rest)))

SampleFamilies == {"Ipv4Unicast", "Ipv6Unicast", "BgpLs"}

-----------------------------------------------------------------------------
FourOctetAsCapability == Words(4)
ReadFourOctetAs(b) == Bind(ReadExactly(4, b), LAMBDA len, rest : Take(4, rest))
WriteFourOctetAs(v) == W(4, v)

MultiProtocolExtensionsCapability == DOMAIN AddressType
ReadMultiProtocolExtensions(b) ==
  Bind(ReadExactly(4, b), LAMBDA len, rest :
    ReadTyped(<<<<"afi", 2>>, <<"reserved", 1>>, <<"safi", 1>>>>, LAMBDA family, v : Ok(family, v),
              rest))
WriteMultiProtocolExtensions(family) == W(4, Afi(family) \o U8(0) \o Safi(family))

GracefulRestartAddressFamily == [address_type : SampleFamilies, forwarding_state : BOOLEAN]
ReadGracefulRestartAddressFamily(b) ==
  ReadTyped(<<<<"afi", 2>>, <<"safi", 1>>, <<"flags", 1>>>>, LAMBDA family, v :
    Ok([address_type |-> family, forwarding_state |-> HasBit(v.flags[1], 128)], v), b)
WriteGracefulRestartAddressFamily(v) ==
  W(4, Afi(v.address_type) \o Safi(v.address_type) \o U8(IF v.forwarding_state THEN 128 ELSE 0))

GracefulRestartCapability ==
  [restart : BOOLEAN, graceful_notification : BOOLEAN, time : {0, 4095},
   address_families : Lists(GracefulRestartAddressFamily)]
ReadGracefulRestart(b) ==
  Bind(LengthData(1, b), LAMBDA data, rest :
    Bind(Take(2, data), LAMBDA header, params :
    Bind(ParseTillEmpty(ReadGracefulRestartAddressFamily, params), LAMBDA families, none :
      Ok([restart |-> HasBit(header[1], 128), graceful_notification |-> HasBit(header[1], 64),
          time |-> Num(header) % 4096, address_families |-> families], rest))))
WriteGracefulRestart(v) ==
  Behind(4, U16((IF v.restart THEN 32768 ELSE 0) + (IF v.graceful_notification THEN 16384 ELSE 0)
                  + v.time),
         WriteEach(WriteGracefulRestartAddressFamily, v.address_families))

\* Whatever the flags say, the family is written as one to receive paths for.
AddPathAddressFamily == [address_type : SampleFamilies, send : BOOLEAN, receive : BOOLEAN]
ReadAddPathAddressFamily(b) ==
  ReadTyped(<<<<"afi", 2>>, <<"safi", 1>>, <<"flags", 1>>>>, LAMBDA family, v :
    IF v.flags[1] > 3 THEN Err("InvalidAddPathSendReceiveValue")
    ELSE Ok([address_type |-> family, send |-> HasBit(v.flags[1], 2),
             receive |-> HasBit(v.flags[1], 1)], v), b)
WriteAddPathAddressFamily(v) == W(4, Afi(v.address_type) \o Safi(v.address_type) \o U8(1))

AddPathCapability == Lists(AddPathAddressFamily)
ReadAddPath(b) == ReadCapabilityList(ReadAddPathAddressFamily, b)
WriteAddPath(v) == WriteEach(WriteAddPathAddressFamily, v)

\* The SAFI has two octets here, of which the reader looks at one.
ExtendedNextHopEncoding == [address_type : SampleFamilies, next_hop_afi : {1, 2}]
ReadNextHopEncoding(b) ==
  ReadTyped(<<<<"afi", 2>>, <<"high", 1>>, <<"safi", 1>>, <<"next_hop", 2>>>>, LAMBDA family, v :
    IF Num(v.next_hop) \notin AddressFamily THEN Err("AddressFamilyError")
    ELSE Ok([address_type |-> family, next_hop_afi |-> Num(v.next_hop)], v), b)
WriteNextHopEncoding(v) ==
  W(6, Afi(v.address_type) \o U8(0) \o Safi(v.address_type) \o U16(v.next_hop_afi))

ExtendedNextHopEncodingCapability == Lists(ExtendedNextHopEncoding)
ReadExtendedNextHopEncoding(b) == ReadCapabilityList(ReadNextHopEncoding, b)
WriteExtendedNextHopEncoding(v) ==
  LET w == WriteEach(WriteNextHopEncoding, v) IN Behind(1, U8(w.len), w)

MultipleLabel == [address_type : SampleFamilies, count : {2}]
ReadMultipleLabel(b) ==
  ReadTyped(<<<<"afi", 2>>, <<"safi", 1>>, <<"count", 1>>>>, LAMBDA family, v :
    Ok([address_type |-> family, count |-> v.count[1]], v), b)
WriteMultipleLabel(v) == W(4, Afi(v.address_type) \o Safi(v.address_type) \o U8(v.count))

BgpRoleCapability == DOMAIN BgpRoleValue
ReadBgpRole(b) ==
  Bind(ReadExactly(1, b), LAMBDA len, rest :
    Bind(Take(1, rest), LAMBDA role, tail :
      LET name == TryFrom(BgpRoleValue, role[1])
      IN IF name = Undefined THEN Err("UndefinedBgpRoleValue") ELSE Ok(name[1], tail)))
WriteBgpRole(v) == W(1, U8(BgpRoleValue[v]))

\* A capability nobody reads: length_count of octets.
ReadExperimentalCapability(code, b) ==
  Bind(LengthTake(1, b), LAMBDA s, rest : Ok([code |-> code, octets |-> s], rest))
ReadUnrecognizedCapability(code, b) ==
  Bind(LengthTake(1, b), LAMBDA s, rest : Ok([code |-> code, octets |-> s], rest))

-----------------------------------------------------------------------------
\* The kinds that are a code and nothing else.
Bare == {"RouteRefreshCapability", "EnhancedRouteRefresh", "CiscoRouteRefresh",
         "BgpExtendedMessage"}
Valued == {"MultiProtocolExtensions", "ExtendedNextHopEncoding", "MultipleLabelsCapability",
           "BgpRole", "GracefulRestartCapability", "FourOctetAs", "AddPathCapability"}
CapabilityKinds == Bare \cup Valued \cup {"Experimental", "Unrecognized"}

CapabilityValue(kind) ==
  CASE kind \in Bare -> {<<>>}
    [] kind = "MultiProtocolExtensions" -> MultiProtocolExtensionsCapability
    [] kind = "ExtendedNextHopEncoding" -> ExtendedNextHopEncodingCapability
    [] kind = "MultipleLabelsCapability" -> Lists(MultipleLabel)
    [] kind = "BgpRole" -> BgpRoleCapability
    [] kind = "GracefulRestartCapability" -> GracefulRestartCapability
    [] kind = "FourOctetAs" -> FourOctetAsCapability
    [] kind = "AddPathCapability" -> AddPathCapability
    [] kind = "Experimental" -> [code : {239, 254}, octets : {<<>>, Ramp(3)}]
    [] kind = "Unrecognized" ->
         [code : {BgpCapabilityCode.FQDN, BgpCapabilityCode.BgpSecCapability, 42},
          octets : {<<>>, Ramp(3)}]
BgpCapability(kind) == [kind : {kind}, value : CapabilityValue(kind)]

\* Multiple labels have no length octet: they go on to the end of the parameter.
ReadCapability(b) ==
  Bind(Take(1, b), LAMBDA s, rest :
    LET code == s[1]
        name == TryFrom(BgpCapabilityCode, code)[1]
        As(kind, r) == Bind(r, LAMBDA v, tail : Ok([kind |-> kind, value |-> v], tail))
    IN CASE code \in ExperimentalCapabilities ->
              As("Experimental", ReadExperimentalCapability(code, rest))
         [] name \in Bare ->
              As(name, Bind(ReadExactly(0, rest), LAMBDA len, tail : Ok(<<>>, tail)))
         [] name = "MultiProtocolExtensions" -> As(name, ReadMultiProtocolExtensions(rest))
         [] name = "ExtendedNextHopEncoding" -> As(name, ReadExtendedNextHopEncoding(rest))
         [] name = "MultipleLabelsCapability" -> As(name, ParseTillEmpty(ReadMultipleLabel, rest))
         [] name = "BgpRole" -> As(name, ReadBgpRole(rest))
         [] name = "GracefulRestartCapability" -> As(name, ReadGracefulRestart(rest))
         [] name = "FourOctetAs" -> As(name, ReadFourOctetAs(rest))
         [] name = "AddPathCapability" -> As(name, ReadAddPath(rest))
         [] OTHER -> As("Unrecognized", ReadUnrecognizedCapability(code, rest)))

\* The length of graceful restart is two short of what len() says; the one of multiple
\* labels is counted, and not written.
WriteCapability(c) ==
  LET v == c.value
      Plain(w) == W(2 + w.len, U8(BgpCapabilityCode[c.kind]) \o U8(w.len) \o w.octets)
  IN CASE c.kind \in Bare -> Plain(W(0, <<>>))
       [] c.kind = "MultiProtocolExtensions" -> Plain(WriteMultiProtocolExtensions(v))
       [] c.kind = "BgpRole" -> Plain(WriteBgpRole(v))
       [] c.kind = "FourOctetAs" -> Plain(WriteFourOctetAs(v))
       [] c.kind = "AddPathCapability" -> Plain(WriteAddPath(v))
       [] c.kind = "GracefulRestartCapability" ->
            LET w == WriteGracefulRestart(v) IN Plain(W(w.len - 2, w.octets))
       [] c.kind = "ExtendedNextHopEncoding" ->
            LET w == WriteExtendedNextHopEncoding(v)
            IN W(2 + w.len - 1, U8(BgpCapabilityCode[c.kind]) \o w.octets)
       [] c.kind = "MultipleLabelsCapability" ->
            Behind(2, U8(BgpCapabilityCode[c.kind]), WriteEach(WriteMultipleLabel, v))
       [] c.kind \in {"Experimental", "Unrecognized"} ->
            W(2 + Len(v.octets), U8(v.code) \o U8(Len(v.octets)) \o v.octets)
=============================================================================
