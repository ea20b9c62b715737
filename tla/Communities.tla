---------------------------- MODULE Communities ----------------------------
(***************************************************************************)
(* The communities a route can carry: plain, large and extended ones.      *)
(*                                                                         *)
(* For every type of the source there is the set of sample values the      *)
(* model uses (the fields of the type over a few words), the reader        *)
(* (from_wire) and the writer (write and len).  An extended community is   *)
(* [kind, value]; its sub-type is <<name>>, or <<"Unassigned", code>>.     *)
(***************************************************************************)
EXTENDS Octets, Iana

-----------------------------------------------------------------------------
(* Sub-types *)

\* TryFrom of a sub-type: a code without a name is kept as it is.
SubTypeOf(table, code) ==
  LET name == TryFrom(table, code)
  IN IF name = Undefined THEN <<"Unassigned", code>> ELSE name

SubTypeCode(table, sub) == IF sub[1] = "Unassigned" THEN sub[2] ELSE table[sub[1]]

\* Every named sub-type, and a code no table names.
SubTypes(table) == {<<name>> : name \in DOMAIN table} \cup {<<"Unassigned", 250>>}

\* The shape of most extended communities: a sub-type octet, then fields.
ReadSubTyped(table, layout, b) ==
  Bind(Take(1, b), LAMBDA s, rest :
    Bind(ReadFields(layout, rest), LAMBDA v, tail :
      Ok([sub |-> SubTypeOf(table, s[1])] @@ v, tail)))

-----------------------------------------------------------------------------
(* Plain and large communities *)

Community == Words(4)
ReadCommunity(b) == Take(4, b)
WriteCommunity(c) == W(4, c)

LargeCommunity ==
  [global_admin : Words(4), local_data1 : Words(4), local_data2 : {Ones(4)}]
ReadLargeCommunity(b) ==
  ReadFields(<<<<"global_admin", 4>>, <<"local_data1", 4>>, <<"local_data2", 4>>>>, b)
WriteLargeCommunity(c) == W(12, Fields(c, <<"global_admin", "local_data1", "local_data2">>))

-----------------------------------------------------------------------------
(* Two octets of AS number *)

TransitiveTwoOctetExtendedCommunity ==
  [sub : SubTypes(TransitiveTwoOctetExtendedCommunitySubType),
   global_admin : Words(2), local_admin : {Ramp(4)}]
ReadTransitiveTwoOctet(b) ==
  ReadSubTyped(TransitiveTwoOctetExtendedCommunitySubType,
               <<<<"global_admin", 2>>, <<"local_admin", 4>>>>, b)
\* A source AS is written under the sub-type of a route target.
WriteTransitiveTwoOctet(c) ==
  LET sub == IF c.sub = <<"SourceAs">> THEN <<"RouteTarget">> ELSE c.sub
  IN W(7, U8(SubTypeCode(TransitiveTwoOctetExtendedCommunitySubType, sub))
          \o Fields(c, <<"global_admin", "local_admin">>))

NonTransitiveTwoOctetExtendedCommunity ==
  [sub : SubTypes(NonTransitiveTwoOctetExtendedCommunitySubType),
   global_admin : Words(2), local_admin : {Ramp(4)}]
ReadNonTransitiveTwoOctet(b) ==
  ReadSubTyped(NonTransitiveTwoOctetExtendedCommunitySubType,
               <<<<"global_admin", 2>>, <<"local_admin", 4>>>>, b)
WriteNonTransitiveTwoOctet(c) ==
  W(7, U8(SubTypeCode(NonTransitiveTwoOctetExtendedCommunitySubType, c.sub))
       \o Fields(c, <<"global_admin", "local_admin">>))

-----------------------------------------------------------------------------
(* IPv4 address *)

TransitiveIpv4ExtendedCommunity ==
  [sub : SubTypes(TransitiveIpv4ExtendedCommunitySubType),
   global_admin : Words(4), local_admin : {Ramp(2)}]
ReadTransitiveIpv4(b) ==
  ReadSubTyped(TransitiveIpv4ExtendedCommunitySubType,
               <<<<"global_admin", 4>>, <<"local_admin", 2>>>>, b)
WriteTransitiveIpv4(c) ==
  W(7, U8(SubTypeCode(TransitiveIpv4ExtendedCommunitySubType, c.sub))
       \o Fields(c, <<"global_admin", "local_admin">>))

NonTransitiveIpv4ExtendedCommunity ==
  [sub : SubTypes(<<>>), global_admin : Words(4), local_admin : {Ramp(2)}]
ReadNonTransitiveIpv4(b) ==
  ReadSubTyped(<<>>, <<<<"global_admin", 4>>, <<"local_admin", 2>>>>, b)
WriteNonTransitiveIpv4(c) ==
  W(7, U8(c.sub[2]) \o Fields(c, <<"global_admin", "local_admin">>))

-----------------------------------------------------------------------------
(* Four octets of AS number *)

TransitiveFourOctetExtendedCommunity ==
  [sub : SubTypes(TransitiveFourOctetExtendedCommunitySubType),
   global_admin : Words(4), local_admin : {Ramp(2)}]
ReadTransitiveFourOctet(b) ==
  ReadSubTyped(TransitiveFourOctetExtendedCommunitySubType,
               <<<<"global_admin", 4>>, <<"local_admin", 2>>>>, b)
\* Here too, a source AS is written as a route target.
WriteTransitiveFourOctet(c) ==
  LET sub == IF c.sub = <<"SourceAs">> THEN <<"RouteTarget">> ELSE c.sub
  IN W(7, U8(SubTypeCode(TransitiveFourOctetExtendedCommunitySubType, sub))
          \o Fields(c, <<"global_admin", "local_admin">>))

NonTransitiveFourOctetExtendedCommunity ==
  [sub : SubTypes(<<>>), global_admin : Words(4), local_admin : {Ramp(2)}]
ReadNonTransitiveFourOctet(b) ==
  ReadSubTyped(<<>>, <<<<"global_admin", 4>>, <<"local_admin", 2>>>>, b)
WriteNonTransitiveFourOctet(c) ==
  W(7, U8(c.sub[2]) \o Fields(c, <<"global_admin", "local_admin">>))

-----------------------------------------------------------------------------
(* Opaque, experimental and unknown values *)

TransitiveOpaqueExtendedCommunity ==
  {[sub |-> <<"DefaultGateway">>]}
    \cup [sub : {<<"Unassigned", 250>>}, value : Words(6)]
\* A default gateway has a value too, which is read and forgotten.
ReadTransitiveOpaque(b) ==
  Bind(ReadSubTyped(TransitiveOpaqueExtendedCommunitySubType, <<<<"value", 6>>>>, b),
    LAMBDA v, rest :
      Ok(IF v.sub = <<"DefaultGateway">> THEN [sub |-> v.sub] ELSE v, rest))
WriteTransitiveOpaque(c) ==
  W(7, U8(SubTypeCode(TransitiveOpaqueExtendedCommunitySubType, c.sub))
       \o IF c.sub = <<"DefaultGateway">> THEN U16(0) \o U16(0) \o U16(0) ELSE c.value)

NonTransitiveOpaqueExtendedCommunity == [sub : SubTypes(<<>>), value : Words(6)]
ReadNonTransitiveOpaque(b) == ReadSubTyped(<<>>, <<<<"value", 6>>>>, b)
WriteNonTransitiveOpaque(c) == W(7, U8(c.sub[2]) \o c.value)

ExperimentalExtendedCommunity ==
  [code : {136, 207},
   sub : SubTypes(<<>>), value : Words(6)]
ReadExperimental(code, b) ==
  Bind(ReadSubTyped(<<>>, <<<<"value", 6>>>>, b), LAMBDA v, rest :
    Ok([code |-> code] @@ v, rest))
WriteExperimental(c) == W(7, U8(c.sub[2]) \o c.value)

UnknownExtendedCommunity ==
  [code : {BgpExtendedCommunityType.CosCapability, 15}, sub : SubTypes(<<>>), value : Words(6)]
ReadUnknown(code, b) ==
  Bind(ReadSubTyped(<<>>, <<<<"value", 6>>>>, b), LAMBDA v, rest :
    Ok([code |-> code] @@ v, rest))
WriteUnknown(c) == W(7, U8(c.sub[2]) \o c.value)

-----------------------------------------------------------------------------
(* EVPN *)

EvpnExtendedCommunity ==
  [sub : {<<"MacMobility">>}, flags : Words(1), seq_no : {Ramp(4)}]
    \cup [sub : {<<"EsiLabel">>}, flags : Words(1), esi_label : {Ramp(3)}]
    \cup [sub : {<<"EsImportRouteTarget">>}, route_target : Words(6)]
    \cup [sub : {<<"EvpnRoutersMac">>}, mac : Words(6)]
    \cup [sub : {<<"EvpnL2Attribute">>}, control_flags : Words(2), l2_mtu : {Ramp(2)}]
    \cup [sub : {<<"Unassigned", 5>>, <<"Unassigned", 250>>}, value : Words(6)]

\* p1[2] stands where p1[3] was meant: the fourth octet is a copy of the third.
EvpnValue(value) == [value EXCEPT ![4] = value[3]]

\* What follows the sub-type; the reserved octets are read and forgotten.
ReadEvpnValue(sub, b) ==
  CASE sub = <<"MacMobility">> ->
         ReadFields(<<<<"flags", 1>>, <<"reserved", 1>>, <<"seq_no", 4>>>>, b)
    [] sub = <<"EsiLabel">> ->
         ReadFields(<<<<"flags", 1>>, <<"reserved", 2>>, <<"esi_label", 3>>>>, b)
    [] sub = <<"EsImportRouteTarget">> ->
         Bind(Take(6, b), LAMBDA s, rest : Ok([route_target |-> EvpnValue(s)], rest))
    [] sub = <<"EvpnRoutersMac">> -> ReadFields(<<<<"mac", 6>>>>, b)
    [] sub = <<"EvpnL2Attribute">> ->
         ReadFields(<<<<"control_flags", 2>>, <<"l2_mtu", 2>>, <<"reserved", 2>>>>, b)
    [] OTHER -> Bind(Take(6, b), LAMBDA s, rest : Ok([value |-> EvpnValue(s)], rest))

\* A sub-type that has a name but no case of its own is unassigned as well.
ReadEvpn(b) ==
  Bind(Take(1, b), LAMBDA s, rest :
    LET name == TryFrom(EvpnExtendedCommunitySubType, s[1])
        sub == IF name \in {<<"MacMobility">>, <<"EsiLabel">>, <<"EsImportRouteTarget">>,
                            <<"EvpnRoutersMac">>, <<"EvpnL2Attribute">>}
               THEN name ELSE <<"Unassigned", s[1]>>
    IN Bind(ReadEvpnValue(sub, rest), LAMBDA v, tail :
         Ok([sub |-> sub] @@ Restrict(v, DOMAIN v \ {"reserved"}), tail)))

WriteEvpn(c) ==
  W(7, U8(SubTypeCode(EvpnExtendedCommunitySubType, c.sub))
       \o CASE c.sub = <<"MacMobility">> -> c.flags \o U8(0) \o c.seq_no
            [] c.sub = <<"EsiLabel">> -> c.flags \o U16(0) \o c.esi_label
            [] c.sub = <<"EsImportRouteTarget">> -> c.route_target
            [] c.sub = <<"EvpnRoutersMac">> -> c.mac
            [] c.sub = <<"EvpnL2Attribute">> -> c.control_flags \o c.l2_mtu \o U16(0)
            [] OTHER -> c.value)

-----------------------------------------------------------------------------
(* Extended communities *)

Kind(kind, values) == [kind : {kind}, value : values]

ExtendedCommunity ==
  Kind("TransitiveTwoOctet", TransitiveTwoOctetExtendedCommunity)
    \cup Kind("NonTransitiveTwoOctet", NonTransitiveTwoOctetExtendedCommunity)
    \cup Kind("TransitiveIpv4", TransitiveIpv4ExtendedCommunity)
    \cup Kind("NonTransitiveIpv4", NonTransitiveIpv4ExtendedCommunity)
    \cup Kind("TransitiveFourOctet", TransitiveFourOctetExtendedCommunity)
    \cup Kind("NonTransitiveFourOctet", NonTransitiveFourOctetExtendedCommunity)
    \cup Kind("TransitiveOpaque", TransitiveOpaqueExtendedCommunity)
    \cup Kind("NonTransitiveOpaque", NonTransitiveOpaqueExtendedCommunity)
    \cup Kind("Evpn", EvpnExtendedCommunity)
    \cup Kind("Experimental", ExperimentalExtendedCommunity)
    \cup Kind("Unknown", UnknownExtendedCommunity)

\* A type with a name but no case (QoS marking, flow specification, ...) is Unknown.
ReadExtendedCommunity(b) ==
  Bind(Take(1, b), LAMBDA s, rest :
    LET name == TryFrom(BgpExtendedCommunityType, s[1])[1]
        As(kind, r) == Bind(r, LAMBDA v, tail : Ok([kind |-> kind, value |-> v], tail))
    IN CASE name = "TransitiveTwoOctet" -> As(name, ReadTransitiveTwoOctet(rest))
         [] name = "NonTransitiveTwoOctet" -> As(name, ReadNonTransitiveTwoOctet(rest))
         [] name = "TransitiveIpv4" -> As(name, ReadTransitiveIpv4(rest))
         [] name = "NonTransitiveIpv4" -> As(name, ReadNonTransitiveIpv4(rest))
         [] name = "TransitiveFourOctet" -> As(name, ReadTransitiveFourOctet(rest))
         [] name = "NonTransitiveFourOctet" -> As(name, ReadNonTransitiveFourOctet(rest))
         [] name = "TransitiveOpaque" -> As(name, ReadTransitiveOpaque(rest))
         [] name = "NonTransitiveOpaque" -> As(name, ReadNonTransitiveOpaque(rest))
         [] name = "Evpn" -> As(name, ReadEvpn(rest))
         [] s[1] \in ExperimentalCommunities -> As("Experimental", ReadExperimental(s[1], rest))
         [] OTHER -> As("Unknown", ReadUnknown(s[1], rest)))

WriteExtendedCommunity(c) ==
  LET v == c.value
      As(w) == Behind(1, U8(IF c.kind \in {"Experimental", "Unknown"} THEN v.code
                            ELSE BgpExtendedCommunityType[c.kind]), w)
  IN As(CASE c.kind = "TransitiveTwoOctet" -> WriteTransitiveTwoOctet(v)
          [] c.kind = "NonTransitiveTwoOctet" -> WriteNonTransitiveTwoOctet(v)
          [] c.kind = "TransitiveIpv4" -> WriteTransitiveIpv4(v)
          [] c.kind = "NonTransitiveIpv4" -> WriteNonTransitiveIpv4(v)
          [] c.kind = "TransitiveFourOctet" -> WriteTransitiveFourOctet(v)
          [] c.kind = "NonTransitiveFourOctet" -> WriteNonTransitiveFourOctet(v)
          [] c.kind = "TransitiveOpaque" -> WriteTransitiveOpaque(v)
          [] c.kind = "NonTransitiveOpaque" -> WriteNonTransitiveOpaque(v)
          [] c.kind = "Evpn" -> WriteEvpn(v)
          [] c.kind = "Experimental" -> WriteExperimental(v)
          [] c.kind = "Unknown" -> WriteUnknown(v))

-----------------------------------------------------------------------------
(* IPv6 address specific extended communities *)

TransitiveIpv6ExtendedCommunity ==
  [sub : SubTypes(TransitiveIpv6ExtendedCommunitySubType),
   global_admin : {Ramp(16)}, local_admin : {Ones(2)}]
ReadTransitiveIpv6(b) ==
  ReadSubTyped(TransitiveIpv6ExtendedCommunitySubType,
               <<<<"global_admin", 16>>, <<"local_admin", 2>>>>, b)
\* The sub-type of VrfRouteImport is taken from the table of IPv4, the same code.
WriteTransitiveIpv6(c) ==
  W(19, U8(IF c.sub = <<"VrfRouteImport">>
           THEN TransitiveIpv4ExtendedCommunitySubType.VrfRouteImport
           ELSE SubTypeCode(TransitiveIpv6ExtendedCommunitySubType, c.sub))
        \o Fields(c, <<"global_admin", "local_admin">>))

NonTransitiveIpv6ExtendedCommunity ==
  [sub : SubTypes(<<>>), global_admin : {Ramp(16)}, local_admin : {Ones(2)}]
ReadNonTransitiveIpv6(b) ==
  ReadSubTyped(<<>>, <<<<"global_admin", 16>>, <<"local_admin", 2>>>>, b)
WriteNonTransitiveIpv6(c) ==
  W(19, U8(c.sub[2]) \o Fields(c, <<"global_admin", "local_admin">>))

UnknownExtendedCommunityIpv6 == [code : {7}, sub : SubTypes(<<>>), value : Words(18)]
ReadUnknownIpv6(code, b) ==
  Bind(ReadSubTyped(<<>>, <<<<"value", 18>>>>, b), LAMBDA v, rest :
    Ok([code |-> code] @@ v, rest))
WriteUnknownIpv6(c) == W(19, U8(c.sub[2]) \o c.value)

ExtendedCommunityIpv6 ==
  Kind("TransitiveIpv6", TransitiveIpv6ExtendedCommunity)
    \cup Kind("NonTransitiveIpv6", NonTransitiveIpv6ExtendedCommunity)
    \cup Kind("Unknown", UnknownExtendedCommunityIpv6)

ReadExtendedCommunityIpv6(b) ==
  Bind(Take(1, b), LAMBDA s, rest :
    LET name == TryFrom(BgpExtendedCommunityIpv6Type, s[1])[1]
        As(kind, r) == Bind(r, LAMBDA v, tail : Ok([kind |-> kind, value |-> v], tail))
    IN CASE name = "TransitiveIpv6" -> As(name, ReadTransitiveIpv6(rest))
         [] name = "NonTransitiveIpv6" -> As(name, ReadNonTransitiveIpv6(rest))
         [] OTHER -> As("Unknown", ReadUnknownIpv6(s[1], rest)))

WriteExtendedCommunityIpv6(c) ==
  CASE c.kind = "TransitiveIpv6" ->
         Behind(1, U8(BgpExtendedCommunityIpv6Type.TransitiveIpv6), WriteTransitiveIpv6(c.value))
    [] c.kind = "NonTransitiveIpv6" ->
         Behind(1, U8(BgpExtendedCommunityIpv6Type.NonTransitiveIpv6),
                WriteNonTransitiveIpv6(c.value))
    [] OTHER -> Behind(1, U8(c.value.code), WriteUnknownIpv6(c.value))
=============================================================================
