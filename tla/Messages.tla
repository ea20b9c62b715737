------------------------------ MODULE Messages ------------------------------
(***************************************************************************)
(* The five BGP messages, their common header, and the notification each   *)
(* parsing error is answered with.  A message is [kind, value]; the        *)
(* context is the one the daemon's codec has: no capability of the peer is *)
(* remembered except the width of AS numbers, asn4, and every parsing      *)
(* error is fatal.  A parsing error is [message, error, octets].           *)
(***************************************************************************)
EXTENDS Capabilities, Notifications, PathAttributes

BGP_MIN_MESSAGE_LENGTH == 19
BGP_MAX_MESSAGE_LENGTH == 4096

\* The error of a message: what is wrong, and the octets a notification shows of it.
Fail(error, octets) == Err([error |-> error, octets |-> octets])
Plain(error) == [error |-> error, octets |-> <<>>]
Nom(r) == MapError(LAMBDA part : Plain("Nom"), r)

-----------------------------------------------------------------------------
(* OPEN *)

\* Parameters are lists of capabilities.
BgpOpenMessage(params) ==
  [my_as |-> Ramp(2), hold_time |-> 180, bgp_id |-> Ramp(4), params |-> params]

capabilities(open) == FlattenSeq(open.params)
HasFourOctetAs(open) == \E i \in DOMAIN capabilities(open) : capabilities(open)[i].kind = "FourOctetAs"

ReadCapabilityParameter(b) ==
  Bind(LengthData(1, b), LAMBDA data, rest :
    Bind(ParseTillEmpty(ReadCapability, data), LAMBDA cs, none : Ok(cs, rest)))

ReadParameter(b) ==
  Bind(Nom(Take(1, b)), LAMBDA s, rest :
    IF s[1] # BgpOpenMessageParameterType.Capability
    THEN Fail("UndefinedParameterType", s)
    ELSE Nom(ReadCapabilityParameter(rest)))

\* Mutant: a multicast address is an identifier.
IsInvalidUnlessMulticast(id) == IsBroadcast(id) \/ id = Zeros(4)
IsInvalidBgpId(id) == IsBroadcast(id) \/ IsMulticast(id) \/ id = Zeros(4)

\* The fields are checked in their order, each before the next one is read.
ReadOpen(b) ==
  LET Checked(n, error, Bad(_), Show(_), buf) ==
        Bind(Nom(Take(n, buf)), LAMBDA s, rest : IF Bad(s) THEN Fail(error, Show(s)) ELSE Ok(s, rest))
  IN Bind(Checked(1, "UnsupportedVersionNumber", LAMBDA s : s[1] # 4, LAMBDA s : U16(4), b),
       LAMBDA version, b1 :
     Bind(Nom(Take(2, b1)), LAMBDA my_as, b2 :
     Bind(Checked(2, "UnacceptableHoldTime", LAMBDA s : Num(s) \in {1, 2}, LAMBDA s : s, b2),
       LAMBDA hold_time, b3 :
     Bind(Checked(4, "InvalidBgpId", IsInvalidBgpId, LAMBDA s : s, b3), LAMBDA bgp_id, b4 :
     Bind(Nom(LengthData(1, b4)), LAMBDA data, rest :
     Bind(ParseTillEmpty(ReadParameter, data), LAMBDA params, none :
       Ok([my_as |-> my_as, hold_time |-> Num(hold_time), bgp_id |-> bgp_id, params |-> params],
          rest)))))))

\* w behind octets and the length of w, in one octet; n octets in front of w are counted.
Counted(n, octets, w) == Behind(n, octets \o U8(w.len), w)

WriteParameter(cs) ==
  Counted(2, U8(BgpOpenMessageParameterType.Capability), WriteEach(WriteCapability, cs))
WriteOpen(v) ==
  Counted(10, U8(4) \o v.my_as \o U16(v.hold_time) \o v.bgp_id, WriteEach(WriteParameter, v.params))

OpenErrorSubCode(error) ==
  CASE error = "Nom" -> "Unspecific"
    [] error = "UndefinedParameterType" -> "UnsupportedOptionalParameter"
    [] error = "InvalidBgpId" -> "BadBgpIdentifier"
    [] OTHER -> error

-----------------------------------------------------------------------------
(* UPDATE *)

BgpUpdateMessage(withdrawn, attributes, nlri) ==
  [withdrawn_routes : withdrawn, path_attributes : attributes, nlri : nlri]

\* Every route is read with a path id, whatever was agreed upon.
ReadUpdateNlri(b) == ParseTillEmpty(LAMBDA s : ReadIpv4UnicastAddress(TRUE, s), b)
WriteUpdateNlri(routes) == WriteEach(WriteIpv4UnicastAddress, routes)

ReadUpdate(asn4, b) ==
  Bind(LengthData(2, b), LAMBDA withdrawn_buf, b1 :
    Bind(ReadUpdateNlri(withdrawn_buf), LAMBDA withdrawn, none :
    Bind(LengthData(2, b1), LAMBDA attributes_buf, nlri_buf :
    Bind(ParseTillEmpty(LAMBDA s : ReadPathAttribute(asn4, s), attributes_buf),
         LAMBDA attributes, left :
    Bind(ReadUpdateNlri(nlri_buf), LAMBDA nlri, rest :
      Ok([withdrawn_routes |-> withdrawn, path_attributes |-> attributes, nlri |-> nlri], rest))))))

\* A part of an UPDATE behind its length.
Section(w) == Behind(2, U16(w.len), w)

WriteUpdate(v) ==
  WriteAll(<<Section(WriteUpdateNlri(v.withdrawn_routes)),
             Section(WriteEach(WritePathAttribute, v.path_attributes)), WriteUpdateNlri(v.nlri)>>)

\* The errors of one attribute are told apart by its type only.
UpdateErrorSubCode(error) ==
  CASE error \in {"Eof", "Nom"} -> "MalformedAttributeList"
    [] error = "Origin" -> "InvalidOriginAttribute"
    [] error \in {"AsPath", "As4Path"} -> "MalformedAsPath"
    [] error = "NextHop" -> "InvalidNextHopAttribute"
    [] error = "InvalidPathAttribute" -> "AttributeFlagsError"
    [] error = "InvalidPrefixLen" -> "InvalidNetworkField"
    [] error \in {"UnknownAttribute", "BgpLsAttribute", "InvalidNetwork"} -> "Unspecific"
    [] OTHER -> "OptionalAttributeError"

-----------------------------------------------------------------------------
(* ROUTE-REFRESH *)

BgpRouteRefreshMessage == [address_type : DOMAIN AddressType, operation : DOMAIN RouteRefreshSubcode]

ReadRouteRefresh(b) ==
  ReadTyped(<<<<"afi", 2>>, <<"operation", 1>>, <<"safi", 1>>>>, LAMBDA family, v :
    LET operation == TryFrom(RouteRefreshSubcode, v.operation[1])
    IN IF operation = Undefined THEN Err("UndefinedOperation")
       ELSE Ok([address_type |-> family, operation |-> operation[1]], <<>>), b)

WriteRouteRefresh(v) ==
  W(4, Afi(v.address_type) \o U8(RouteRefreshSubcode[v.operation]) \o Safi(v.address_type))

-----------------------------------------------------------------------------
(* The header *)

\* The errors of the header, and of a message whose octets are not all read.
Header(error, octets) == Err([message |-> "Header", error |-> error, octets |-> octets])
In(kind, r) == MapError(LAMBDA e : [message |-> kind] @@ e, r)

\* parse_bgp_message_length_and_type: the type, the body and what is behind the message.
ReadLengthAndType(b) ==
  LET length == Num(SubSeq(b, 1, 2))
      kind == TryFrom(BgpMessageType, b[3])
  IN CASE length < BGP_MIN_MESSAGE_LENGTH \/ Len(b) - 2 < length - 18 ->
            Header("BadMessageLength", SubSeq(b, 1, 2))
       [] kind = Undefined -> Header("BadMessageType", <<b[3]>>)
       [] kind[1] \in {"Open", "KeepAlive"} /\ length > BGP_MAX_MESSAGE_LENGTH ->
            Header("BadMessageLength", SubSeq(b, 1, 2))
       [] OTHER -> Ok([kind |-> kind[1], body |-> SubSeq(b, 4, length - 16)], Drop(b, length - 16))

ReadBody(kind, asn4, b) ==
  CASE kind = "Open" -> In(kind, ReadOpen(b))
    [] kind = "Update" -> In(kind, MapError(Plain, ReadUpdate(asn4, b)))
    [] kind = "Notification" -> In(kind, MapError(Plain, ReadNotification(b)))
    [] kind = "KeepAlive" -> Ok(<<>>, b)
    [] kind = "RouteRefresh" -> In(kind, Nom(ReadRouteRefresh(b)))

\* b has the 19 octets of a header at least.
ReadMessage(asn4, b) ==
  IF SubSeq(b, 1, 16) # Ones(16) THEN Header("ConnectionNotSynchronized", SubSeq(b, 1, 16))
  ELSE Bind(ReadLengthAndType(Drop(b, 16)), LAMBDA m, rest :
         Bind(ReadBody(m.kind, asn4, m.body), LAMBDA v, left :
           IF left # <<>> THEN Header("Unspecific", <<>>)
           ELSE Ok([kind |-> m.kind, value |-> v], rest)))

WriteBody(m) ==
  CASE m.kind = "Open" -> WriteOpen(m.value)
    [] m.kind = "Update" -> WriteUpdate(m.value)
    [] m.kind = "Notification" -> WriteNotification(m.value)
    [] m.kind = "KeepAlive" -> W(0, <<>>)
    [] m.kind = "RouteRefresh" -> WriteRouteRefresh(m.value)

\* Nothing is written of an OPEN that is too long.
Framed(kind, w) ==
  IF kind \in {"Open", "KeepAlive"} /\ w.len > BGP_MAX_MESSAGE_LENGTH THEN W(w.len, <<>>)
  ELSE W(w.len, Ones(16) \o U16(w.len) \o U8(BgpMessageType[kind]) \o w.octets)
WriteMessage(m) == Framed(m.kind, Behind(19, <<>>, WriteBody(m)))

\* From<BgpMessageParsingError> for BgpNotificationMessage.
NotificationOf(e) ==
  LET Show(error, sub) == [error |-> error, sub |-> sub, octets |-> e.octets]
  IN CASE e.message = "Header" -> Show("MessageHeaderError", e.error)
       [] e.message = "Open" -> Show("OpenMessageError", OpenErrorSubCode(e.error))
       [] e.message = "Update" -> Show("UpdateMessageError", UpdateErrorSubCode(e.error))
       [] e.message = "Notification" -> Show("FiniteStateMachineError", "UnspecifiedError")
       [] e.message = "RouteRefresh" -> Show("RouteRefreshMessageError", "InvalidMessageLength")
=============================================================================
