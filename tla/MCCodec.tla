------------------------------ MODULE MCCodec ------------------------------
(* Codec with frames that break one rule of the format each. *)
EXTENDS Codec

Frame(type, body) == Ones(16) \o U16(19 + Len(body)) \o U8(type) \o body

\* The event the frame should become, and the notification of its error.
Breaks(octets, event, error, sub, shown) ==
  [octets |-> octets, event |-> <<[event |-> event, sub |-> sub, octets |-> shown]>>,
   answer |-> <<[error |-> error, sub |-> sub, octets |-> shown]>>]

BreaksHeader(octets, sub, shown) == Breaks(octets, "BGPHeaderErr", "MessageHeaderError", sub, shown)
BreaksOpen(body, sub, shown) ==
  Breaks(Frame(1, body), "BGPOpenMsgErr", "OpenMessageError", sub, shown)
BreaksUpdate(body, sub) == Breaks(Frame(2, body), "UpdateMsgErr", "UpdateMessageError", sub, <<>>)
AttributeBody(octets) == U16(0) \o U16(Len(octets)) \o octets
BreaksAttribute(octets, sub) == BreaksUpdate(AttributeBody(octets), sub)

\* A NOTIFICATION that cannot be read is logged and not answered (events.rs:302).
BreaksNotification(body, error) ==
  [octets |-> Frame(3, body), event |-> <<[event |-> "NotifMsgErr", error |-> error]>>,
   answer |-> <<>>]

\* A length inside the body announces more than there is: refused, under whatever name.
Truncated(type, body) == [octets |-> Frame(type, body), event |-> <<>>, answer |-> <<>>]

\* The multicast prefix is an error since the daemon's context is the strict one
\* (deserializer/mod.rs:217); update.rs:404 asks for Unspecific in that case.
MCMalformed ==
  { BreaksHeader(Ones(15) \o <<254, 0, 19, 4>>, "ConnectionNotSynchronized", Ones(15) \o <<254>>),
    BreaksHeader(Ones(16) \o <<0, 18, 4>>, "BadMessageLength", <<0, 18>>),
    BreaksHeader(Frame(9, <<>>), "BadMessageType", <<9>>),
    BreaksHeader(Frame(1, Zeros(4078)), "BadMessageLength", <<16, 1>>),
    BreaksHeader(Frame(4, <<7>>), "Unspecific", <<>>),
    BreaksOpen(<<3, 0, 1, 0, 180, 1, 2, 3, 4, 0>>, "UnsupportedVersionNumber", <<0, 4>>),
    BreaksOpen(<<4, 0, 1, 0, 2, 1, 2, 3, 4, 0>>, "UnacceptableHoldTime", <<0, 2>>),
    BreaksOpen(<<4, 0, 1, 0, 180, 224, 0, 0, 1, 0>>, "BadBgpIdentifier", <<224, 0, 0, 1>>),
    BreaksOpen(<<4, 0, 1, 0, 180, 1, 2, 3, 4, 2, 255, 0>>, "UnsupportedOptionalParameter", <<255>>),
    BreaksOpen(<<4, 0, 1, 0, 180, 1, 2, 3, 4, 4, 2, 2, 65, 9>>, "Unspecific", <<>>),
    BreaksUpdate(<<0, 0, 0, 0, 0, 0, 0, 1, 33, 10, 0, 0, 0>>, "InvalidNetworkField"),
    BreaksUpdate(<<0, 0, 0, 0, 0, 0, 0, 1, 24, 10, 0>>, "MalformedAttributeList"),
    BreaksUpdate(<<0, 0, 0, 0, 0, 0, 0, 1, 8, 224>>, "Unspecific"),
    BreaksAttribute(<<64, 1, 1, 9>>, "InvalidOriginAttribute"),
    BreaksAttribute(<<192, 1, 1, 0>>, "AttributeFlagsError"),
    BreaksAttribute(<<64, 2, 2, 9, 0>>, "MalformedAsPath"),
    BreaksAttribute(<<64, 3, 3, 10, 0, 0>>, "InvalidNextHopAttribute"),
    BreaksAttribute(<<128, 4, 3, 0, 0, 0>>, "OptionalAttributeError"),
    BreaksAttribute(<<64>>, "MalformedAttributeList"),
    BreaksNotification(<<9, 0>>, "Undefined"),
    Breaks(Frame(5, <<0, 1, 0, 9>>), "RouteRefreshErr", "RouteRefreshMessageError",
           "InvalidMessageLength", <<>>),
    Truncated(1, <<4, 0, 1, 0, 180, 1, 2, 3, 4, 9>>),
    Truncated(2, <<0, 9, 0, 0>>),
    Truncated(2, <<0, 0, 0, 9>>),
    Truncated(2, AttributeBody(<<64, 2, 9, 2, 1>>)) }
=============================================================================
