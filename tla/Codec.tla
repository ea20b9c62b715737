------------------------------- MODULE Codec -------------------------------
(***************************************************************************)
(* Two BGP speakers with a BgpCodec each, the daemon's (local) and one at  *)
(* the other end (peer), and the byte stream between them.  TCP hands the  *)
(* octets over in order, in pieces of its own choice; decode finds the     *)
(* messages in them again.                                                 *)
(*                                                                         *)
(* A codec remembers one thing of the session: whether the OPEN it has     *)
(* sent and the OPEN it has received offer AS numbers of four octets.      *)
(* Every UPDATE is read with the width both of them offer.                 *)
(*                                                                         *)
(* The peer opens the session, sends one message of the samples and a      *)
(* KEEPALIVE behind it, or a frame that is no message; the local side      *)
(* sends its OPEN.  Both follow the protocol: an UPDATE or a ROUTE-REFRESH *)
(* is sent after both OPENs, with AS numbers as the sender's codec has     *)
(* agreed on.                                                              *)
(***************************************************************************)
EXTENDS Survival

CONSTANTS
  Cuts,       \* where TCP may cut the stream, counted from its first octet
  Malformed   \* frames that are no message: [octets, event, answer], see ErrorsAreNamed

ASSUME CutsAssumption == Cuts \subseteq Nat \ {0}
ASSUME MalformedAssumption == \A f \in Malformed : f.octets \in Seq(Octet)

VARIABLES
  codec,  \* the codecs: what they know of the OPENs, and their read buffer
  wire,   \* the octets on their way to an end
  sent,   \* the messages an end has sent, in order, and what was written of each
  got,    \* the messages its codec has decoded
  refused \* the BgpCodecDecoderError decode has ended with, if it has

vars == <<codec, wire, sent, got, refused>>

End == {"local", "peer"}
Other(e) == CHOOSE f \in End : f # e

\* BgpCodec::default().
NewCodec == [asn4_sent |-> <<>>, asn4_received |-> <<>>, buf |-> <<>>]

\* Mutant: what the peer offers is enough.
Asn4Received(c) == c.asn4_received = <<TRUE>>

\* unwrap_or(false) of both options.
Asn4(c) == c.asn4_sent = <<TRUE>> /\ c.asn4_received = <<TRUE>>

Init ==
  /\ codec = [e \in End |-> NewCodec]
  /\ wire = [e \in End |-> <<>>]
  /\ sent = [e \in End |-> <<>>]
  /\ got = [e \in End |-> <<>>]
  /\ refused = [e \in End |-> <<>>]

-----------------------------------------------------------------------------
(* codec.rs *)

\* What is written of m goes to the other end.
Put(e, m, written) ==
  /\ wire' = [wire EXCEPT ![Other(e)] = @ \o written.octets]
  /\ sent' = [sent EXCEPT ![e] = Append(@, [message |-> m, written |-> written])]

\* Encoder::encode.
Encode(e, m) ==
  /\ Put(e, m, WriteMessage(m))
  /\ codec' = IF m.kind = "Open" THEN [codec EXCEPT ![e].asn4_sent = <<HasFourOctetAs(m.value)>>]
              ELSE codec
  /\ UNCHANGED <<got, refused>>

\* Mutant: the length of the body.
AnnouncesBody(buf) == Num(SubSeq(buf, 17, 18)) - 19

\* The length the header at the head of a buffer announces.
Announces(buf) == Num(SubSeq(buf, 17, 18))

\* Mutants: a header is enough; an octet behind the message is needed.
HasHeader(buf) == Len(buf) >= 19
HasMore(buf) == Len(buf) >= 19 /\ Len(buf) > Announces(buf)

\* Decoder::decode asks for more octets as long as this is false.
HasMessage(buf) == Len(buf) >= 19 /\ Len(buf) >= Announces(buf)

\* A message that is Incomplete although all its octets are there is an error of its own.
DecoderError(r) == IF r.incomplete THEN [message |-> "Incomplete", octets |-> <<>>] ELSE r.e

\* The rest of Decoder::decode: the reader is given the whole buffer, and what it leaves
\* unread does not count.  After an error the stream is not read any further.
Decoded(e, r) ==
  IF r.ok
  THEN /\ got' = [got EXCEPT ![e] = Append(@, r.v)]
       /\ codec' = [codec EXCEPT
            ![e].buf = Drop(@, Announces(@)),
            ![e].asn4_received = IF r.v.kind = "Open" THEN <<HasFourOctetAs(r.v.value)>> ELSE @]
       /\ refused' = refused
  ELSE refused' = [refused EXCEPT ![e] = <<DecoderError(r)>>] /\ UNCHANGED <<got, codec>>

Decode(e) ==
  /\ refused[e] = <<>>
  /\ HasMessage(codec[e].buf)
  /\ Decoded(e, ReadMessage(Asn4(codec[e]), codec[e].buf))
  /\ UNCHANGED <<wire, sent>>

\* From<BgpCodecDecoderError> for ConnectionEvent: what the connection makes of an error.
\* Of a NOTIFICATION it keeps the parsing error: there is nothing to answer.
ConnectionEventOf(e) ==
  LET Event(event, sub) == [event |-> event, sub |-> sub, octets |-> e.octets]
  IN CASE e.message = "Incomplete" -> Event("BGPHeaderErr", "BadMessageLength")
       [] e.message = "Header" -> Event("BGPHeaderErr", e.error)
       [] e.message = "Open" -> Event("BGPOpenMsgErr", OpenErrorSubCode(e.error))
       [] e.message = "Update" -> Event("UpdateMsgErr", UpdateErrorSubCode(e.error))
       [] e.message = "Notification" -> [event |-> "NotifMsgErr", error |-> e.error]
       [] e.message = "RouteRefresh" -> Event("RouteRefreshErr", "InvalidMessageLength")

-----------------------------------------------------------------------------
(* The byte stream *)

\* The next n octets arrive.
Deliver(e, n) ==
  /\ refused[e] = <<>> /\ n \in 1 .. Len(wire[e])
  /\ wire' = [wire EXCEPT ![e] = Drop(@, n)]
  /\ codec' = [codec EXCEPT ![e].buf = @ \o SubSeq(wire[e], 1, n)]
  /\ UNCHANGED <<sent, got, refused>>

DeliverAll(e) == Deliver(e, Len(wire[e]))

\* A stream is cut once between two reads, at one of the cuts or before its last octet.
DeliverPart(e) ==
  /\ codec[e].buf = <<>>
  /\ \E n \in (Cuts \cup {Len(wire[e]) - 1}) : n < Len(wire[e]) /\ Deliver(e, n)

-----------------------------------------------------------------------------
(* What the ends send *)

Message(kind, value) == [kind |-> kind, value |-> value]

NoParameters == <<>>
OnlyAsn4 == <<<<[kind |-> "FourOctetAs", value |-> Ramp(4)]>>>>
SessionParameters == {NoParameters, OnlyAsn4}

\* The OPEN of a session that goes on.
SendOpen(e) ==
  /\ sent[e] = <<>>
  /\ \E params \in SessionParameters :
       Encode(e, Message("Open", BgpOpenMessage(params)))

\* An answer to an OPEN that offers any one capability, in front of another one.
OfferCapability ==
  /\ sent["peer"] = <<>> /\ got["peer"] # <<>>
  /\ \E kind \in CapabilityKinds : \E c \in BgpCapability(kind) :
       Encode("peer", Message("Open", BgpOpenMessage(<<<<c>>, OnlyAsn4[1]>>)))

LastSent(e) == Last(sent[e]).message

\* What may follow the peer's OPEN: one message of the samples, and a KEEPALIVE.
HasOnlyOpened ==
  /\ Len(sent["peer"]) = 1
  /\ LastSent("peer").kind = "Open" /\ LastSent("peer").value.params \in SessionParameters
Established == codec["peer"].asn4_sent # <<>> /\ codec["peer"].asn4_received # <<>>

SendNotification ==
  /\ HasOnlyOpened
  /\ \E code_name \in DOMAIN BgpErrorNotificationCode :
       \E n \in BgpNotificationMessage(code_name) : Encode("peer", Message("Notification", n))

SendRouteRefresh ==
  /\ HasOnlyOpened /\ Established
  /\ \E r \in BgpRouteRefreshMessage : Encode("peer", Message("RouteRefresh", r))

\* Only these attributes are written otherwise when AS numbers have two octets.
WidthKinds == {"AsPath", "Aggregator"}
LocalPreferenceAttribute ==
  [optional |-> FALSE, transitive |-> TRUE, partial |-> FALSE, extended |-> FALSE,
   kind |-> "LocalPreference", value |-> Ramp(4)]

\* An attribute of every kind and family, in front of another one or alone; the local side
\* has read the OPEN before.
SendAttribute ==
  /\ HasOnlyOpened /\ Established /\ Len(got["local"]) = 1
  /\ \E kind \in ReadKinds \cup {"UnknownAttribute"} : \E family \in FamiliesOf(kind) :
       \E a \in PathAttribute(kind, family, Asn4(codec["peer"])) :
         \E tail \in {<<LocalPreferenceAttribute>>}
                       \cup (IF kind = "BgpLsAttribute" THEN {<<>>} ELSE {}) :
           /\ Asn4(codec["peer"]) \/ kind \in WidthKinds
           /\ Encode("peer", Message("Update", [withdrawn_routes |-> <<>>, nlri |-> <<>>,
                                                path_attributes |-> <<a>> \o tail]))

SendRoutes ==
  /\ HasOnlyOpened /\ Established
  /\ \E v \in BgpUpdateMessage(Lists(Ipv4UnicastAddress), {<<>>}, Lists(Ipv4UnicastAddress)) :
       Encode("peer", Message("Update", v))

SendKeepAlive ==
  /\ sent["peer"] # <<>> /\ LastSent("peer").kind # "KeepAlive"
  /\ Encode("peer", Message("KeepAlive", <<>>))

\* Octets that no writer of the codec writes.
SendMalformed ==
  /\ sent["peer"] = <<>> \/ HasOnlyOpened
  /\ \E f \in Malformed :
       /\ Put("peer", Message("Malformed", f), W(Len(f.octets), f.octets))
       /\ UNCHANGED <<codec, got, refused>>

Next ==
  \/ \E e \in End : SendOpen(e) \/ DeliverAll(e) \/ DeliverPart(e) \/ Decode(e)
  \/ OfferCapability \/ SendNotification \/ SendRouteRefresh \/ SendAttribute \/ SendRoutes
  \/ SendKeepAlive \/ SendMalformed

Spec == Init /\ [][Next]_vars

-----------------------------------------------------------------------------
(* Properties *)

IsMessage(m) == m.kind # "Malformed"
\* What is sent to an end, and whether what it has decoded so far had the right length.
Coming(e) == [i \in DOMAIN sent[Other(e)] |-> sent[Other(e)][i].message]
AlignedUpTo(e, n) ==
  \A i \in 1 .. n : i \in DOMAIN Coming(e) => IsMessage(Coming(e)[i]) /\ IsSized(Coming(e)[i])

\* However TCP cuts the stream, decode consumes whole messages: what it has not decoded is,
\* octet for octet, the messages that were sent behind those it has decoded.  A message
\* whose len() is wrong (IsSized) puts an end to that.
StreamStaysAligned ==
  \A e \in End :
    LET n == Len(got[e])
    IN AlignedUpTo(e, n) =>
         /\ n <= Len(Coming(e))
         /\ codec[e].buf \o wire[e] =
              FlattenSeq([i \in 1 .. Len(Coming(e)) - n |-> sent[Other(e)][n + i].written.octets])

\* len() is computed apart from write(), and every length field of a message is taken from
\* it: it is the number of octets written, for every message but those named in IsSized,
\* and the header's field is wide enough for it.
LengthsAreExact ==
  \A e \in End : \A i \in DOMAIN sent[e] :
    LET m == sent[e][i].message
        w == sent[e][i].written
    IN IsMessage(m) =>
         /\ w.octets \in Seq(Octet)
         /\ (Len(w.octets) = w.len) = IsSized(m)
         /\ IsSized(m) => /\ Len(w.octets) >= BGP_MIN_MESSAGE_LENGTH
                          /\ Num(SubSeq(w.octets, 17, 18)) = w.len

\* A message of the right length is decoded as the value that was encoded, if and only if
\* it Survives.  One that is too short may be read with octets of the message behind it.
ReadBackExactly ==
  \A e \in End : \A i \in DOMAIN got[e] \cap DOMAIN Coming(e) :
    AlignedUpTo(e, i) => (got[e][i] = Coming(e)[i]) = Survives(Coming(e)[i])

\* The decoder refuses a stream at a message that does not survive, or behind one: never
\* at a message the codec should be able to read.
RefusedForCause ==
  \A e \in End :
    refused[e] # <<>> =>
      \E i \in 1 .. Len(got[e]) + 1 :
        /\ i \in DOMAIN Coming(e)
        /\ IsMessage(Coming(e)[i]) => ~ Survives(Coming(e)[i])

\* When an UPDATE is the next message, the codec that reads it expects AS numbers of the
\* width the codec that wrote it has agreed on: both know both OPENs by then.
AsnWidthAgreed ==
  \A e \in End :
    LET n == Len(got[e]) + 1
    IN n \in DOMAIN Coming(e) /\ Coming(e)[n].kind = "Update" /\ AlignedUpTo(e, n - 1)
         => Asn4(codec[e]) = Asn4(codec[Other(e)])

\* A frame that is no message is never decoded.  The event the connection is given for it
\* names the rule it breaks and has the octets to show; so has the notification that
\* From<BgpMessageParsingError> makes of the error, wherever there is one to make.  Nothing
\* is claimed of the name (event and answer are <<>>) where a length announces more octets
\* than there are: see the README for what deserializer/update.rs:301 says of those.
ErrorsAreNamed ==
  \A e \in End :
    LET n == Len(got[e]) + 1
        m == Coming(e)[n]
        error == refused[e][1]
    IN /\ \A i \in DOMAIN got[e] \cap DOMAIN Coming(e) :
            AlignedUpTo(e, i - 1) => IsMessage(Coming(e)[i])
       /\ refused[e] # <<>> /\ AlignedUpTo(e, n - 1) /\ n \in DOMAIN Coming(e) /\ ~ IsMessage(m)
            => /\ m.value.event # <<>> => m.value.event = <<ConnectionEventOf(error)>>
               /\ m.value.answer # <<>> => m.value.answer = <<NotificationOf(error)>>

\* When all octets have arrived and decode asks for more, every message of a stream of
\* messages that survive has been decoded: none waits for octets that do not come.
NothingIsLeftUnread ==
  \A e \in End :
    /\ wire[e] = <<>> /\ ~ HasMessage(codec[e].buf)
    /\ \A i \in DOMAIN Coming(e) : IsMessage(Coming(e)[i]) /\ Survives(Coming(e)[i])
    => got[e] = Coming(e)
=============================================================================
