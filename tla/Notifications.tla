--------------------------- MODULE Notifications ---------------------------
(***************************************************************************)
(* NOTIFICATION messages: an error code, a sub code of the error's own     *)
(* table, and whatever octets are left.  A notification is                 *)
(* [error, sub, octets]; the sub code of an expired hold timer is a number *)
(* nobody looks at, every other one has a name.                            *)
(***************************************************************************)
EXTENDS Octets, Iana

ReadSub(table, b) ==
  Bind(Take(1, b), LAMBDA s, rest :
    LET name == TryFrom(table, s[1])
    IN IF name = Undefined THEN Err("Undefined")
       ELSE Ok([sub |-> name[1], octets |-> rest], <<>>))

WriteSub(table, v) == W(1 + Len(v.octets), U8(table[v.sub]) \o v.octets)

Data == {<<>>, Ramp(3)}

-----------------------------------------------------------------------------
MessageHeaderError == [sub : DOMAIN MessageHeaderErrorSubCode, octets : Data]
ReadMessageHeaderError(b) == ReadSub(MessageHeaderErrorSubCode, b)
WriteMessageHeaderError(v) == WriteSub(MessageHeaderErrorSubCode, v)

OpenMessageError == [sub : DOMAIN OpenMessageErrorSubCode, octets : Data]
ReadOpenMessageError(b) == ReadSub(OpenMessageErrorSubCode, b)
WriteOpenMessageError(v) == WriteSub(OpenMessageErrorSubCode, v)

UpdateMessageError == [sub : DOMAIN UpdateMessageErrorSubCode, octets : Data]
ReadUpdateMessageError(b) == ReadSub(UpdateMessageErrorSubCode, b)
WriteUpdateMessageError(v) == WriteSub(UpdateMessageErrorSubCode, v)

HoldTimerExpiredError == [sub : {0, 255}, octets : Data]
ReadHoldTimerExpiredError(b) ==
  Bind(Take(1, b), LAMBDA s, rest : Ok([sub |-> s[1], octets |-> rest], <<>>))
WriteHoldTimerExpiredError(v) == W(1 + Len(v.octets), U8(v.sub) \o v.octets)

FiniteStateMachineError == [sub : DOMAIN FiniteStateMachineErrorSubCode, octets : Data]
ReadFiniteStateMachineError(b) == ReadSub(FiniteStateMachineErrorSubCode, b)
WriteFiniteStateMachineError(v) == WriteSub(FiniteStateMachineErrorSubCode, v)

CeaseError == [sub : DOMAIN CeaseErrorSubCode, octets : Data]
ReadCeaseError(b) == ReadSub(CeaseErrorSubCode, b)
WriteCeaseError(v) == WriteSub(CeaseErrorSubCode, v)

RouteRefreshError == [sub : DOMAIN RouteRefreshMessageErrorSubCode, octets : Data]
ReadRouteRefreshError(b) == ReadSub(RouteRefreshMessageErrorSubCode, b)
WriteRouteRefreshError(v) == WriteSub(RouteRefreshMessageErrorSubCode, v)

-----------------------------------------------------------------------------
NotificationValue(error) ==
  CASE error = "MessageHeaderError" -> MessageHeaderError
    [] error = "OpenMessageError" -> OpenMessageError
    [] error = "UpdateMessageError" -> UpdateMessageError
    [] error = "HoldTimerExpired" -> HoldTimerExpiredError
    [] error = "FiniteStateMachineError" -> FiniteStateMachineError
    [] error = "Cease" -> CeaseError
    [] error = "RouteRefreshMessageError" -> RouteRefreshError
BgpNotificationMessage(error) == {[error |-> error] @@ v : v \in NotificationValue(error)}

ReadNotification(b) ==
  Bind(Take(1, b), LAMBDA s, rest :
    LET name == TryFrom(BgpErrorNotificationCode, s[1])
        error == name[1]
        As(r) == Bind(r, LAMBDA v, tail : Ok([error |-> error] @@ v, tail))
    IN CASE name = Undefined -> Err("Undefined")
         [] error = "MessageHeaderError" -> As(ReadMessageHeaderError(rest))
         [] error = "OpenMessageError" -> As(ReadOpenMessageError(rest))
         [] error = "UpdateMessageError" -> As(ReadUpdateMessageError(rest))
         [] error = "HoldTimerExpired" -> As(ReadHoldTimerExpiredError(rest))
         [] error = "FiniteStateMachineError" -> As(ReadFiniteStateMachineError(rest))
         [] error = "Cease" -> As(ReadCeaseError(rest))
         [] error = "RouteRefreshMessageError" -> As(ReadRouteRefreshError(rest)))

WriteNotification(v) ==
  Behind(1, U8(BgpErrorNotificationCode[v.error]),
    CASE v.error = "MessageHeaderError" -> WriteMessageHeaderError(v)
      [] v.error = "OpenMessageError" -> WriteOpenMessageError(v)
      [] v.error = "UpdateMessageError" -> WriteUpdateMessageError(v)
      [] v.error = "HoldTimerExpired" -> WriteHoldTimerExpiredError(v)
      [] v.error = "FiniteStateMachineError" -> WriteFiniteStateMachineError(v)
      [] v.error = "Cease" -> WriteCeaseError(v)
      [] v.error = "RouteRefreshMessageError" -> WriteRouteRefreshError(v))
=============================================================================
