----------------------------- MODULE Connection -----------------------------
(***************************************************************************)
(* One BGP connection of the speaker (netgauze bgp-speaker, connection.rs): *)
(* what it can read next (poll_next) and what it does with an event        *)
(* (handle_event). Counters and capabilities are left out, since no        *)
(* decision depends on them.                                               *)
(***************************************************************************)
EXTENDS Integers

CONSTANTS
  OpenDelay,       \* open_delay_timer_duration is not zero (erezd: 5 seconds)
  AllowDynamicAs,  \* any AS number is accepted in an OPEN (erezd: yes)
  WritesFail,      \* whether a write to the socket may fail
  WritesBlock,     \* whether it may wait for room in the socket
  PeerBgpIds,      \* the BGP identifiers the remote side may send
  HoldTimes        \* the hold times it may send; zero asks for no hold timer

ASSUME ConnectionAssumption ==
  /\ OpenDelay \in BOOLEAN /\ AllowDynamicAs \in BOOLEAN /\ WritesFail \in BOOLEAN
  /\ WritesBlock \in BOOLEAN
  /\ PeerBgpIds \subseteq Nat \ {0} /\ HoldTimes \subseteq Nat

States == {"Connected", "OpenSent", "OpenConfirm", "Established", "Terminate"}

(* The OPEN messages of the remote side. *)
Opens == [bgp_id : PeerBgpIds, hold_time : HoldTimes, as_expected : BOOLEAN]

(* A connection, its three timers (running or not) and the BGP identifier   *)
(* it has read (0: none). State "None" stands for Option::None.             *)
Connections ==
  [state : States, open_delay : BOOLEAN, hold : BOOLEAN, keepalive : BOOLEAN,
   peer_bgp_id : PeerBgpIds \cup {0}]

InState(state) ==
  [state |-> state, open_delay |-> FALSE, hold |-> FALSE, keepalive |-> FALSE,
   peer_bgp_id |-> 0]

NoConnection == InState("None")
NewConnection == InState("Connected")

---------------------------------------------------------------------------
(* Events. The field hold_time matters for an OPEN alone. *)
Event(type) == [type |-> type, hold_time |-> 0]

(* What the socket and the decoder yield besides an OPEN. *)
Received ==
  {"TcpConnectionFails", "BGPHeaderErr", "BGPOpenMsgErr", "UpdateMsgErr",
   "NotifMsgErr", "RouteRefreshErr", "NotifMsgVerErr", "NotifMsg",
   "KeepAliveMsg", "UpdateMsg", "RouteRefresh"}

(* All the events a connection yields. *)
EventTypes ==
  Received \cup {"KeepAliveTimerExpires", "HoldTimerExpires", "DelayOpenTimerExpires",
                 "BGPOpen", "BGPOpenWithDelayOpenTimer"}

handle_open_message(conn, open) ==
  IF ~AllowDynamicAs /\ ~open.as_expected THEN Event("BGPOpenMsgErr")
  ELSE [type |-> IF conn.open_delay THEN "BGPOpenWithDelayOpenTimer" ELSE "BGPOpen",
        hold_time |-> open.hold_time]

(* What the connection can yield without a change of its own. *)
Ready(conn) ==
  Received
  \cup (IF conn.keepalive THEN {"KeepAliveTimerExpires"} ELSE {})
  \cup (IF conn.hold THEN {"HoldTimerExpires"} ELSE {})

(* poll_next: the connection after it yields an event, and the event. The   *)
(* open-delay timer goes when it expires, and the identifier of an OPEN is   *)
(* recorded, before the event is handled.                                   *)
poll_next(conn) ==
  {[conn |-> conn, event |-> Event(type)] : type \in Ready(conn)}
  \cup (IF conn.open_delay
        THEN {[conn |-> [conn EXCEPT !.open_delay = FALSE],
               event |-> Event("DelayOpenTimerExpires")]}
        ELSE {})
  \cup {[conn |-> [conn EXCEPT !.peer_bgp_id = open.bgp_id],
         event |-> handle_open_message(conn, open)] : open \in Opens}

---------------------------------------------------------------------------
(* handle_event: the connections it can leave, and how it ends. A write may *)
(* wait ("blocked"), and an error the handler returns with `?' ends it      *)
(* ("failed"); both leave the connection as it was before the write. A      *)
(* write that waits and then succeeds is not told from one that did not.    *)
Done(conn) == {[conn |-> conn, end |-> "done"]}
Blocked(conn) == IF WritesBlock THEN {[conn |-> conn, end |-> "blocked"]} ELSE {}
Write(before, after) ==
  Done(after) \cup Blocked(before)
    \cup (IF WritesFail THEN {[conn |-> before, end |-> "failed"]} ELSE {})

At(conn, state) == [conn EXCEPT !.state = state]

(* The connection ends, after a notification whose errors are only logged.  *)
Notify(conn) == Done(At(conn, "Terminate")) \cup Blocked(conn)

SendOpenUntimed(conn) == Write(conn, At(conn, "OpenSent"))

(* Send our OPEN; the hold timer starts with its large value. *)
SendOpen(conn) ==
  LET waiting == [conn EXCEPT !.hold = TRUE]
  IN  Write(waiting, At(waiting, "OpenSent"))

(* read_open_msg, set_negotiated_timers and the timers: a hold time of zero *)
(* starts none, and stops none either.                                      *)
ReadOpen(conn, event) ==
  LET timed == event.hold_time # 0
  IN  [conn EXCEPT !.open_delay = FALSE,
                   !.keepalive = @ \/ timed, !.hold = @ \/ timed]

handle_connected_event(conn, event) ==
  CASE event.type = "DelayOpenTimerExpires" -> SendOpen(conn)
    [] event.type \in {"TcpConnectionRequestAcked", "TcpConnectionConfirmed"} ->
         IF OpenDelay THEN Done([conn EXCEPT !.open_delay = TRUE]) ELSE SendOpen(conn)
    [] event.type = "BGPOpenWithDelayOpenTimer" ->
         LET read == ReadOpen(conn, event) IN Write(read, At(read, "OpenConfirm"))
    [] event.type \in {"BGPHeaderErr", "BGPOpenMsgErr"} -> Notify(conn)
    [] event.type = "NotifMsgErr" -> Done(conn)
    [] OTHER -> Done(At(conn, "Terminate"))

handle_open_sent_event(conn, event) ==
  CASE event.type = "HoldTimerExpires" -> Write(conn, At(conn, "Terminate"))
    [] event.type = "BGPOpen" ->
         LET read == ReadOpen(conn, event) IN Write(read, At(read, "OpenConfirm"))
    [] event.type = "NotifMsgErr" -> Done(conn)
    [] event.type \in {"TcpConnectionFails", "NotifMsgVerErr"} -> Done(At(conn, "Terminate"))
    [] OTHER -> Notify(conn)

handle_open_confirm_event(conn, event) ==
  CASE event.type = "HoldTimerExpires" ->
         Write(At(conn, "Terminate"), At(conn, "Terminate"))
    [] event.type = "KeepAliveTimerExpires" -> Write(conn, conn)
    [] event.type = "KeepAliveMsg" -> Done(At(conn, "Established"))
    [] event.type = "NotifMsgErr" -> Done(conn)
    [] event.type \in {"TcpConnectionFails", "NotifMsg", "NotifMsgVerErr"} ->
         Done(At(conn, "Terminate"))
    [] OTHER -> Notify(conn)

handle_established_event(conn, event) ==
  CASE event.type = "KeepAliveTimerExpires" -> Write(conn, conn)
    [] event.type = "HoldTimerExpires" -> Notify(conn)
    [] event.type \in {"KeepAliveMsg", "UpdateMsg", "RouteRefresh", "NotifMsgErr"} ->
         Done(conn)
    [] OTHER -> Done(At(conn, "Terminate"))

handle_event(conn, event) ==
  CASE conn.state = "Connected" -> handle_connected_event(conn, event)
    [] conn.state = "OpenSent" -> handle_open_sent_event(conn, event)
    [] conn.state = "OpenConfirm" -> handle_open_confirm_event(conn, event)
    [] conn.state = "Established" -> handle_established_event(conn, event)
    [] conn.state = "Terminate" -> Done(conn)
============================================================================
