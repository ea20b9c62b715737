---------------------------- MODULE PeerProofs ----------------------------
(***************************************************************************)
(* Proofs about a BGP peer and its two connections.                        *)
(***************************************************************************)
EXTENDS Peer, SequenceTheorems, TLAPS

(* What a connection is given: what it yields, and the two events of its    *)
(* creation.                                                                *)
PolledEvents == [type : EventTypes, hold_time : Nat]
Handled == EventTypes \cup {"TcpConnectionRequestAcked", "TcpConnectionConfirmed"}

LEMMA PollProperties ==
  ASSUME NEW conn \in Connections, NEW p \in poll_next(conn)
  PROVE  /\ p.conn \in Connections
         /\ p.conn.state = conn.state
         /\ p.event \in PolledEvents
<1> USE ConnectionAssumption
<1>1. CASE p \in {[conn |-> conn, event |-> Event(type)] : type \in Ready(conn)}
  BY <1>1 DEF Ready, EventTypes, Event, PolledEvents
<1>2. CASE p = [conn |-> [conn EXCEPT !.open_delay = FALSE], event |-> Event("DelayOpenTimerExpires")]
  BY <1>2 DEF EventTypes, Event, Connections, PolledEvents
<1>3. CASE p \in {[conn |-> [conn EXCEPT !.peer_bgp_id = open.bgp_id],
                   event |-> handle_open_message(conn, open)] : open \in Opens}
  BY <1>3 DEF EventTypes, Event, Opens, handle_open_message, Received, Connections, PolledEvents
<1> QED BY <1>1, <1>2, <1>3 DEF poll_next


---------------------------------------------------------------------------
(* What the helpers of the four handlers leave. *)

Ends == {"done", "blocked", "failed"}

LEMMA WriteOutcome ==
  ASSUME NEW before \in Connections, NEW after \in Connections, NEW o \in Write(before, after)
  PROVE  \/ o.conn = after /\ o.end = "done"
         \/ o.conn = before /\ o.end \in {"blocked", "failed"}
BY DEF Write, Done, Blocked

LEMMA DoneOutcome ==
  ASSUME NEW conn \in Connections, NEW o \in Done(conn)
  PROVE  o.conn = conn /\ o.end = "done"
BY DEF Done

LEMMA AtState ==
  ASSUME NEW conn \in Connections, NEW state \in States
  PROVE  At(conn, state) \in Connections /\ At(conn, state).state = state
BY DEF At, Connections

LEMMA NotifyOutcome ==
  ASSUME NEW conn \in Connections, NEW o \in Notify(conn)
  PROVE  \/ o.conn = At(conn, "Terminate") /\ o.end = "done"
         \/ o.conn = conn /\ o.end = "blocked"
BY DEF Notify, Done, Blocked

LEMMA SendOpenOutcome ==
  ASSUME NEW conn \in Connections, NEW o \in SendOpen(conn)
  PROVE  /\ o.conn \in Connections
         /\ \/ o.conn.state = "OpenSent" /\ o.end = "done"
            \/ o.conn.state = conn.state /\ o.end \in {"blocked", "failed"}
<1> DEFINE w == [conn EXCEPT !.hold = TRUE]
<1>1. w \in Connections /\ w.state = conn.state
  BY DEF Connections
<1>2. At(w, "OpenSent") \in Connections /\ At(w, "OpenSent").state = "OpenSent"
  BY <1>1, AtState DEF States
<1>3. o \in Write(w, At(w, "OpenSent"))
  BY DEF SendOpen
<1> HIDE DEF w
<1> QED BY <1>1, <1>2, <1>3, WriteOutcome

LEMMA ReadOpenType ==
  ASSUME NEW conn \in Connections, NEW event
  PROVE  ReadOpen(conn, event) \in Connections /\ ReadOpen(conn, event).state = conn.state
BY DEF Connections, ReadOpen

(* The answer to an OPEN. *)
LEMMA OpenOutcome ==
  ASSUME NEW conn \in Connections, NEW event,
         NEW o \in Write(ReadOpen(conn, event), At(ReadOpen(conn, event), "OpenConfirm"))
  PROVE  /\ o.conn \in Connections
         /\ \/ o.conn.state = "OpenConfirm" /\ o.end = "done"
            \/ o.conn.state = conn.state /\ o.end \in {"blocked", "failed"}
<1> DEFINE r == ReadOpen(conn, event)
<1>1. r \in Connections /\ r.state = conn.state
  BY ReadOpenType
<1>2. At(r, "OpenConfirm") \in Connections /\ At(r, "OpenConfirm").state = "OpenConfirm"
  BY <1>1, AtState DEF States
<1>3. o \in Write(r, At(r, "OpenConfirm"))
  OBVIOUS
<1> HIDE DEF r
<1> QED BY <1>1, <1>2, <1>3, WriteOutcome

---------------------------------------------------------------------------
(* The four handlers. What a handler that is done leaves is what            *)
(* handle_connection_event accepts.                                         *)

LEMMA ConnectedOutcome ==
  ASSUME NEW conn \in Connections, conn.state = "Connected",
         NEW event, event.type \in Handled,
         NEW o \in handle_connected_event(conn, event)
  PROVE  /\ o.conn \in Connections /\ o.end \in Ends
         /\ o.end # "done" => o.conn.state = "Connected"
         /\ o.conn.state # "Established"
         /\ o.end = "done" /\ event.type \in EventTypes =>
              event.type \in FromConnected(o.conn.state)
         /\ event.type \notin EventTypes => o.conn.state \in {"Connected", "OpenSent"}
<1> USE DEF Ends
<1> DEFINE t == event.type
<1>0. At(conn, "Terminate") \in Connections /\ At(conn, "Terminate").state = "Terminate"
  BY AtState DEF States
<1>1. CASE t = "DelayOpenTimerExpires"
  <2>1. o \in SendOpen(conn)
    BY <1>1 DEF handle_connected_event
  <2> QED BY <2>1, <1>1, SendOpenOutcome DEF EventTypes, FromConnected
<1>2. CASE t \in {"TcpConnectionRequestAcked", "TcpConnectionConfirmed"}
  <2>1. t \notin EventTypes
    BY <1>2 DEF EventTypes, Received
  <2>2. CASE OpenDelay
    <3>1. o \in Done([conn EXCEPT !.open_delay = TRUE])
      BY <1>2, <2>2 DEF handle_connected_event
    <3>2. [conn EXCEPT !.open_delay = TRUE] \in Connections
          /\ [conn EXCEPT !.open_delay = TRUE].state = "Connected"
      BY DEF Connections
    <3>3. o.conn \in Connections /\ o.conn.state = "Connected" /\ o.end = "done"
      BY <3>1, <3>2, DoneOutcome
    <3> QED BY <3>3, <2>1
  <2>3. CASE ~OpenDelay
    <3>1. o \in SendOpen(conn)
      BY <1>2, <2>3 DEF handle_connected_event
    <3> QED BY <3>1, <2>1, SendOpenOutcome
  <2> QED BY <2>2, <2>3
<1>3. CASE t = "BGPOpenWithDelayOpenTimer"
  <2>1. o \in Write(ReadOpen(conn, event), At(ReadOpen(conn, event), "OpenConfirm"))
    BY <1>3 DEF handle_connected_event
  <2> QED BY <2>1, <1>3, OpenOutcome DEF EventTypes, FromConnected
<1>4. CASE t \in {"BGPHeaderErr", "BGPOpenMsgErr"}
  <2>1. o \in Notify(conn)
    BY <1>4 DEF handle_connected_event
  <2>2. t \in EventTypes
    BY <1>4 DEF EventTypes, Received
  <2> QED BY <2>1, <2>2, <1>4, <1>0, NotifyOutcome DEF FromConnected, Broken
<1>5. CASE t = "NotifMsgErr"
  <2>1. o \in Done(conn)
    BY <1>5 DEF handle_connected_event
  <2> QED BY <2>1, <1>5, DoneOutcome DEF FromConnected, EventTypes, Received
<1>6. CASE t \notin {"DelayOpenTimerExpires", "TcpConnectionRequestAcked", "TcpConnectionConfirmed",
                     "BGPOpenWithDelayOpenTimer", "BGPHeaderErr", "BGPOpenMsgErr", "NotifMsgErr"}
  <2>1. o \in Done(At(conn, "Terminate"))
    BY <1>6 DEF handle_connected_event
  <2>2. o.conn \in Connections /\ o.conn.state = "Terminate" /\ o.end = "done"
    BY <2>1, <1>0, DoneOutcome
  <2>3. t \in EventTypes
    BY <1>6 DEF Handled
  <2>4. t \in FromConnected("Terminate")
    BY <1>6, <2>3 DEF EventTypes, Received, FromConnected, Broken
  <2> QED BY <2>2, <2>3, <2>4
<1> QED BY <1>1, <1>2, <1>3, <1>4, <1>5, <1>6

LEMMA OpenSentOutcome ==
  ASSUME NEW conn \in Connections, conn.state = "OpenSent",
         NEW event, event.type \in EventTypes,
         NEW o \in handle_open_sent_event(conn, event)
  PROVE  /\ o.conn \in Connections /\ o.end \in Ends
         /\ o.end # "done" => o.conn.state = "OpenSent"
         /\ o.conn.state # "Established"
         /\ o.end = "done" => event.type \in FromOpenSent(o.conn.state)
<1> USE DEF Ends
<1> DEFINE t == event.type
<1>0. At(conn, "Terminate") \in Connections /\ At(conn, "Terminate").state = "Terminate"
  BY AtState DEF States
<1>1. CASE t = "HoldTimerExpires"
  <2>1. o \in Write(conn, At(conn, "Terminate"))
    BY <1>1 DEF handle_open_sent_event
  <2> QED BY <2>1, <1>1, <1>0, WriteOutcome DEF FromOpenSent
<1>2. CASE t = "BGPOpen"
  <2>1. o \in Write(ReadOpen(conn, event), At(ReadOpen(conn, event), "OpenConfirm"))
    BY <1>2 DEF handle_open_sent_event
  <2> QED BY <2>1, <1>2, OpenOutcome DEF FromOpenSent
<1>3. CASE t = "NotifMsgErr"
  <2>1. o \in Done(conn)
    BY <1>3 DEF handle_open_sent_event
  <2> QED BY <2>1, <1>3, DoneOutcome DEF FromOpenSent
<1>4. CASE t \in {"TcpConnectionFails", "NotifMsgVerErr"}
  <2>1. o \in Done(At(conn, "Terminate"))
    BY <1>4 DEF handle_open_sent_event
  <2> QED BY <2>1, <1>4, <1>0, DoneOutcome DEF FromOpenSent, Broken
<1>5. CASE t \notin {"HoldTimerExpires", "BGPOpen", "NotifMsgErr", "TcpConnectionFails", "NotifMsgVerErr"}
  <2>1. o \in Notify(conn)
    BY <1>5 DEF handle_open_sent_event
  <2>2. t \in FromOpenSent("Terminate")
    BY <1>5 DEF EventTypes, Received, FromOpenSent, Broken
  <2> QED BY <2>1, <2>2, <1>0, NotifyOutcome
<1> QED BY <1>1, <1>2, <1>3, <1>4, <1>5

LEMMA OpenConfirmOutcome ==
  ASSUME NEW conn \in Connections, conn.state = "OpenConfirm",
         NEW event, event.type \in EventTypes,
         NEW o \in handle_open_confirm_event(conn, event)
  PROVE  /\ o.conn \in Connections /\ o.end \in Ends
         /\ o.end # "done" => o.conn.state \in {"OpenConfirm", "Terminate"}
         /\ o.end = "done" => event.type \in FromOpenConfirm(o.conn.state)
<1> USE DEF Ends
<1> DEFINE t == event.type
<1>0. /\ At(conn, "Terminate") \in Connections /\ At(conn, "Terminate").state = "Terminate"
      /\ At(conn, "Established") \in Connections /\ At(conn, "Established").state = "Established"
  BY AtState DEF States
<1>1. CASE t = "HoldTimerExpires"
  <2>1. o \in Write(At(conn, "Terminate"), At(conn, "Terminate"))
    BY <1>1 DEF handle_open_confirm_event
  <2> QED BY <2>1, <1>1, <1>0, WriteOutcome DEF FromOpenConfirm
<1>2. CASE t = "KeepAliveTimerExpires"
  <2>1. o \in Write(conn, conn)
    BY <1>2 DEF handle_open_confirm_event
  <2> QED BY <2>1, <1>2, WriteOutcome DEF FromOpenConfirm
<1>3. CASE t = "KeepAliveMsg"
  <2>1. o \in Done(At(conn, "Established"))
    BY <1>3 DEF handle_open_confirm_event
  <2> QED BY <2>1, <1>3, <1>0, DoneOutcome DEF FromOpenConfirm
<1>4. CASE t = "NotifMsgErr"
  <2>1. o \in Done(conn)
    BY <1>4 DEF handle_open_confirm_event
  <2> QED BY <2>1, <1>4, DoneOutcome DEF FromOpenConfirm
<1>5. CASE t \in {"TcpConnectionFails", "NotifMsg", "NotifMsgVerErr"}
  <2>1. o \in Done(At(conn, "Terminate"))
    BY <1>5 DEF handle_open_confirm_event
  <2> QED BY <2>1, <1>5, <1>0, DoneOutcome DEF FromOpenConfirm, Broken
<1>6. CASE t \notin {"HoldTimerExpires", "KeepAliveTimerExpires", "KeepAliveMsg", "NotifMsgErr",
                     "TcpConnectionFails", "NotifMsg", "NotifMsgVerErr"}
  <2>1. o \in Notify(conn)
    BY <1>6 DEF handle_open_confirm_event
  <2>2. t \in FromOpenConfirm("Terminate")
    BY <1>6 DEF EventTypes, Received, FromOpenConfirm, Broken
  <2> QED BY <2>1, <2>2, <1>0, NotifyOutcome
<1> QED BY <1>1, <1>2, <1>3, <1>4, <1>5, <1>6

LEMMA EstablishedOutcome ==
  ASSUME NEW conn \in Connections, conn.state = "Established",
         NEW event, event.type \in EventTypes,
         NEW o \in handle_established_event(conn, event)
  PROVE  /\ o.conn \in Connections /\ o.end \in Ends
         /\ o.end # "done" => o.conn.state = "Established"
         /\ o.end = "done" => event.type \in FromEstablished(o.conn.state)
<1> USE DEF Ends
<1> DEFINE t == event.type
<1>0. At(conn, "Terminate") \in Connections /\ At(conn, "Terminate").state = "Terminate"
  BY AtState DEF States
<1>1. CASE t = "KeepAliveTimerExpires"
  <2>1. o \in Write(conn, conn)
    BY <1>1 DEF handle_established_event
  <2> QED BY <2>1, <1>1, WriteOutcome DEF FromEstablished
<1>2. CASE t = "HoldTimerExpires"
  <2>1. o \in Notify(conn)
    BY <1>2 DEF handle_established_event
  <2> QED BY <2>1, <1>2, <1>0, NotifyOutcome DEF FromEstablished
<1>3. CASE t \in {"KeepAliveMsg", "UpdateMsg", "RouteRefresh", "NotifMsgErr"}
  <2>1. o \in Done(conn)
    BY <1>3 DEF handle_established_event
  <2> QED BY <2>1, <1>3, DoneOutcome DEF FromEstablished
<1>4. CASE t \notin {"KeepAliveTimerExpires", "HoldTimerExpires", "KeepAliveMsg", "UpdateMsg",
                     "RouteRefresh", "NotifMsgErr"}
  <2>1. o \in Done(At(conn, "Terminate"))
    BY <1>4 DEF handle_established_event
  <2>2. t \in FromEstablished("Terminate")
    BY <1>4 DEF EventTypes, Received, FromEstablished, Broken
  <2> QED BY <2>1, <2>2, <1>0, DoneOutcome
<1> QED BY <1>1, <1>2, <1>3, <1>4

(* The same for a connection in any state. *)
LEMMA HandleOutcome ==
  ASSUME NEW conn \in Connections, NEW event, event.type \in EventTypes,
         NEW o \in handle_event(conn, event)
  PROVE  /\ o.conn \in Connections /\ o.end \in Ends
         /\ o.end # "done" =>
              \/ o.conn.state = conn.state
              \/ conn.state = "OpenConfirm" /\ o.conn.state = "Terminate"
         /\ conn.state \notin {"OpenConfirm", "Established"} => o.conn.state # "Established"
         /\ o.end = "done" /\ conn.state # "Terminate" =>
              event.type \in Accepted(conn.state, o.conn.state)
<1>1. CASE conn.state = "Connected"
  <2>1. o \in handle_connected_event(conn, event)
    BY <1>1 DEF handle_event
  <2> QED BY <1>1, <2>1, ConnectedOutcome DEF Accepted, Handled
<1>2. CASE conn.state = "OpenSent"
  <2>1. o \in handle_open_sent_event(conn, event)
    BY <1>2 DEF handle_event
  <2> QED BY <1>2, <2>1, OpenSentOutcome DEF Accepted
<1>3. CASE conn.state = "OpenConfirm"
  <2>1. o \in handle_open_confirm_event(conn, event)
    BY <1>3 DEF handle_event
  <2> QED BY <1>3, <2>1, OpenConfirmOutcome DEF Accepted
<1>4. CASE conn.state = "Established"
  <2>1. o \in handle_established_event(conn, event)
    BY <1>4 DEF handle_event
  <2> QED BY <1>4, <2>1, EstablishedOutcome DEF Accepted
<1>5. CASE conn.state = "Terminate"
  <2>1. o \in Done(conn)
    BY <1>5 DEF handle_event
  <2> QED BY <1>5, <2>1, DoneOutcome DEF Ends
<1> QED BY <1>1, <1>2, <1>3, <1>4, <1>5 DEF Connections, States

(* A connection just made. *)
LEMMA CreationOutcome ==
  ASSUME NEW type \in {"TcpConnectionRequestAcked", "TcpConnectionConfirmed"},
         NEW o \in handle_event(NewConnection, Event(type))
  PROVE  /\ o.conn \in Connections /\ o.end \in Ends
         /\ o.conn.state \in {"Connected", "OpenSent"}
<1>1. NewConnection \in Connections /\ NewConnection.state = "Connected"
  BY DEF NewConnection, InState, Connections, States
<1>2. Event(type).type = type
  BY DEF Event
<1>3. o \in handle_connected_event(NewConnection, Event(type))
  BY <1>1 DEF handle_event
<1>4. type \in Handled /\ type \notin EventTypes
  BY DEF Handled, EventTypes, Received
<1> QED BY <1>1, <1>2, <1>3, <1>4, ConnectedOutcome

(* The transitions handle_connection_event accepts. *)
LEMMA AcceptedStates ==
  ASSUME NEW before, NEW after, NEW type \in Accepted(before, after)
  PROVE  /\ before \in {"Connected", "OpenSent", "OpenConfirm", "Established"}
         /\ after = "Connected" => before = "Connected"
         /\ after = "OpenSent" => before \in {"Connected", "OpenSent"}
         /\ after = "Established" => before \in {"OpenConfirm", "Established"}
BY DEF Accepted, FromConnected, FromOpenSent, FromOpenConfirm, FromEstablished

---------------------------------------------------------------------------
(* Type correctness. *)

Maybe == Connections \cup {NoConnection}
WaitingOK == waiting_admin_events \in Seq(PeerAdminEvents) /\ Len(waiting_admin_events) <= MaxWaiting
Reasons == {"write", "invalid", "terminated", "collision"}

LEMMA NoConnectionIsNone == NoConnection.state = "None" /\ NoConnection \notin Connections
BY DEF NoConnection, InState, Connections, States

LEMMA PresentIsConnection ==
  ASSUME NEW conn \in Maybe, present(conn)
  PROVE  conn \in Connections
BY NoConnectionIsNone DEF Maybe, present

(* An event taken from the stack. *)
LEMMA PopsType ==
  ASSUME TypeOK, NEW events, Pops(events)
  PROVE  /\ WaitingOK' /\ Len(waiting_admin_events) \in Nat \ {0}
         /\ Len(waiting_admin_events') = Len(waiting_admin_events) - 1
         /\ \A i \in 1..Len(waiting_admin_events') : waiting_admin_events'[i] = waiting_admin_events[i]
         /\ Newest \in events /\ Newest \in PeerAdminEvents
<1> DEFINE w == waiting_admin_events
<1>1. w \in Seq(PeerAdminEvents) /\ Len(w) <= MaxWaiting /\ MaxWaiting \in Nat /\ w # <<>>
  BY PeerAssumption DEF TypeOK, Pops
<1>2. Len(w) \in Nat /\ Len(w) # 0
  BY <1>1, EmptySeq, LenProperties
<1>3. w' = SubSeq(w, 1, Len(w) - 1)
  BY DEF Pops
<1>4. w' \in Seq(PeerAdminEvents) /\ Len(w') = Len(w) - 1
  <2> DEFINE n == Len(w) - 1
             sub == SubSeq(w, 1, n)
  <2>1. n \in Nat /\ \A i \in 1..n : w[i] \in PeerAdminEvents
    BY <1>1, <1>2, ElementOfSeq
  <2>2. w' = sub
    BY <1>3
  <2>3. sub \in Seq(PeerAdminEvents) /\ Len(sub) = IF 1 <= n THEN n - 1 + 1 ELSE 0
    BY <2>1, SubSeqProperties
  <2> HIDE DEF sub, n
  <2>4. Len(sub) = n
    BY <2>1, <2>3
  <2> QED BY <2>2, <2>3, <2>4 DEF n
<1>5. \A i \in 1..Len(w') : w'[i] = w[i]
  BY <1>1, <1>2, <1>3, <1>4
<1>6. Newest \in events /\ Newest \in PeerAdminEvents
  BY <1>1, <1>2 DEF Pops, Newest
<1>7. Len(w') <= MaxWaiting
  BY <1>1, <1>2, <1>4
<1> QED BY <1>2, <1>4, <1>5, <1>6, <1>7 DEF WaitingOK

LEMMA DroppedType ==
  ASSUME TypeOK, RunDropped
  PROVE  /\ connecting' \in BOOLEAN /\ selecting' \in BOOLEAN
         /\ tracked_branch' \in {"polled", "writing", "gone"}
         /\ writing' \in {"None", "Waits", "Dropped"}
BY DEF TypeOK, RunDropped

LEMMA FailsType ==
  ASSUME TypeOK, NEW why \in Reasons, Fails(why), WaitingOK'
  PROVE  TypeOK'
<1>1. task' \in Reasons /\ peer_state' = "AdminDown" /\ fsm_state' = "Idle" /\ stopping' = "None"
      /\ connection' = NoConnection /\ tracked_connection' = NoConnection
  BY DEF Fails
<1>2. connect_retry_timer' = FALSE
  BY DEF Fails
<1>3. allowed_to_active_connect' = FALSE
  BY DEF Fails
<1>4. RunDropped
  BY DEF Fails
<1> QED BY <1>1, <1>2, <1>3, <1>4, DroppedType DEF TypeOK, FsmStates, Reasons, WaitingOK

(* What run returns or waits with. *)
LEMMA ReturnsType ==
  ASSUME TypeOK, NEW event, Returns(event)
  PROVE  /\ connecting' \in BOOLEAN /\ selecting' \in BOOLEAN
         /\ tracked_branch' \in {"polled", "writing", "gone"}
         /\ writing' \in {"None", "Waits", "Dropped"}
         /\ stopping' \in Stops \cup {"None", "Dropped"}
         /\ task' = task /\ task' \in {"running"} \cup Reasons
<1>1. RunDropped /\ task' = task
  BY DEF Returns
<1>2. stopping' \in Stops \cup {"None", "Dropped"}
  BY DEF Returns, TypeOK
<1> QED BY <1>1, <1>2, DroppedType DEF TypeOK, Reasons

LEMMA WaitsType ==
  ASSUME TypeOK, Waits
  PROVE  /\ connecting' \in BOOLEAN /\ selecting' \in BOOLEAN
         /\ tracked_branch' \in {"polled", "writing", "gone"}
         /\ writing' \in {"None", "Waits", "Dropped"}
         /\ stopping' \in Stops \cup {"None", "Dropped"}
         /\ task' = task /\ task' \in {"running"} \cup Reasons
BY DEF TypeOK, Waits, Reasons

LEMMA AddConnectionType ==
  ASSUME TypeOK, NEW conn \in Connections, conn.state \in {"Connected", "OpenSent"},
         add_connection(conn)
  PROVE  connection' \in Maybe /\ tracked_connection' \in Maybe /\ fsm_state' \in FsmStates
BY DEF TypeOK, add_connection, FsmStateOf, FsmStates, Maybe

LEMMA NewConnectionType ==
  ASSUME TypeOK, NEW event \in {"TcpConnectionRequestAcked", "TcpConnectionConfirmed"},
         NewConnectionHandled(event), WaitingOK'
  PROVE  TypeOK'
<1>1. PICK o \in handle_event(NewConnection, Event(event)) :
    \/ o.end = "failed" /\ Fails("write")
    \/ /\ o.end = "blocked" /\ Waits
       /\ connect_retry_timer' = FALSE
       /\ UNCHANGED <<peer_state, fsm_state, connection, tracked_connection,
                      allowed_to_active_connect>>
    \/ /\ o.end = "done"
       /\ connect_retry_timer' = FALSE
       /\ add_connection(o.conn)
       /\ Returns(event)
       /\ UNCHANGED <<peer_state, allowed_to_active_connect>>
  BY DEF NewConnectionHandled
<1>2. o.conn \in Connections /\ o.conn.state \in {"Connected", "OpenSent"}
  BY CreationOutcome
<1>3. CASE o.end = "failed" /\ Fails("write")
  BY <1>3, FailsType DEF Reasons
<1>4. CASE /\ o.end = "blocked" /\ Waits
           /\ connect_retry_timer' = FALSE
           /\ UNCHANGED <<peer_state, fsm_state, connection, tracked_connection,
                          allowed_to_active_connect>>
  <2>1. connect_retry_timer' \in BOOLEAN
    BY <1>4
  <2> QED BY <2>1, <1>4, WaitsType DEF TypeOK, Reasons, WaitingOK
<1>5. CASE /\ o.end = "done"
           /\ connect_retry_timer' = FALSE
           /\ add_connection(o.conn)
           /\ Returns(event)
           /\ UNCHANGED <<peer_state, allowed_to_active_connect>>
  <2>1. connect_retry_timer' \in BOOLEAN
    BY <1>5
  <2>2. connection' \in Maybe /\ tracked_connection' \in Maybe /\ fsm_state' \in FsmStates
    BY <1>2, <1>5, AddConnectionType
  <2> QED BY <2>1, <2>2, <1>5, ReturnsType DEF TypeOK, Reasons, WaitingOK, Maybe
<1> QED BY <1>1, <1>3, <1>4, <1>5

(* A collision keeps one of two connections it is given. *)
LEMMA CollisionType ==
  ASSUME TypeOK, NEW check, NEW main \in Maybe, NEW tracked \in Maybe,
         Collision(check, main, tracked)
  PROVE  TypeOK'
<1>1. /\ peer_state' = peer_state /\ allowed_to_active_connect' = allowed_to_active_connect
      /\ waiting_admin_events' = waiting_admin_events
      /\ connect_retry_timer' = connect_retry_timer
  BY DEF Collision
<1>2. connection' \in Maybe /\ tracked_connection' \in Maybe
  BY DEF Collision, Maybe
<1>3. fsm_state' \in FsmStates
  BY DEF Collision, TypeOK
<1>4. /\ connecting' \in BOOLEAN /\ selecting' \in BOOLEAN
      /\ tracked_branch' \in {"polled", "writing", "gone"}
      /\ writing' \in {"None", "Waits", "Dropped"}
      /\ stopping' \in Stops \cup {"None", "Dropped"}
      /\ task' \in {"running"} \cup Reasons
  <2>1. CASE Returns("OpenCollisionDump")
    BY <2>1, ReturnsType
  <2>2. CASE Waits
    BY <2>2, WaitsType
  <2>3. CASE tracked_branch' = "gone"
             /\ UNCHANGED <<connecting, selecting, stopping, writing, task>>
    BY <2>3 DEF TypeOK, Reasons
  <2> QED BY <2>1, <2>2, <2>3 DEF Collision
<1> QED BY <1>1, <1>2, <1>3, <1>4 DEF TypeOK, Reasons, Maybe

LEMMA ConnectionEventType ==
  ASSUME TypeOK, NEW main \in Connections, NEW event, event.type \in EventTypes,
         handle_connection_event(main, event)
  PROVE  TypeOK'
<1>0. WaitingOK' /\ waiting_admin_events' = waiting_admin_events
  BY DEF handle_connection_event, TypeOK, WaitingOK
<1> DEFINE Blocks(o) ==
             /\ o.end = "blocked" /\ Waits
             /\ connection' = o.conn
             /\ UNCHANGED <<peer_state, fsm_state, tracked_connection, connect_retry_timer,
                            allowed_to_active_connect>>
           Refused(o) ==
             /\ o.end = "done" /\ event.type \notin Accepted(main.state, o.conn.state)
             /\ Fails(IF main.state = "Terminate" THEN "terminated" ELSE "invalid")
           Accepts(o) ==
             /\ o.end = "done" /\ event.type \in Accepted(main.state, o.conn.state)
             /\ IF o.conn.state = "Terminate"
                THEN /\ connection' = NoConnection
                     /\ connect_retry_timer' = Retries(main, event)
                     /\ fsm_state' = IF Retries(main, event) THEN "Active" ELSE "Idle"
                ELSE /\ connection' = o.conn
                     /\ connect_retry_timer' =
                          (connect_retry_timer
                             /\ (o.conn.state = "OpenConfirm" => main.state = "OpenConfirm"))
                     /\ fsm_state' = IF o.conn.state = main.state THEN fsm_state
                                                                  ELSE o.conn.state
             /\ Returns(event.type)
             /\ UNCHANGED <<peer_state, tracked_connection, allowed_to_active_connect>>
<1>1. PICK o \in handle_event(main, event) :
        (o.end = "failed" /\ Fails("write")) \/ Blocks(o) \/ Refused(o) \/ Accepts(o)
  BY DEF handle_connection_event
<1>2. o.conn \in Connections
  BY HandleOutcome
<1>3. CASE o.end = "failed" /\ Fails("write")
  BY <1>0, <1>3, FailsType DEF Reasons
<1>4. CASE Blocks(o)
  BY <1>0, <1>2, <1>4, WaitsType DEF TypeOK, Reasons, WaitingOK
<1>5. CASE Refused(o)
  BY <1>0, <1>5, FailsType DEF Reasons
<1>6. CASE Accepts(o)
  <2>1. connection' \in Maybe
    BY <1>6, <1>2 DEF Maybe
  <2>2. connect_retry_timer' \in BOOLEAN
    BY <1>6 DEF Retries, TypeOK
  <2>3. o.conn.state \in States \ {"Terminate"} /\ o.conn.state # main.state => o.conn.state \in FsmStates
    BY <1>6, AcceptedStates DEF States, FsmStates
  <2>4. fsm_state' \in FsmStates
    BY <1>6, <1>2, <2>3 DEF FsmStates, TypeOK, Connections
  <2>5. UNCHANGED <<peer_state, tracked_connection, allowed_to_active_connect>> /\ Returns(event.type)
    BY <1>6
  <2> HIDE DEF Accepts
  <2> QED BY <1>0, <2>1, <2>2, <2>4, <2>5, ReturnsType DEF TypeOK, Reasons, WaitingOK, Maybe
<1> QED BY <1>1, <1>3, <1>4, <1>5, <1>6

---------------------------------------------------------------------------
(* The two branches that poll a connection, and how they can end. *)

CollisionFails == Fails("collision") /\ UNCHANGED waiting_admin_events

TrackedOnly ==
  /\ UNCHANGED <<peer_state, fsm_state, connection, connect_retry_timer,
                 allowed_to_active_connect, waiting_admin_events,
                 connecting, selecting, stopping, writing, task>>
  /\ tracked_branch' \in {tracked_branch, "writing"}

(* A collision needs two connections. *)
LEMMA CollisionOfTwo ==
  ASSUME NEW main, NEW tracked, check_connection_collision(main, tracked) # "None"
  PROVE  present(main) /\ present(tracked)
BY DEF check_connection_collision

LEMMA NoneCollides ==
  ASSUME NEW main, NEW tracked
  PROVE  ~Collision("None", main, tracked) /\ ~Collision("Waits", main, tracked)
BY DEF Collision

LEMMA MainEventCases ==
  ASSUME TypeOK, MainEvent(EventTypes)
  PROVE  /\ Selects /\ connection \in Connections
         /\ \E main \in Connections, event \in PolledEvents :
              /\ event.type \in EventTypes /\ main.state = connection.state
              /\ \/ handle_connection_event(main, event)
                 \/ \E check : /\ Collision(check, main, tracked_connection)
                               /\ present(main) /\ present(tracked_connection)
                 \/ CollisionFails
<1>1. Selects /\ present(connection)
  BY DEF MainEvent
<1>2. connection \in Connections
  BY <1>1, PresentIsConnection DEF TypeOK, Maybe
<1>3. PICK p \in poll_next(connection) :
        LET check == check_connection_collision(p.conn, tracked_connection)
        IN  \/ check = "None" /\ handle_connection_event(p.conn, p.event)
            \/ Collision(check, p.conn, tracked_connection)
            \/ DropMainFails(check, tracked_connection)
  BY DEF MainEvent
<1>4. p.conn \in Connections /\ p.conn.state = connection.state /\ p.event \in PolledEvents
      /\ p.event.type \in EventTypes
  BY <1>2, PollProperties DEF PolledEvents
<1> DEFINE chk == check_connection_collision(p.conn, tracked_connection)
<1>5. \/ handle_connection_event(p.conn, p.event)
      \/ Collision(chk, p.conn, tracked_connection) /\ chk # "None"
      \/ CollisionFails
  BY <1>3, NoneCollides DEF DropMainFails, CollisionFails
<1>6. chk # "None" => present(p.conn) /\ present(tracked_connection)
  BY CollisionOfTwo
<1> HIDE DEF chk
<1> QED BY <1>1, <1>2, <1>4, <1>5, <1>6

LEMMA TrackedEventCases ==
  ASSUME TypeOK, TrackedEvent
  PROVE  /\ Selects /\ tracked_connection \in Connections
         /\ \E conn \in Connections :
              /\ tracked_connection.state # "Established" => conn.state # "Established"
              /\ \/ tracked_connection' = conn /\ TrackedOnly
                 \/ \E check : /\ Collision(check, connection, conn)
                               /\ present(connection) /\ present(conn)
                 \/ CollisionFails
<1>1. Selects /\ present(tracked_connection) /\ tracked_connection.state # "OpenConfirm"
  BY DEF TrackedEvent, TrackedPolled
<1>2. tracked_connection \in Connections
  BY <1>1, PresentIsConnection DEF TypeOK, Maybe
<1> DEFINE Chk(o) == IF o.end = "blocked" THEN "Waits"
                     ELSE check_connection_collision(connection, o.conn)
<1>3. PICK p \in poll_next(tracked_connection) :
        \E o \in handle_event(p.conn, p.event) :
          \/ tracked_connection' = o.conn /\ TrackedOnly
          \/ Collision(Chk(o), connection, o.conn)
          \/ DropMainFails(Chk(o), o.conn)
  BY DEF TrackedEvent, TrackedOnly, run_locals
<1>4. PICK o \in handle_event(p.conn, p.event) :
          \/ tracked_connection' = o.conn /\ TrackedOnly
          \/ Collision(Chk(o), connection, o.conn)
          \/ DropMainFails(Chk(o), o.conn)
  BY <1>3
<1>5. p.conn \in Connections /\ p.conn.state = tracked_connection.state /\ p.event \in PolledEvents
      /\ p.event.type \in EventTypes
  BY <1>2, PollProperties DEF PolledEvents
<1>6. /\ o.conn \in Connections
      /\ tracked_connection.state # "Established" => o.conn.state # "Established"
  BY <1>1, <1>5, HandleOutcome
<1>7. Collision(Chk(o), connection, o.conn) => present(connection) /\ present(o.conn)
  BY NoneCollides, CollisionOfTwo
<1>8. DropMainFails(Chk(o), o.conn) => CollisionFails
  BY DEF DropMainFails, CollisionFails
<1> HIDE DEF Chk
<1> QED BY <1>1, <1>2, <1>4, <1>6, <1>7, <1>8

LEMMA InitTypeOK == Init => TypeOK
<1> SUFFICES ASSUME Init PROVE TypeOK
  OBVIOUS
<1>1. connect_retry_timer = FALSE /\ allowed_to_active_connect = FALSE
      /\ connecting = FALSE /\ selecting = FALSE
  BY DEF Init
<1>2. waiting_admin_events \in Seq(PeerAdminEvents) /\ Len(waiting_admin_events) <= MaxWaiting
  BY PeerAssumption DEF Init
<1>3. peer_state = "AdminDown" /\ fsm_state = "Idle" /\ connection = NoConnection
      /\ tracked_connection = NoConnection /\ stopping = "None"
      /\ tracked_branch = "polled" /\ writing = "None" /\ task = "running"
  BY DEF Init
<1> QED BY <1>1, <1>2, <1>3 DEF TypeOK, FsmStates

LEMMA NextTypeOK == TypeOK /\ [Next]_vars => TypeOK'
<1> SUFFICES ASSUME TypeOK, [Next]_vars PROVE TypeOK'
  OBVIOUS
<1> USE DEF Maybe
<1>0. WaitingOK /\ connection \in Maybe /\ tracked_connection \in Maybe
  BY DEF TypeOK, WaitingOK
<1>1. ASSUME NEW event \in AdminEvents, handle_peer_event(event) PROVE TypeOK'
  <2>1. event \in PeerAdminEvents /\ MaxWaiting \in Nat
    BY PeerAssumption
  <2>2. WaitingOK'
    <3>1. waiting_admin_events' = Append(waiting_admin_events, event)
          /\ Len(waiting_admin_events) < MaxWaiting
      BY <1>1 DEF handle_peer_event
    <3>2. Len(waiting_admin_events) \in Nat
      BY <1>0, LenProperties DEF WaitingOK
    <3> QED BY <1>0, <2>1, <3>1, <3>2, AppendProperties DEF WaitingOK
  <2>3. RunDropped
    BY <1>1 DEF handle_peer_event
  <2>4. stopping' \in Stops \cup {"None", "Dropped"}
    BY <1>1 DEF handle_peer_event, TypeOK
  <2>5. UNCHANGED <<peer_state, fsm_state, connection, tracked_connection,
                    connect_retry_timer, allowed_to_active_connect, task>>
    BY <1>1 DEF handle_peer_event
  <2> QED BY <2>2, <2>3, <2>4, <2>5, DroppedType DEF TypeOK, WaitingOK
<1>2. CASE start
  <2>1. WaitingOK'
    BY <1>2, PopsType DEF start
  <2>2. Returns(Newest)
    BY <1>2 DEF start
  <2>3. connect_retry_timer' \in BOOLEAN
    BY <1>2 DEF start
  <2>4. allowed_to_active_connect' \in BOOLEAN
    BY <1>2 DEF start
  <2>5. peer_state' = "AdminUp" /\ fsm_state' \in FsmStates
        /\ UNCHANGED <<connection, tracked_connection>>
    BY <1>2 DEF start, FsmStates
  <2> QED BY <2>1, <2>2, <2>3, <2>4, <2>5, ReturnsType DEF TypeOK, WaitingOK, Reasons
<1>3. CASE StartIgnored
  <2>1. WaitingOK'
    BY <1>3, PopsType DEF StartIgnored
  <2>2. selecting' \in BOOLEAN
    BY <1>3 DEF StartIgnored
  <2> QED BY <1>3, <2>1, <2>2 DEF StartIgnored, TypeOK, WaitingOK
<1>4. CASE shutdown
  <2>1. WaitingOK'
    BY <1>4, PopsType DEF shutdown
  <2>2. Returns(Newest)
    BY <1>4 DEF shutdown
  <2>3. connect_retry_timer' \in BOOLEAN
    BY <1>4 DEF shutdown
  <2>4. peer_state' = "AdminDown" /\ fsm_state' = "Idle" /\ connection' = NoConnection
        /\ tracked_connection' = NoConnection
        /\ allowed_to_active_connect' = allowed_to_active_connect
    BY <1>4 DEF shutdown
  <2> QED BY <2>1, <2>2, <2>3, <2>4, ReturnsType DEF TypeOK, WaitingOK, Reasons, FsmStates
<1>5. CASE ShutdownBlocks
  <2>1. WaitingOK' /\ Newest \in Stops
    BY <1>5, PopsType DEF ShutdownBlocks
  <2>2. connect_retry_timer' \in BOOLEAN
    BY <1>5 DEF ShutdownBlocks
  <2>3. connection' \in Maybe /\ stopping' = Newest /\ peer_state' = "AdminDown" /\ fsm_state' = "Idle"
        /\ UNCHANGED <<tracked_connection, allowed_to_active_connect, connecting, selecting,
                       tracked_branch, writing, task>>
    BY <1>5, <1>0 DEF ShutdownBlocks
  <2> QED BY <2>1, <2>2, <2>3 DEF TypeOK, WaitingOK, FsmStates
<1>6. CASE ShutdownResumes
  <2>1. Returns(stopping) /\ connection' = NoConnection /\ tracked_connection' = NoConnection
        /\ UNCHANGED <<peer_state, fsm_state, connect_retry_timer, allowed_to_active_connect,
                       waiting_admin_events>>
    BY <1>6 DEF ShutdownResumes
  <2> QED BY <2>1, ReturnsType DEF TypeOK, Reasons
<1>7. CASE accept_connection
  <2>1. WaitingOK'
    BY <1>7, PopsType DEF accept_connection
  <2> QED BY <1>7, <2>1, NewConnectionType DEF accept_connection
<1>8. CASE ConnectionRejected
  <2>1. WaitingOK'
    BY <1>8, PopsType DEF ConnectionRejected
  <2>2. selecting' \in BOOLEAN
    BY <1>8 DEF ConnectionRejected
  <2> QED BY <1>8, <2>1, <2>2 DEF ConnectionRejected, TypeOK, WaitingOK
<1>9. CASE connect
  <2>1. allowed_to_active_connect' \in BOOLEAN
    BY <1>9 DEF connect
  <2>2. connecting' \in BOOLEAN
    BY <1>9 DEF connect
  <2> QED BY <1>9, <2>1, <2>2 DEF connect, TypeOK
<1>10. CASE Connects
  <2>1. WaitingOK'
    BY <1>0, <1>10 DEF Connects, WaitingOK
  <2> QED BY <1>10, <2>1, NewConnectionType DEF Connects
<1>11. CASE ConnectFails
  <2>1. connect_retry_timer' \in BOOLEAN
    BY <1>11 DEF ConnectFails
  <2>2. Returns("TcpConnectionFails")
        /\ UNCHANGED <<peer_state, fsm_state, connection, tracked_connection,
                       allowed_to_active_connect, waiting_admin_events>>
    BY <1>11 DEF ConnectFails
  <2> QED BY <2>1, <2>2, ReturnsType DEF TypeOK, Reasons
<1>12. CASE ConnectRetryTimerExpires
  <2>1. allowed_to_active_connect' \in BOOLEAN
    BY <1>12 DEF ConnectRetryTimerExpires
  <2>2. Returns("ConnectRetryTimerExpires") /\ connection' = NoConnection
        /\ UNCHANGED <<peer_state, tracked_connection, connect_retry_timer, waiting_admin_events>>
    BY <1>12 DEF ConnectRetryTimerExpires
  <2>3. fsm_state' \in FsmStates
    BY <1>12 DEF ConnectRetryTimerExpires, TypeOK, FsmStates
  <2> QED BY <2>1, <2>2, <2>3, ReturnsType DEF TypeOK, Reasons
<1>13. CASE MainEvent(EventTypes)
  <2>1. PICK main \in Connections, event \in PolledEvents :
          /\ event.type \in EventTypes
          /\ \/ handle_connection_event(main, event)
             \/ \E check : Collision(check, main, tracked_connection)
             \/ CollisionFails
    BY <1>13, MainEventCases
  <2>2. CASE handle_connection_event(main, event)
    BY <2>1, <2>2, ConnectionEventType
  <2>3. CASE \E check : Collision(check, main, tracked_connection)
    BY <1>0, <2>1, <2>3, CollisionType
  <2>4. CASE CollisionFails
    <3>1. WaitingOK'
      BY <1>0, <2>4 DEF WaitingOK, CollisionFails
    <3> QED BY <2>4, <3>1, FailsType DEF Reasons, CollisionFails
  <2> QED BY <2>1, <2>2, <2>3, <2>4
<1>14. CASE TrackedEvent
  <2>1. PICK conn \in Connections :
          \/ tracked_connection' = conn /\ TrackedOnly
          \/ \E check : Collision(check, connection, conn)
          \/ CollisionFails
    BY <1>14, TrackedEventCases
  <2>2. CASE tracked_connection' = conn /\ TrackedOnly
    BY <2>1, <2>2 DEF TypeOK, TrackedOnly
  <2>3. CASE \E check : Collision(check, connection, conn)
    BY <1>0, <2>1, <2>3, CollisionType
  <2>4. CASE CollisionFails
    <3>1. WaitingOK'
      BY <1>0, <2>4 DEF WaitingOK, CollisionFails
    <3> QED BY <2>4, <3>1, FailsType DEF Reasons, CollisionFails
  <2> QED BY <2>1, <2>2, <2>3, <2>4
<1>15. CASE UNCHANGED vars
  BY <1>15 DEF TypeOK, vars, run_locals
<1> QED BY <1>1, <1>2, <1>3, <1>4, <1>5, <1>6, <1>7, <1>8, <1>9, <1>10, <1>11, <1>12, <1>13,
           <1>14, <1>15 DEF Next, TaskEnded

(* Type correctness of the peer and its two connections, for every set of   *)
(* identifiers and hold times, every schedule of administrative events and  *)
(* every option of the speaker (peer.rs).                                   *)
THEOREM PeerTypeCorrect == Spec => []TypeOK
<1>1. Init => TypeOK
  BY InitTypeOK
<1>2. TypeOK /\ [Next]_vars => TypeOK'
  BY NextTypeOK
<1> QED BY <1>1, <1>2, PTL DEF Spec

---------------------------------------------------------------------------
(* What a stopped peer keeps, and the two connections. A peer that is down  *)
(* is Idle as well, which is why connect is not enabled; and while its      *)
(* shutdown waits for a write, it is already down.                          *)

Quiet ==
  /\ connection = NoConnection /\ tracked_connection = NoConnection
  /\ connect_retry_timer = FALSE /\ connecting = FALSE /\ fsm_state = "Idle"

DownInv ==
  /\ peer_state = "AdminDown" /\ stopping = "None" => Quiet
  /\ stopping \in Stops =>
       peer_state = "AdminDown" /\ fsm_state = "Idle" /\ connect_retry_timer = FALSE

Safe == TrackedStaysBehind /\ NoInvalidTransition /\ DownInv

(* A peer that has something to do was started, or its last shutdown was    *)
(* dropped; either stays true.                                              *)
Busy == (peer_state = "AdminUp" \/ stopping = "Dropped") /\ stopping \notin Stops

LEMMA BusyStays ==
  ASSUME Busy, peer_state' = peer_state, stopping' = stopping
  PROVE  DownInv'
BY DEF Busy, DownInv, Stops

LEMMA SelectsBusy ==
  ASSUME TypeOK, DownInv, Selects, ~Quiet
  PROVE  Busy
BY DEF TypeOK, DownInv, Selects, Busy

LEMMA FailsSafe ==
  ASSUME NEW why \in Reasons \ {"invalid"}, Fails(why)
  PROVE  Safe'
<1>1. connect_retry_timer' = FALSE
  BY DEF Fails
<1>2. connecting' = FALSE
  BY DEF Fails, RunDropped
<1>3. task' # "invalid" /\ stopping' = "None" /\ connection' = NoConnection
      /\ tracked_connection' = NoConnection /\ fsm_state' = "Idle"
  BY DEF Fails, Reasons
<1> QED BY <1>1, <1>2, <1>3, NoConnectionIsNone
        DEF Safe, TrackedStaysBehind, NoInvalidTransition, DownInv, Quiet, Stops

LEMMA ReturnsKeeps ==
  ASSUME NEW event, event \notin Stops, Returns(event)
  PROVE  stopping' = stopping /\ task' = task
BY DEF Returns

LEMMA NotStops ==
  /\ \A event \in EventTypes : event \notin Stops
  /\ \A event \in Starts : event \notin Stops
  /\ "TcpConnectionRequestAcked" \notin Stops /\ "TcpConnectionConfirmed" \notin Stops
  /\ "TcpConnectionFails" \notin Stops /\ "ConnectRetryTimerExpires" \notin Stops
  /\ "OpenCollisionDump" \notin Stops
BY DEF EventTypes, Received, Stops, Starts

LEMMA NewConnectionSafe ==
  ASSUME TypeOK, Safe, Busy, NEW event \in {"TcpConnectionRequestAcked", "TcpConnectionConfirmed"},
         NewConnectionHandled(event)
  PROVE  Safe'
<1>1. PICK o \in handle_event(NewConnection, Event(event)) :
    \/ o.end = "failed" /\ Fails("write")
    \/ /\ o.end = "blocked" /\ Waits
       /\ UNCHANGED <<peer_state, tracked_connection>>
    \/ /\ o.end = "done"
       /\ add_connection(o.conn)
       /\ Returns(event)
       /\ UNCHANGED peer_state
  BY DEF NewConnectionHandled
<1>2. o.conn.state \in {"Connected", "OpenSent"}
  BY CreationOutcome
<1>3. CASE o.end = "failed" /\ Fails("write")
  BY <1>3, FailsSafe DEF Reasons
<1>4. CASE o.end = "blocked" /\ Waits /\ UNCHANGED <<peer_state, tracked_connection>>
  <2>1. DownInv'
    BY <1>4, BusyStays DEF Waits
  <2> QED BY <1>4, <2>1 DEF Safe, TrackedStaysBehind, NoInvalidTransition, Waits
<1>5. CASE add_connection(o.conn) /\ Returns(event) /\ UNCHANGED peer_state
  <2>1. stopping' = stopping /\ task' = task
    BY <1>5, NotStops, ReturnsKeeps
  <2>2. DownInv'
    BY <1>5, <2>1, BusyStays
  <2>3. tracked_connection' \in {tracked_connection, o.conn}
    BY <1>5 DEF add_connection
  <2> QED BY <1>2, <2>1, <2>2, <2>3 DEF Safe, TrackedStaysBehind, NoInvalidTransition
<1> QED BY <1>1, <1>3, <1>4, <1>5

LEMMA CollisionSafe ==
  ASSUME TypeOK, Safe, Busy, NEW check, NEW main, NEW tracked,
         Collision(check, main, tracked), tracked.state # "Established"
  PROVE  Safe'
<1>1. peer_state' = peer_state
  BY DEF Collision
<1>2. tracked_connection' \in {tracked, NoConnection}
  BY DEF Collision
<1>3. stopping' = stopping /\ task' = task
  <2>1. CASE Returns("OpenCollisionDump")
    BY <2>1, NotStops, ReturnsKeeps
  <2>2. CASE Waits
    BY <2>2 DEF Waits
  <2>3. CASE UNCHANGED <<stopping, task>>
    BY <2>3
  <2> QED BY <2>1, <2>2, <2>3 DEF Collision
<1>4. DownInv'
  BY <1>1, <1>3, BusyStays
<1> QED BY <1>2, <1>3, <1>4, NoConnectionIsNone DEF Safe, TrackedStaysBehind, NoInvalidTransition

LEMMA ConnectionEventSafe ==
  ASSUME TypeOK, Safe, Busy, NEW main \in Connections, NEW event, event.type \in EventTypes,
         handle_connection_event(main, event)
  PROVE  Safe'
<1>1. PICK o \in handle_event(main, event) :
       \/ o.end = "failed" /\ Fails("write")
       \/ Waits /\ UNCHANGED <<peer_state, tracked_connection>>
       \/ /\ o.end = "done" /\ event.type \notin Accepted(main.state, o.conn.state)
          /\ Fails(IF main.state = "Terminate" THEN "terminated" ELSE "invalid")
       \/ Returns(event.type) /\ UNCHANGED <<peer_state, tracked_connection>>
  BY DEF handle_connection_event
<1>2. o.end = "done" /\ main.state # "Terminate" => event.type \in Accepted(main.state, o.conn.state)
  BY HandleOutcome
<1>3. CASE o.end = "failed" /\ Fails("write")
  BY <1>3, FailsSafe DEF Reasons
<1>4. CASE Waits /\ UNCHANGED <<peer_state, tracked_connection>>
  <2>1. DownInv'
    BY <1>4, BusyStays DEF Waits
  <2> QED BY <1>4, <2>1 DEF Safe, TrackedStaysBehind, NoInvalidTransition, Waits
<1>5. CASE /\ o.end = "done" /\ event.type \notin Accepted(main.state, o.conn.state)
           /\ Fails(IF main.state = "Terminate" THEN "terminated" ELSE "invalid")
  <2>1. Fails("terminated")
    BY <1>2, <1>5
  <2> QED BY <2>1, FailsSafe DEF Reasons
<1>6. CASE Returns(event.type) /\ UNCHANGED <<peer_state, tracked_connection>>
  <2>1. stopping' = stopping /\ task' = task
    BY <1>6, NotStops, ReturnsKeeps
  <2>2. DownInv'
    BY <1>6, <2>1, BusyStays
  <2> QED BY <1>6, <2>1, <2>2 DEF Safe, TrackedStaysBehind, NoInvalidTransition
<1> QED BY <1>1, <1>3, <1>4, <1>5, <1>6

LEMMA InitSafe == Init => Safe
<1> SUFFICES ASSUME Init PROVE Safe
  OBVIOUS
<1>1. Quiet
  <2>1. connect_retry_timer = FALSE
    BY DEF Init
  <2>2. connecting = FALSE
    BY DEF Init
  <2> QED BY <2>1, <2>2 DEF Init, Quiet
<1>2. tracked_connection = NoConnection /\ task = "running" /\ stopping = "None"
  BY DEF Init
<1> QED BY <1>1, <1>2, NoConnectionIsNone
        DEF Safe, TrackedStaysBehind, NoInvalidTransition, DownInv, Stops

LEMMA NextSafe == TypeOK /\ Safe /\ [Next]_vars => Safe'
<1> SUFFICES ASSUME TypeOK, Safe, [Next]_vars PROVE Safe'
  OBVIOUS
<1>0. TrackedStaysBehind /\ NoInvalidTransition /\ DownInv
  BY DEF Safe
<1> USE DEF TrackedStaysBehind, NoInvalidTransition
<1>1. ASSUME NEW event \in AdminEvents, handle_peer_event(event) PROVE Safe'
  <2>1. UNCHANGED <<peer_state, fsm_state, connection, tracked_connection, task>>
    BY <1>1 DEF handle_peer_event
  <2>2. connect_retry_timer' = connect_retry_timer
    BY <1>1 DEF handle_peer_event
  <2>3. connecting' = FALSE
    BY <1>1 DEF handle_peer_event, RunDropped
  <2>4. stopping' = IF stopping \in Stops THEN "Dropped" ELSE stopping
    BY <1>1 DEF handle_peer_event
  <2>5. DownInv'
    BY <1>0, <2>1, <2>2, <2>3, <2>4 DEF DownInv, Quiet, Stops
  <2> QED BY <1>0, <2>1, <2>5 DEF Safe
<1>2. CASE start
  <2>1. Newest \notin Stops /\ stopping \notin Stops
    BY <1>2, NotStops DEF start, Pops
  <2>2. stopping' = stopping /\ task' = task
    BY <1>2, <2>1, ReturnsKeeps DEF start
  <2>3. peer_state' = "AdminUp" /\ tracked_connection' = tracked_connection
    BY <1>2 DEF start
  <2> QED BY <1>0, <2>1, <2>2, <2>3 DEF Safe, DownInv
<1>3. CASE StartIgnored
  <2>1. UNCHANGED <<peer_state, fsm_state, connection, tracked_connection, stopping, task>>
        /\ stopping \notin Stops
    BY <1>3 DEF StartIgnored, Pops
  <2>2. UNCHANGED <<connect_retry_timer, connecting>>
    BY <1>3 DEF StartIgnored
  <2> QED BY <1>0, <2>1, <2>2 DEF Safe, DownInv, Quiet
<1>4. CASE shutdown
  <2>1. connect_retry_timer' = FALSE
    BY <1>4 DEF shutdown
  <2>2. connecting' = FALSE
    BY <1>4 DEF shutdown, Returns, RunDropped
  <2>3. fsm_state' = "Idle" /\ connection' = NoConnection /\ tracked_connection' = NoConnection
    BY <1>4 DEF shutdown
  <2>4. stopping' = "None" /\ task' = task
    BY <1>4 DEF shutdown, Returns, Pops
  <2> QED BY <1>0, <2>1, <2>2, <2>3, <2>4, NoConnectionIsNone DEF Safe, DownInv, Quiet, Stops
<1>5. CASE ShutdownBlocks
  <2>1. connect_retry_timer' = FALSE
    BY <1>5 DEF ShutdownBlocks
  <2>2. peer_state' = "AdminDown" /\ fsm_state' = "Idle" /\ stopping' \in Stops
        /\ tracked_connection' = tracked_connection /\ task' = task
    BY <1>5 DEF ShutdownBlocks, Pops
  <2> QED BY <1>0, <2>1, <2>2 DEF Safe, DownInv, Stops
<1>6. CASE ShutdownResumes
  <2>1. stopping \in Stops /\ stopping' = "None" /\ task' = task
    BY <1>6 DEF ShutdownResumes, Returns
  <2>2. connection' = NoConnection /\ tracked_connection' = NoConnection /\ fsm_state' = fsm_state
    BY <1>6 DEF ShutdownResumes
  <2>3. connect_retry_timer' = connect_retry_timer
    BY <1>6 DEF ShutdownResumes
  <2>4. connecting' = FALSE
    BY <1>6 DEF ShutdownResumes, Returns, RunDropped
  <2> QED BY <1>0, <2>1, <2>2, <2>3, <2>4, NoConnectionIsNone DEF Safe, DownInv, Quiet, Stops
<1>7. CASE accept_connection
  <2>1. peer_state # "AdminDown" /\ stopping \notin Stops
    BY <1>7 DEF accept_connection, Pops, Rejects
  <2>2. Busy
    BY <2>1 DEF Busy, TypeOK
  <2> QED BY <1>7, <2>2, NewConnectionSafe DEF accept_connection
<1>8. CASE ConnectionRejected
  <2>1. UNCHANGED <<peer_state, fsm_state, connection, tracked_connection, stopping, task>>
        /\ stopping \notin Stops
    BY <1>8 DEF ConnectionRejected, Pops
  <2>2. UNCHANGED <<connect_retry_timer, connecting>>
    BY <1>8 DEF ConnectionRejected
  <2> QED BY <1>0, <2>1, <2>2 DEF Safe, DownInv, Quiet
<1>9. CASE connect
  <2>1. ~Quiet /\ Selects
    BY <1>9 DEF connect, Quiet
  <2>2. Busy
    BY <1>0, <2>1, SelectsBusy
  <2>3. UNCHANGED <<peer_state, tracked_connection, stopping, task>>
    BY <1>9 DEF connect
  <2>4. DownInv'
    BY <2>2, <2>3, BusyStays
  <2> QED BY <1>0, <2>3, <2>4 DEF Safe
<1>10. CASE Connects
  <2>1. ~Quiet /\ Selects
    BY <1>10 DEF Connects, Quiet
  <2>2. Busy
    BY <1>0, <2>1, SelectsBusy
  <2> QED BY <1>10, <2>2, NewConnectionSafe DEF Connects
<1>11. CASE ConnectFails
  <2>1. ~Quiet /\ Selects
    BY <1>11 DEF ConnectFails, Quiet
  <2>2. Busy
    BY <1>0, <2>1, SelectsBusy
  <2>3. UNCHANGED <<peer_state, tracked_connection>> /\ Returns("TcpConnectionFails")
    BY <1>11 DEF ConnectFails
  <2>4. stopping' = stopping /\ task' = task
    BY <2>3, NotStops, ReturnsKeeps
  <2>5. DownInv'
    BY <2>2, <2>3, <2>4, BusyStays
  <2> QED BY <1>0, <2>3, <2>4, <2>5 DEF Safe
<1>12. CASE ConnectRetryTimerExpires
  <2>1. ~Quiet /\ Selects
    BY <1>12 DEF ConnectRetryTimerExpires, Quiet
  <2>2. Busy
    BY <1>0, <2>1, SelectsBusy
  <2>3. UNCHANGED <<peer_state, tracked_connection>> /\ Returns("ConnectRetryTimerExpires")
    BY <1>12 DEF ConnectRetryTimerExpires
  <2>4. stopping' = stopping /\ task' = task
    BY <2>3, NotStops, ReturnsKeeps
  <2>5. DownInv'
    BY <2>2, <2>3, <2>4, BusyStays
  <2> QED BY <1>0, <2>3, <2>4, <2>5 DEF Safe
<1>13. CASE MainEvent(EventTypes)
  <2>1. Selects /\ connection \in Connections
    BY <1>13, MainEventCases
  <2>2. Busy
    BY <1>0, <2>1, SelectsBusy, NoConnectionIsNone DEF Quiet
  <2>3. PICK main \in Connections, event \in PolledEvents :
          /\ event.type \in EventTypes
          /\ \/ handle_connection_event(main, event)
             \/ \E check : Collision(check, main, tracked_connection)
             \/ CollisionFails
    BY <1>13, MainEventCases
  <2>4. CASE handle_connection_event(main, event)
    BY <2>2, <2>3, <2>4, ConnectionEventSafe
  <2>5. CASE \E check : Collision(check, main, tracked_connection)
    BY <1>0, <2>2, <2>5, CollisionSafe
  <2>6. CASE CollisionFails
    BY <2>6, FailsSafe DEF Reasons, CollisionFails
  <2> QED BY <2>3, <2>4, <2>5, <2>6
<1>14. CASE TrackedEvent
  <2>1. Selects /\ tracked_connection \in Connections
    BY <1>14, TrackedEventCases
  <2>2. Busy
    BY <1>0, <2>1, SelectsBusy, NoConnectionIsNone DEF Quiet
  <2>3. PICK conn \in Connections :
          /\ conn.state # "Established"
          /\ \/ tracked_connection' = conn /\ TrackedOnly
             \/ \E check : Collision(check, connection, conn)
             \/ CollisionFails
    BY <1>0, <1>14, TrackedEventCases
  <2>4. CASE tracked_connection' = conn /\ TrackedOnly
    <3>1. UNCHANGED <<peer_state, stopping, task>>
      BY <2>4 DEF TrackedOnly
    <3>2. DownInv'
      BY <2>2, <3>1, BusyStays
    <3> QED BY <1>0, <2>3, <2>4, <3>1, <3>2 DEF Safe
  <2>5. CASE \E check : Collision(check, connection, conn)
    BY <2>2, <2>3, <2>5, CollisionSafe
  <2>6. CASE CollisionFails
    BY <2>6, FailsSafe DEF Reasons, CollisionFails
  <2> QED BY <2>3, <2>4, <2>5, <2>6
<1>15. CASE UNCHANGED vars
  <2>1. UNCHANGED <<peer_state, fsm_state, connection, tracked_connection, stopping, task>>
    BY <1>15 DEF vars, run_locals
  <2>2. UNCHANGED <<connect_retry_timer, connecting>>
    BY <1>15 DEF vars, run_locals
  <2> QED BY <1>0, <2>1, <2>2 DEF Safe, DownInv, Quiet
<1> QED BY <1>1, <1>2, <1>3, <1>4, <1>5, <1>6, <1>7, <1>8, <1>9, <1>10, <1>11, <1>12, <1>13,
           <1>14, <1>15 DEF Next, TaskEnded

LEMMA SafeAlways == Spec => [](TypeOK /\ Safe)
<1>1. Init => TypeOK /\ Safe
  BY InitTypeOK, InitSafe
<1>2. (TypeOK /\ Safe) /\ [Next]_vars => (TypeOK /\ Safe)'
  BY NextTypeOK, NextSafe
<1> QED BY <1>1, <1>2, PTL DEF Spec

(* A peer that was shut down has no connection, no timer and no attempt to  *)
(* connect until it is started again (peer.rs, shutdown), whatever events   *)
(* arrive, in whatever order, while it is stopped.                          *)
THEOREM StoppedPeerIsQuiet == Spec => []DownMeansDown
<1>1. Safe => DownMeansDown
  BY NoConnectionIsNone DEF Safe, DownInv, Quiet, DownMeansDown, present
<1> QED BY <1>1, SafeAlways, PTL

(* handle_connection_event accepts every transition the handlers of         *)
(* connection.rs make on a main connection that is alive: its table has no  *)
(* gap. (The same error for a handler dropped in its write, or for a        *)
(* tracked connection that wins a collision before its OPEN is sent, is not *)
(* excluded.)                                                               *)
THEOREM TransitionsAreAccepted == Spec => []NoInvalidTransition
BY SafeAlways, PTL DEF Safe

(* The tracked connection never becomes a second session (peer.rs,          *)
(* next_connection_event polls it no further than OpenConfirm).             *)
THEOREM OneSessionOnly == Spec => []TrackedStaysBehind
BY SafeAlways, PTL DEF Safe

---------------------------------------------------------------------------
(* The FSM state follows the main connection, for a peer that is started    *)
(* once and never stopped, as erezd does. A second start would set the      *)
(* retry timer under a connection that is still waiting in Connected.       *)

StartedOnce ==
  /\ AdminEvents \subseteq {"TcpConnectionConfirmed"}
  /\ \E event \in Starts : FirstEvents = <<event>>

(* The start is at the bottom of the stack, and is taken while the peer is  *)
(* down; no stop is ever waiting.                                           *)
OnlyStart ==
  /\ stopping = "None"
  /\ \A i \in 1..Len(waiting_admin_events) :
       \/ waiting_admin_events[i] = "TcpConnectionConfirmed"
       \/ i = 1 /\ waiting_admin_events[i] \in Starts /\ peer_state = "AdminDown"

(* The retry timer runs only while there is no main connection: its expiry  *)
(* drops none.                                                              *)
TimerOrConnection == connection = NoConnection \/ connect_retry_timer = FALSE

OnceInv == OnlyStart /\ TimerOrConnection /\ FsmFollowsConnection

LEMMA FailsOnce ==
  ASSUME TypeOK, OnlyStart, NEW why, Fails(why), UNCHANGED waiting_admin_events
  PROVE  OnceInv'
<1>1. stopping' = "None" /\ connection' = NoConnection /\ fsm_state' = "Idle"
      /\ peer_state' = "AdminDown" /\ waiting_admin_events' = waiting_admin_events
  BY DEF Fails
<1> QED BY <1>1, NoConnectionIsNone DEF OnceInv, OnlyStart, TimerOrConnection, FsmFollowsConnection

(* A popped event leaves the others where they were. *)
LEMMA PopsOnce ==
  ASSUME TypeOK, OnlyStart, NEW events, Pops(events)
  PROVE  /\ Newest \notin Stops
         /\ Newest \in Starts => Len(waiting_admin_events') = 0 /\ peer_state = "AdminDown"
         /\ peer_state' = peer_state /\ stopping' = "None" => OnlyStart'
<1> DEFINE w == waiting_admin_events
<1>1. /\ Len(w) \in Nat \ {0} /\ Len(w') = Len(w) - 1
      /\ \A i \in 1..Len(w') : w'[i] = w[i]
  BY PopsType
<1>2. \/ Newest = "TcpConnectionConfirmed"
      \/ Len(w) = 1 /\ Newest \in Starts /\ peer_state = "AdminDown"
  BY <1>1 DEF OnlyStart, Newest
<1>3. Newest \in Starts => Len(w') = 0 /\ peer_state = "AdminDown"
  BY <1>1, <1>2 DEF Starts
<1>4. Newest \notin Stops
  BY <1>2 DEF Starts, Stops
<1>5. \A i \in 1..Len(w') : i \in 1..Len(w)
  BY <1>1
<1>6. ASSUME peer_state' = peer_state, stopping' = "None" PROVE OnlyStart'
  BY <1>1, <1>5, <1>6 DEF OnlyStart
<1> QED BY <1>3, <1>4, <1>6

(* run returns: no stop was handled, and no handler was waiting. *)
LEMMA ReturnsOnce ==
  ASSUME NEW event, event \notin Stops, stopping = "None", writing # "Waits", Returns(event)
  PROVE  stopping' = "None" /\ writing' = writing
BY DEF Returns, RunDropped

LEMMA NewConnectionOnce ==
  ASSUME TypeOK, TimerOrConnection, FsmFollowsConnection, OnlyStart, writing # "Waits",
         NEW event \in {"TcpConnectionRequestAcked", "TcpConnectionConfirmed"},
         NewConnectionHandled(event), event \notin Stops
  PROVE  TimerOrConnection' /\ FsmFollowsConnection'
<1>1. PICK o \in handle_event(NewConnection, Event(event)) :
    \/ o.end = "failed" /\ Fails("write")
    \/ /\ o.end = "blocked" /\ Waits
       /\ connect_retry_timer' = FALSE
       /\ UNCHANGED <<fsm_state, connection>>
    \/ /\ o.end = "done"
       /\ connect_retry_timer' = FALSE
       /\ add_connection(o.conn)
       /\ Returns(event)
  BY DEF NewConnectionHandled
<1>2. o.conn \in Connections /\ o.conn.state \in {"Connected", "OpenSent"}
  BY CreationOutcome
<1>3. CASE Fails("write")
  <2>1. connection' = NoConnection /\ fsm_state' = "Idle"
    BY <1>3 DEF Fails
  <2> QED BY <2>1, NoConnectionIsNone DEF TimerOrConnection, FsmFollowsConnection
<1>4. CASE Waits /\ connect_retry_timer' = FALSE /\ UNCHANGED <<fsm_state, connection>>
  <2>1. TimerOrConnection'
    BY <1>4 DEF TimerOrConnection
  <2>2. writing' = "Waits"
    BY <1>4 DEF Waits
  <2>3. fsm_state' = fsm_state /\ connection' = connection
    BY <1>4
  <2> QED BY <2>1, <2>2, <2>3 DEF FsmFollowsConnection
<1>5. CASE connect_retry_timer' = FALSE /\ add_connection(o.conn) /\ Returns(event)
  <2>1. TimerOrConnection'
    BY <1>5 DEF TimerOrConnection
  <2>2. writing' = writing
    BY <1>5, ReturnsOnce DEF OnlyStart
  <2>3. CASE present(connection)
    <3>1. UNCHANGED <<connection, fsm_state>>
      BY <1>5, <2>3 DEF add_connection
    <3> QED BY <2>1, <2>2, <3>1 DEF FsmFollowsConnection
  <2>4. CASE ~present(connection)
    <3>1. connection' = o.conn /\ fsm_state' = FsmStateOf(o.conn.state)
      BY <1>5, <2>4 DEF add_connection
    <3>2. connection.state = "None"
      BY <2>4 DEF present
    <3> QED BY <1>2, <2>1, <2>2, <3>1, <3>2 DEF FsmFollowsConnection, FsmStateOf
  <2> QED BY <2>3, <2>4
<1> QED BY <1>1, <1>3, <1>4, <1>5

LEMMA CollisionOnce ==
  ASSUME TypeOK, OnceInv, writing # "Waits",
         NEW check, NEW main \in Connections, NEW tracked \in Connections,
         connection \in Connections, main.state = connection.state,
         tracked.state # "Established", Collision(check, main, tracked)
  PROVE  OnceInv'
<1>1. peer_state' = peer_state /\ waiting_admin_events' = waiting_admin_events
  BY DEF Collision
<1>2. connect_retry_timer' = FALSE
  BY NoConnectionIsNone DEF Collision, OnceInv, TimerOrConnection
<1>3. stopping' = "None" /\ writing' \in {writing, "Waits"}
  <2>1. CASE Returns("OpenCollisionDump")
    BY <2>1, NotStops, ReturnsOnce DEF OnceInv, OnlyStart
  <2>2. CASE Waits
    BY <2>2 DEF Waits, OnceInv, OnlyStart
  <2>3. CASE UNCHANGED <<stopping, writing>>
    BY <2>3 DEF OnceInv, OnlyStart
  <2> QED BY <2>1, <2>2, <2>3 DEF Collision
<1>4. OnlyStart'
  BY <1>1, <1>3 DEF OnceInv, OnlyStart
<1>5. \/ connection' = tracked /\ fsm_state' = tracked.state
      \/ connection' = main /\ fsm_state' = fsm_state
      \/ connection' = NoConnection /\ fsm_state' = tracked.state /\ writing' = "Waits"
  BY DEF Collision, Waits
<1>6. FsmFollowsConnection'
  <2>1. CASE connection' = tracked /\ fsm_state' = tracked.state
    BY <2>1 DEF FsmFollowsConnection
  <2>2. CASE connection' = main /\ fsm_state' = fsm_state
    BY <1>3, <2>2 DEF OnceInv, FsmFollowsConnection
  <2>3. CASE connection' = NoConnection /\ fsm_state' = tracked.state /\ writing' = "Waits"
    BY <2>3, NoConnectionIsNone DEF FsmFollowsConnection
  <2> QED BY <1>5, <2>1, <2>2, <2>3
<1> QED BY <1>2, <1>4, <1>6 DEF OnceInv, TimerOrConnection

LEMMA ConnectionEventOnce ==
  ASSUME TypeOK, OnceInv, writing # "Waits",
         NEW main \in Connections, NEW event, event.type \in EventTypes,
         connection \in Connections, main.state = connection.state,
         handle_connection_event(main, event)
  PROVE  OnceInv'
<1>0. connect_retry_timer = FALSE
  BY NoConnectionIsNone DEF OnceInv, TimerOrConnection
<1>1. PICK o \in handle_event(main, event) :
       \/ Fails("write")
       \/ /\ o.end = "blocked" /\ Waits /\ connection' = o.conn
          /\ UNCHANGED <<peer_state, fsm_state, connect_retry_timer>>
       \/ \E why : Fails(why)
       \/ /\ event.type \in Accepted(main.state, o.conn.state)
          /\ IF o.conn.state = "Terminate"
             THEN /\ connection' = NoConnection
                  /\ fsm_state' \in {"Active", "Idle"}
             ELSE /\ connection' = o.conn
                  /\ connect_retry_timer' =
                       (connect_retry_timer
                          /\ (o.conn.state = "OpenConfirm" => main.state = "OpenConfirm"))
                  /\ fsm_state' = IF o.conn.state = main.state THEN fsm_state
                                                               ELSE o.conn.state
          /\ Returns(event.type)
          /\ UNCHANGED peer_state
  BY DEF handle_connection_event
<1>2. waiting_admin_events' = waiting_admin_events
  BY DEF handle_connection_event
<1>3. /\ o.conn \in Connections
      /\ o.end # "done" => \/ o.conn.state = main.state
                           \/ main.state = "OpenConfirm" /\ o.conn.state = "Terminate"
  BY HandleOutcome
<1>4. CASE \E why : Fails(why)
  BY <1>2, <1>4, FailsOnce DEF OnceInv
<1>5. CASE /\ o.end = "blocked" /\ Waits /\ connection' = o.conn
           /\ UNCHANGED <<peer_state, fsm_state, connect_retry_timer>>
  <2>1. TimerOrConnection'
    BY <1>0, <1>5 DEF TimerOrConnection
  <2>2. writing' = "Waits" /\ stopping' = "None"
    BY <1>5 DEF Waits, OnceInv, OnlyStart
  <2>3. OnlyStart'
    BY <1>2, <1>5, <2>2 DEF OnceInv, OnlyStart
  <2>4. fsm_state' = fsm_state /\ connection' = o.conn
    BY <1>5
  <2>5. FsmFollowsConnection'
    BY <1>3, <1>5, <2>2, <2>4 DEF FsmFollowsConnection, OnceInv
  <2> QED BY <2>1, <2>3, <2>5 DEF OnceInv
<1>6. CASE /\ event.type \in Accepted(main.state, o.conn.state)
           /\ IF o.conn.state = "Terminate"
              THEN /\ connection' = NoConnection
                   /\ fsm_state' \in {"Active", "Idle"}
              ELSE /\ connection' = o.conn
                   /\ connect_retry_timer' =
                        (connect_retry_timer
                           /\ (o.conn.state = "OpenConfirm" => main.state = "OpenConfirm"))
                   /\ fsm_state' = IF o.conn.state = main.state THEN fsm_state
                                                                ELSE o.conn.state
           /\ Returns(event.type)
           /\ UNCHANGED peer_state
  <2>1. TimerOrConnection'
    BY <1>0, <1>6 DEF TimerOrConnection
  <2>2. writing' = writing /\ stopping' = "None"
    BY <1>6, NotStops, ReturnsOnce DEF OnceInv, OnlyStart
  <2>3. OnlyStart'
    BY <1>2, <1>6, <2>2 DEF OnceInv, OnlyStart
  <2>4. FsmFollowsConnection'
    <3>1. CASE o.conn.state = "Terminate"
      <4>1. connection' = NoConnection /\ fsm_state' \in {"Active", "Idle"}
        BY <1>6, <3>1
      <4> QED BY <4>1, NoConnectionIsNone DEF FsmFollowsConnection
    <3>2. CASE o.conn.state # "Terminate" /\ o.conn.state = main.state
      <4>1. connection'.state = connection.state /\ fsm_state' = fsm_state
        BY <1>6, <3>2
      <4> QED BY <2>2, <4>1 DEF FsmFollowsConnection, OnceInv
    <3>3. CASE o.conn.state # "Terminate" /\ o.conn.state # main.state
      <4>1. connection'.state = o.conn.state /\ fsm_state' = o.conn.state
        BY <1>6, <3>3
      <4> QED BY <4>1 DEF FsmFollowsConnection
    <3> QED BY <3>1, <3>2, <3>3
  <2> QED BY <2>1, <2>3, <2>4 DEF OnceInv
<1> QED BY <1>1, <1>4, <1>5, <1>6

LEMMA InitOnce ==
  ASSUME StartedOnce PROVE Init => OnceInv
<1> SUFFICES ASSUME Init PROVE OnceInv
  OBVIOUS
<1>1. PICK event \in Starts : waiting_admin_events = <<event>>
  BY DEF Init, StartedOnce
<1>2. Len(waiting_admin_events) = 1 /\ waiting_admin_events[1] \in Starts
  BY <1>1
<1>3. connection = NoConnection /\ fsm_state = "Idle" /\ stopping = "None" /\ peer_state = "AdminDown"
  BY DEF Init
<1>4. OnlyStart
  BY <1>2, <1>3 DEF OnlyStart
<1> QED BY <1>3, <1>4, NoConnectionIsNone DEF OnceInv, TimerOrConnection, FsmFollowsConnection

LEMMA NextOnce ==
  ASSUME StartedOnce, TypeOK, Safe, OnceInv, [Next]_vars
  PROVE  OnceInv'
<1>0. /\ OnlyStart /\ TimerOrConnection /\ FsmFollowsConnection
      /\ DownInv /\ TrackedStaysBehind /\ stopping = "None" /\ stopping \notin Stops
  BY DEF OnceInv, Safe, OnlyStart, Stops
(* The steps that leave the connection and the FSM state alone. *)
<1>a. ASSUME connection' = connection, fsm_state' = fsm_state,
             connect_retry_timer' \in {FALSE, connect_retry_timer},
             writing' = writing \/ writing' = "Dropped", OnlyStart'
      PROVE  OnceInv'
  <2>1. TimerOrConnection'
    <3>1. CASE connection = NoConnection
      BY <1>a, <3>1 DEF TimerOrConnection
    <3>2. CASE connect_retry_timer = FALSE
      BY <1>a, <3>2 DEF TimerOrConnection
    <3> QED BY <1>0, <3>1, <3>2 DEF TimerOrConnection
  <2>2. FsmFollowsConnection'
    BY <1>0, <1>a DEF FsmFollowsConnection
  <2> QED BY <1>a, <2>1, <2>2 DEF OnceInv
<1>1. ASSUME NEW event \in AdminEvents, handle_peer_event(event) PROVE OnceInv'
  <2>1. UNCHANGED <<peer_state, connection, fsm_state>> /\ stopping' = "None"
        /\ (writing' = writing \/ writing' = "Dropped")
    BY <1>0, <1>1 DEF handle_peer_event, RunDropped
  <2>2. connect_retry_timer' = connect_retry_timer
    BY <1>1 DEF handle_peer_event
  <2> DEFINE w == waiting_admin_events
  <2>3. w' = Append(w, event) /\ event = "TcpConnectionConfirmed" /\ event \in PeerAdminEvents
    BY <1>1 DEF handle_peer_event, StartedOnce, PeerAdminEvents
  <2>4. w \in Seq(PeerAdminEvents) /\ Len(w) \in Nat
    BY LenProperties DEF TypeOK
  <2>5. Len(w') = Len(w) + 1 /\ w'[Len(w) + 1] = event
        /\ \A i \in 1..Len(w) : w'[i] = w[i]
    BY <2>3, <2>4, AppendProperties
  <2>6. \A i \in 1..Len(w') : i \in 1..Len(w) \/ i = Len(w) + 1
    BY <2>4, <2>5
  <2>7. OnlyStart'
    BY <1>0, <2>1, <2>3, <2>5, <2>6 DEF OnlyStart
  <2> QED BY <1>a, <2>1, <2>2, <2>7
<1>2. CASE start
  <2>1. Pops(Starts)
    BY <1>2 DEF start
  <2>2. Newest \in Starts
    BY <2>1 DEF Pops
  <2>3. Len(waiting_admin_events') = 0 /\ peer_state = "AdminDown"
    BY <1>0, <2>1, <2>2, PopsOnce
  <2>4. connection = NoConnection
    BY <1>0, <2>3 DEF DownInv, Quiet
  <2>5. connection' = NoConnection /\ fsm_state' \in {"Active", "Connect"}
    BY <1>2, <2>4 DEF start
  <2>6. stopping' = "None"
    BY <1>0, <1>2, <2>2, NotStops, ReturnsKeeps DEF start
  <2>7. OnlyStart'
    BY <2>3, <2>6 DEF OnlyStart
  <2> QED BY <2>5, <2>7, NoConnectionIsNone DEF OnceInv, TimerOrConnection, FsmFollowsConnection
<1>3. CASE StartIgnored
  <2>1. Pops(Starts) /\ UNCHANGED <<peer_state, fsm_state, connection, stopping, writing>>
    BY <1>3 DEF StartIgnored
  <2>2. connect_retry_timer' = connect_retry_timer
    BY <1>3 DEF StartIgnored
  <2>3. OnlyStart'
    BY <1>0, <2>1, PopsOnce
  <2> QED BY <1>a, <2>1, <2>2, <2>3
<1>4. CASE shutdown \/ ShutdownBlocks
  <2>1. Pops(Stops) /\ Newest \in Stops
    BY <1>4 DEF shutdown, ShutdownBlocks, Pops
  <2> QED BY <1>0, <2>1, PopsOnce
<1>5. CASE ShutdownResumes
  BY <1>0, <1>5 DEF ShutdownResumes
<1>6. CASE accept_connection
  <2>1. Pops({"TcpConnectionConfirmed"}) /\ NewConnectionHandled("TcpConnectionConfirmed")
    BY <1>6 DEF accept_connection
  <2>2. writing # "Waits"
    BY <2>1 DEF Pops
  <2>3. TimerOrConnection' /\ FsmFollowsConnection'
    BY <1>0, <2>1, <2>2, NotStops, NewConnectionOnce
  <2>4. \/ \E why : Fails(why)
        \/ peer_state' = peer_state /\ stopping' = stopping
    BY <2>1, NotStops, ReturnsKeeps DEF NewConnectionHandled, Waits
  <2>5. OnlyStart'
    <3>1. CASE peer_state' = peer_state /\ stopping' = stopping
      BY <1>0, <2>1, <3>1, PopsOnce
    <3>2. CASE \E why : Fails(why)
      <4>1. stopping' = "None" /\ peer_state' = "AdminDown"
        BY <3>2 DEF Fails
      <4>2. peer_state = "AdminUp"
        BY <1>6 DEF accept_connection, Rejects, TypeOK
      <4>3. /\ Len(waiting_admin_events) \in Nat \ {0}
            /\ Len(waiting_admin_events') = Len(waiting_admin_events) - 1
            /\ \A i \in 1..Len(waiting_admin_events') : waiting_admin_events'[i] = waiting_admin_events[i]
        BY <2>1, PopsType
      <4>4. \A i \in 1..Len(waiting_admin_events') : i \in 1..Len(waiting_admin_events)
        BY <4>3
      <4> QED BY <1>0, <4>1, <4>2, <4>3, <4>4 DEF OnlyStart
    <3> QED BY <2>4, <3>1, <3>2
  <2> QED BY <2>3, <2>5 DEF OnceInv
<1>7. CASE ConnectionRejected
  <2>1. Pops({"TcpConnectionConfirmed"}) /\ UNCHANGED <<peer_state, fsm_state, connection, stopping, writing>>
    BY <1>7 DEF ConnectionRejected
  <2>2. connect_retry_timer' = connect_retry_timer
    BY <1>7 DEF ConnectionRejected
  <2>3. OnlyStart'
    BY <1>0, <2>1, PopsOnce
  <2> QED BY <1>a, <2>1, <2>2, <2>3
<1>8. CASE connect
  <2>1. UNCHANGED <<peer_state, fsm_state, connection, stopping, writing, waiting_admin_events>>
    BY <1>8 DEF connect
  <2>2. connect_retry_timer' = connect_retry_timer
    BY <1>8 DEF connect
  <2>3. OnlyStart'
    BY <1>0, <2>1 DEF OnlyStart
  <2> QED BY <1>a, <2>1, <2>2, <2>3
<1>9. CASE Connects
  <2>1. NewConnectionHandled("TcpConnectionRequestAcked") /\ writing # "Waits"
        /\ waiting_admin_events' = waiting_admin_events
    BY <1>9 DEF Connects, Selects
  <2>2. TimerOrConnection' /\ FsmFollowsConnection'
    BY <1>0, <2>1, NotStops, NewConnectionOnce
  <2>3. \/ \E why : Fails(why)
        \/ peer_state' = peer_state /\ stopping' = stopping
    BY <2>1, NotStops, ReturnsKeeps DEF NewConnectionHandled, Waits
  <2>4. OnlyStart'
    <3>1. CASE peer_state' = peer_state /\ stopping' = stopping
      BY <1>0, <2>1, <3>1 DEF OnlyStart
    <3>2. CASE \E why : Fails(why)
      BY <1>0, <2>1, <3>2, FailsOnce DEF OnceInv
    <3> QED BY <2>3, <3>1, <3>2
  <2> QED BY <2>2, <2>4 DEF OnceInv
<1>10. CASE ConnectFails
  <2>1. Returns("TcpConnectionFails") /\ writing # "Waits"
        /\ UNCHANGED <<peer_state, fsm_state, connection, waiting_admin_events>>
    BY <1>10 DEF ConnectFails, Selects
  <2>2. connect_retry_timer' = FALSE
    BY <1>10 DEF ConnectFails
  <2>3. stopping' = "None" /\ writing' = writing
    BY <1>0, <2>1, NotStops, ReturnsOnce
  <2>4. OnlyStart'
    BY <1>0, <2>1, <2>3 DEF OnlyStart
  <2> QED BY <1>a, <2>1, <2>2, <2>3, <2>4
<1>11. CASE ConnectRetryTimerExpires
  <2>1. Returns("ConnectRetryTimerExpires") /\ writing # "Waits"
        /\ UNCHANGED <<peer_state, waiting_admin_events>> /\ connection' = NoConnection
    BY <1>11 DEF ConnectRetryTimerExpires, Selects
  <2>2. connection = NoConnection
    BY <1>0, <1>11 DEF ConnectRetryTimerExpires, TimerOrConnection
  <2>3. fsm_state' = IF fsm_state = "Active" THEN "Connect" ELSE fsm_state
    BY <1>11 DEF ConnectRetryTimerExpires
  <2>4. stopping' = "None" /\ writing' = writing
    BY <1>0, <2>1, NotStops, ReturnsOnce
  <2>5. OnlyStart'
    BY <1>0, <2>1, <2>4 DEF OnlyStart
  <2>6. FsmFollowsConnection'
    BY <1>0, <2>1, <2>2, <2>3, <2>4, NoConnectionIsNone DEF FsmFollowsConnection
  <2> QED BY <2>1, <2>5, <2>6 DEF OnceInv, TimerOrConnection
<1>12. CASE MainEvent(EventTypes)
  <2>1. Selects /\ connection \in Connections /\ writing # "Waits"
    BY <1>12, MainEventCases DEF Selects
  <2>2. PICK main \in Connections, event \in PolledEvents :
          /\ event.type \in EventTypes /\ main.state = connection.state
          /\ \/ handle_connection_event(main, event)
             \/ \E check : /\ Collision(check, main, tracked_connection)
                           /\ present(main) /\ present(tracked_connection)
             \/ CollisionFails
    BY <1>12, MainEventCases
  <2>3. CASE handle_connection_event(main, event)
    BY <2>1, <2>2, <2>3, ConnectionEventOnce
  <2>4. CASE \E check : /\ Collision(check, main, tracked_connection)
                        /\ present(main) /\ present(tracked_connection)
    <3>1. tracked_connection \in Connections
      BY <2>4, PresentIsConnection DEF TypeOK, Maybe
    <3>2. tracked_connection.state # "Established"
      BY <1>0 DEF TrackedStaysBehind
    <3> QED BY <2>1, <2>2, <2>4, <3>1, <3>2, CollisionOnce
  <2>5. CASE CollisionFails
    BY <1>0, <2>5, FailsOnce DEF CollisionFails
  <2> QED BY <2>2, <2>3, <2>4, <2>5
<1>13. CASE TrackedEvent
  <2>1. Selects /\ writing # "Waits"
    BY <1>13, TrackedEventCases DEF Selects
  <2>2. PICK conn \in Connections :
          /\ conn.state # "Established"
          /\ \/ tracked_connection' = conn /\ TrackedOnly
             \/ \E check : /\ Collision(check, connection, conn)
                           /\ present(connection) /\ present(conn)
             \/ CollisionFails
    BY <1>0, <1>13, TrackedEventCases DEF TrackedStaysBehind
  <2>3. CASE tracked_connection' = conn /\ TrackedOnly
    <3>1. UNCHANGED <<peer_state, fsm_state, connection, stopping, writing, waiting_admin_events>>
      BY <2>3 DEF TrackedOnly
    <3>2. connect_retry_timer' = connect_retry_timer
      BY <2>3 DEF TrackedOnly
    <3>3. OnlyStart'
      BY <1>0, <3>1 DEF OnlyStart
    <3> QED BY <1>a, <3>1, <3>2, <3>3
  <2>4. CASE \E check : /\ Collision(check, connection, conn)
                        /\ present(connection) /\ present(conn)
    <3>1. connection \in Connections
      BY <2>4, PresentIsConnection DEF TypeOK, Maybe
    <3> QED BY <2>1, <2>2, <2>4, <3>1, CollisionOnce
  <2>5. CASE CollisionFails
    BY <1>0, <2>5, FailsOnce DEF CollisionFails
  <2> QED BY <2>2, <2>3, <2>4, <2>5
<1>14. CASE UNCHANGED vars
  <2>1. UNCHANGED <<peer_state, fsm_state, connection, stopping, writing, waiting_admin_events>>
    BY <1>14 DEF vars, run_locals
  <2>2. connect_retry_timer' = connect_retry_timer
    BY <1>14 DEF vars
  <2>3. OnlyStart'
    BY <1>0, <2>1 DEF OnlyStart
  <2> QED BY <1>a, <2>1, <2>2, <2>3
<1> QED BY <1>1, <1>2, <1>3, <1>4, <1>5, <1>6, <1>7, <1>8, <1>9, <1>10, <1>11, <1>12, <1>13,
           <1>14 DEF Next, TaskEnded

(* The FSM state reported to process_bgp_updates is that of the main        *)
(* connection, through retries, collisions and dropped handlers, for a peer *)
(* that is started once (erezd's bgp.rs) and any remote side.               *)
THEOREM StateFollowsConnection ==
  ASSUME StartedOnce
  PROVE  Spec => []FsmFollowsConnection
<1>1. Init => TypeOK /\ Safe /\ OnceInv
  BY InitTypeOK, InitSafe, InitOnce
<1>2. (TypeOK /\ Safe /\ OnceInv) /\ [Next]_vars => (TypeOK /\ Safe /\ OnceInv)'
  BY NextTypeOK, NextSafe, NextOnce
<1>3. TypeOK /\ Safe /\ OnceInv => FsmFollowsConnection
  BY DEF OnceInv
<1> QED BY <1>1, <1>2, <1>3, PTL DEF Spec
============================================================================
