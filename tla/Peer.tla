-------------------------------- MODULE Peer --------------------------------
(***************************************************************************)
(* One BGP peer of the speaker (netgauze bgp-speaker, peer.rs) and the loop *)
(* of its task (peer_controller.rs): the administrative events, the active *)
(* connection and its retry timer, the main connection, a second one that  *)
(* is tracked until the collision is resolved, and the FSM state that is    *)
(* reported with every event to bgp::process_bgp_updates.                  *)
(*                                                                         *)
(* Peer::run handles at most one administrative event and then waits for    *)
(* one of its branches; the task drops it, whatever it was waiting for,     *)
(* when the next administrative event arrives. The remote side and the      *)
(* network are free to do anything.                                         *)
(***************************************************************************)
EXTENDS Connection, Sequences

CONSTANTS
  MyBgpId,           \* our BGP identifier
  Passive,           \* passive_tcp_establishment (erezd: no)
  DetectEstablished, \* collision_detect_established_state (erezd: no)
  FirstEvents,       \* the events that wait when the task starts (erezd: ManualStart)
  AdminEvents,       \* the administrative events that arrive later
  MaxWaiting         \* bound on the administrative events waiting at once

Starts == {"ManualStart", "AutomaticStart"}
Stops == {"ManualStop", "AutomaticStop"}
PeerAdminEvents == Starts \cup Stops \cup {"TcpConnectionConfirmed"}

ASSUME PeerAssumption ==
  /\ MyBgpId \in Nat /\ Passive \in BOOLEAN /\ DetectEstablished \in BOOLEAN
  /\ MaxWaiting \in Nat
  /\ AdminEvents \subseteq PeerAdminEvents
  /\ FirstEvents \in Seq(PeerAdminEvents) /\ Len(FirstEvents) <= MaxWaiting

FsmStates == {"Idle", "Connect", "Active", "OpenSent", "OpenConfirm", "Established"}

VARIABLES
  peer_state,           \* "AdminUp" or "AdminDown"
  fsm_state,
  connection,           \* the main connection
  tracked_connection,   \* the second one
  connect_retry_timer,  \* TRUE while it runs
  allowed_to_active_connect,
  waiting_admin_events, \* a stack: run pops the newest
  connecting,           \* run is waiting for TcpStream::connect
  selecting,            \* run is past its administrative event
  stopping,             \* the stop event whose shutdown waits for a write, "Dropped"
                        \* once such a shutdown was dropped (history), or "None"
  tracked_branch,       \* of next_connection_event: the second connection is "polled",
                        \* waits for a write ("writing"), or is given up ("gone")
  writing,              \* "Waits" while a handler of run waits for a write, "Dropped"
                        \* once such a handler was dropped (history), or "None"
  task,                 \* "running", or why the peer's task has ended
  reported              \* the event reported last, and the FSM state with it

run_locals == <<connecting, selecting, stopping, tracked_branch, writing>>
vars == <<peer_state, fsm_state, connection, tracked_connection, connect_retry_timer,
          allowed_to_active_connect, waiting_admin_events, run_locals, task, reported>>

present(conn) == conn.state # "None"

Init ==
  /\ peer_state = "AdminDown" /\ fsm_state = "Idle"
  /\ connection = NoConnection /\ tracked_connection = NoConnection
  /\ connect_retry_timer = FALSE /\ allowed_to_active_connect = FALSE
  /\ waiting_admin_events = FirstEvents
  /\ connecting = FALSE /\ selecting = FALSE /\ stopping = "None"
  /\ tracked_branch = "polled" /\ writing = "None"
  /\ task = "running" /\ reported = [state |-> "Idle", event |-> "None"]

---------------------------------------------------------------------------
(* The ends of a step. *)

RunDropped ==
  /\ connecting' = FALSE /\ selecting' = FALSE /\ tracked_branch' = "polled"
  /\ writing' = IF writing = "Waits" THEN "Dropped" ELSE writing

(* run returns Ok: the task reports the event with the new FSM state. *)
Returns(event) ==
  /\ RunDropped
  /\ stopping' = IF event \in Stops THEN "None" ELSE stopping
  /\ reported' = [state |-> fsm_state', event |-> event]
  /\ UNCHANGED task

(* A handler waits for room in a socket until the next administrative event *)
(* drops it and what it has left to do; the bound leaves room for one.      *)
Waits ==
  /\ Len(waiting_admin_events') < MaxWaiting
  /\ writing' = "Waits"
  /\ UNCHANGED <<connecting, selecting, stopping, tracked_branch, task, reported>>

(* run returns Err: the task ends, and the peer is dropped. *)
Fails(why) ==
  /\ task' = why
  /\ peer_state' = "AdminDown" /\ fsm_state' = "Idle"
  /\ connection' = NoConnection /\ tracked_connection' = NoConnection
  /\ connect_retry_timer' = FALSE /\ allowed_to_active_connect' = FALSE
  /\ RunDropped /\ stopping' = "None"
  /\ UNCHANGED reported

---------------------------------------------------------------------------
(* Administrative events. *)

(* The task receives one: run is dropped and the event waits. *)
handle_peer_event(event) ==
  /\ task = "running"
  /\ Len(waiting_admin_events) < MaxWaiting
  /\ waiting_admin_events' = Append(waiting_admin_events, event)
  /\ RunDropped
  /\ stopping' = IF stopping \in Stops THEN "Dropped" ELSE stopping
  /\ UNCHANGED <<peer_state, fsm_state, connection, tracked_connection,
                 connect_retry_timer, allowed_to_active_connect, task, reported>>

Newest == waiting_admin_events[Len(waiting_admin_events)]

Pops(events) ==
  /\ task = "running" /\ ~selecting /\ writing # "Waits" /\ stopping \notin Stops
  /\ waiting_admin_events # <<>> /\ Newest \in events
  /\ waiting_admin_events' =
       SubSeq(waiting_admin_events, 1, Len(waiting_admin_events) - 1)

start ==
  /\ Pops(Starts)
  /\ fsm_state = "Idle"
  /\ peer_state' = "AdminUp"
  /\ connect_retry_timer' = TRUE
  /\ fsm_state' = IF Passive THEN "Active" ELSE "Connect"
  /\ allowed_to_active_connect' = (allowed_to_active_connect \/ ~Passive)
  /\ Returns(Newest)
  /\ UNCHANGED <<connection, tracked_connection>>

(* Ignored, and run goes on. *)
StartIgnored ==
  /\ Pops(Starts)
  /\ fsm_state # "Idle"
  /\ selecting' = TRUE
  /\ UNCHANGED <<peer_state, fsm_state, connection, tracked_connection,
                 connect_retry_timer, allowed_to_active_connect, connecting,
                 stopping, tracked_branch, writing, task, reported>>

shutdownKeepsTracked ==
  /\ Pops(Stops)
  /\ connect_retry_timer' = FALSE
  /\ peer_state' = "AdminDown" /\ fsm_state' = "Idle"
  /\ connection' = NoConnection
  /\ Returns(Newest)
  /\ UNCHANGED <<tracked_connection, allowed_to_active_connect>>

shutdown ==
  /\ Pops(Stops)
  /\ connect_retry_timer' = FALSE
  /\ peer_state' = "AdminDown" /\ fsm_state' = "Idle"
  /\ connection' = NoConnection /\ tracked_connection' = NoConnection
  /\ Returns(Newest)
  /\ UNCHANGED allowed_to_active_connect

(* The same when a Cease waits for room in a socket, that of the main       *)
(* connection or, the main one gone, that of the tracked one.               *)
ShutdownBlocks ==
  /\ WritesBlock
  /\ Pops(Stops)
  /\ connect_retry_timer' = FALSE
  /\ peer_state' = "AdminDown" /\ fsm_state' = "Idle"
  /\ \/ present(connection) /\ UNCHANGED connection
     \/ present(tracked_connection) /\ connection' = NoConnection
  /\ stopping' = Newest
  /\ UNCHANGED <<tracked_connection, allowed_to_active_connect, connecting, selecting,
                 tracked_branch, writing, task, reported>>

(* The socket takes the message, and the shutdown is finished. *)
ShutdownResumes ==
  /\ stopping \in Stops
  /\ connection' = NoConnection /\ tracked_connection' = NoConnection
  /\ UNCHANGED <<peer_state, fsm_state, connect_retry_timer, allowed_to_active_connect,
                 waiting_admin_events>>
  /\ Returns(stopping)

(* The FSM state that goes with a main connection in some state. *)
FsmStateOf(state) == IF state = "Connected" THEN fsm_state ELSE state

add_connection(conn) ==
  IF present(connection)
  THEN tracked_connection' = conn /\ UNCHANGED <<connection, fsm_state>>
  ELSE /\ connection' = conn
       /\ fsm_state' = FsmStateOf(conn.state)
       /\ UNCHANGED tracked_connection

NewConnectionKeepsTimer(event) ==
  \E o \in handle_event(NewConnection, Event(event)) :
    \/ o.end = "failed" /\ Fails("write")
    \/ /\ o.end = "done"
       /\ add_connection(o.conn)
       /\ Returns(event)
       /\ UNCHANGED <<peer_state, allowed_to_active_connect, connect_retry_timer>>

(* A connection just made, by us or by the peer. A local variable holds it  *)
(* until its handler is done.                                               *)
NewConnectionHandled(event) ==
  \E o \in handle_event(NewConnection, Event(event)) :
    \/ o.end = "failed" /\ Fails("write")
    \/ /\ o.end = "blocked" /\ Waits
       /\ connect_retry_timer' = FALSE
       /\ UNCHANGED <<peer_state, fsm_state, connection, tracked_connection,
                      allowed_to_active_connect>>
    \/ /\ o.end = "done"
       /\ connect_retry_timer' = FALSE
       /\ add_connection(o.conn)
       /\ Returns(event)
       /\ UNCHANGED <<peer_state, allowed_to_active_connect>>

Rejects ==
  \/ peer_state = "AdminDown"
  \/ present(connection) /\ present(tracked_connection)
  \/ fsm_state = "Established" /\ ~DetectEstablished

accept_connection ==
  /\ Pops({"TcpConnectionConfirmed"})
  /\ ~Rejects
  /\ NewConnectionHandled("TcpConnectionConfirmed")

(* Rejected (a Cease may be sent), and run goes on. *)
ConnectionRejected ==
  /\ Pops({"TcpConnectionConfirmed"})
  /\ Rejects
  /\ selecting' = TRUE
  /\ UNCHANGED <<peer_state, fsm_state, connection, tracked_connection,
                 connect_retry_timer, allowed_to_active_connect, connecting,
                 stopping, tracked_branch, writing, task, reported>>

---------------------------------------------------------------------------
(* The branches of run's select!. *)

Selects ==
  /\ task = "running" /\ writing # "Waits" /\ stopping \notin Stops
  /\ selecting \/ waiting_admin_events = <<>>

(* The branch of the active connection is polled for the first time. *)
connect ==
  /\ Selects
  /\ fsm_state = "Connect" /\ allowed_to_active_connect /\ ~connecting
  /\ allowed_to_active_connect' = FALSE /\ connecting' = TRUE
  /\ UNCHANGED <<peer_state, fsm_state, connection, tracked_connection,
                 connect_retry_timer, waiting_admin_events, selecting, stopping,
                 tracked_branch, writing, task, reported>>

(* handle_active_connection: success, and a refusal or the timeout. *)
Connects ==
  /\ Selects /\ connecting
  /\ UNCHANGED waiting_admin_events
  /\ NewConnectionHandled("TcpConnectionRequestAcked")

ConnectFails ==
  /\ Selects /\ connecting
  /\ connect_retry_timer' = FALSE
  /\ UNCHANGED <<peer_state, fsm_state, connection, tracked_connection,
                 allowed_to_active_connect, waiting_admin_events>>
  /\ Returns("TcpConnectionFails")

(* The retry timer ticks (it goes on running). *)
ConnectRetryTimerExpires ==
  /\ Selects /\ connect_retry_timer
  /\ fsm_state' = IF fsm_state = "Active" THEN "Connect" ELSE fsm_state
  /\ allowed_to_active_connect' = (fsm_state' = "Connect")
  /\ connection' = NoConnection
  /\ UNCHANGED <<peer_state, tracked_connection, connect_retry_timer,
                 waiting_admin_events>>
  /\ Returns("ConnectRetryTimerExpires")

(* check_connection_collision. Both connections carry the same default      *)
(* creation time, so the tie of equal identifiers is never broken by age.   *)
check_connection_collision(main, tracked) ==
  IF \/ ~present(main) \/ main.peer_bgp_id = 0
     \/ ~present(tracked) \/ tracked.peer_bgp_id = 0 \/ tracked_branch = "gone"
  THEN "None"
  ELSE IF tracked.peer_bgp_id # main.peer_bgp_id THEN "InvalidTrackedBgpId"
  ELSE IF MyBgpId < main.peer_bgp_id THEN "DropMain" ELSE "DropTracked"

CollisionUnchecked(check, main, tracked) ==
  /\ UNCHANGED <<peer_state, allowed_to_active_connect, waiting_admin_events,
                 connect_retry_timer>>
  /\ \/ /\ check = "DropMain"
        /\ connection' = tracked /\ tracked_connection' = NoConnection
        /\ fsm_state' = tracked.state
        /\ Returns("OpenCollisionDump")
     \/ /\ check = "DropTracked"
        /\ connection' = main /\ tracked_connection' = NoConnection
        /\ UNCHANGED fsm_state
        /\ Returns("OpenCollisionDump")
     \/ /\ check = "InvalidTrackedBgpId"
        /\ connection' = main /\ tracked_connection' = tracked
        /\ tracked_branch' = "gone"
        /\ UNCHANGED <<fsm_state, connecting, selecting, stopping, writing, task, reported>>

(* The collision found after either connection was polled. The event that   *)
(* the poll yielded is not handled any more. When the Cease for the loser   *)
(* has to wait, both are gone from the peer: the loser, and a tracked one   *)
(* that is not yet the main connection. A tracked one with another          *)
(* identifier is told so, and stays.                                        *)
Collision(check, main, tracked) ==
  /\ UNCHANGED <<peer_state, allowed_to_active_connect, waiting_admin_events,
                 connect_retry_timer>>
  /\ \/ /\ check = "DropMain" /\ tracked.state \in FsmStates
        /\ connection' = tracked /\ tracked_connection' = NoConnection
        /\ fsm_state' = tracked.state
        /\ Returns("OpenCollisionDump")
     \/ /\ check = "DropTracked"
        /\ connection' = main /\ tracked_connection' = NoConnection
        /\ UNCHANGED fsm_state
        /\ Returns("OpenCollisionDump")
     \/ /\ WritesBlock /\ Waits
        /\ tracked_connection' = IF check = "InvalidTrackedBgpId" THEN tracked ELSE NoConnection
        /\ \/ /\ check \in {"DropTracked", "InvalidTrackedBgpId"}
              /\ connection' = main /\ UNCHANGED fsm_state
           \/ /\ check = "DropMain" /\ tracked.state \in FsmStates
              /\ connection' = NoConnection /\ fsm_state' = tracked.state
     \/ /\ check = "InvalidTrackedBgpId"
        /\ connection' = main /\ tracked_connection' = tracked
        /\ tracked_branch' = "gone"
        /\ UNCHANGED <<fsm_state, connecting, selecting, stopping, writing, task, reported>>

(* fsm_state_from_tracked refuses a connection that has not sent an OPEN,   *)
(* or is about to end.                                                      *)
DropMainFails(check, tracked) ==
  /\ check = "DropMain"
  /\ tracked.state \notin FsmStates
  /\ Fails("collision")
  /\ UNCHANGED waiting_admin_events

BrokenButNotified ==
  {"TcpConnectionFails", "BGPHeaderErr", "BGPOpenMsgErr", "UpdateMsgErr",
   "RouteRefreshErr", "NotifMsgVerErr"}

(* The events handle_connection_event accepts for a transition of the main   *)
(* connection; any other ends the task with InvalidConnectionStateTransition. *)
Broken ==
  {"TcpConnectionFails", "BGPHeaderErr", "BGPOpenMsgErr", "UpdateMsgErr",
   "RouteRefreshErr", "NotifMsg", "NotifMsgVerErr"}

FromConnected(after) ==
  CASE after = "Connected" -> {"NotifMsgErr"}
    [] after = "OpenSent" -> {"DelayOpenTimerExpires"}
    [] after = "OpenConfirm" -> {"BGPOpen", "BGPOpenWithDelayOpenTimer"}
    [] after = "Terminate" ->
         Broken \cup {"HoldTimerExpires", "KeepAliveTimerExpires", "BGPOpen",
                      "KeepAliveMsg", "UpdateMsg", "RouteRefresh"}
    [] OTHER -> {}

FromOpenSent(after) ==
  CASE after = "OpenSent" -> {"NotifMsgErr"}
    [] after = "OpenConfirm" -> {"BGPOpen"}
    [] after = "Terminate" ->
         Broken \cup {"HoldTimerExpires", "KeepAliveTimerExpires",
                      "DelayOpenTimerExpires", "BGPOpenWithDelayOpenTimer",
                      "KeepAliveMsg", "UpdateMsg", "RouteRefresh"}
    [] OTHER -> {}

FromOpenConfirm(after) ==
  CASE after = "OpenConfirm" -> {"KeepAliveTimerExpires", "NotifMsgErr"}
    [] after = "Established" -> {"KeepAliveMsg"}
    [] after = "Terminate" ->
         Broken \cup {"HoldTimerExpires", "BGPOpen", "DelayOpenTimerExpires",
                      "BGPOpenWithDelayOpenTimer", "UpdateMsg", "RouteRefresh"}
    [] OTHER -> {}

FromEstablished(after) ==
  CASE after = "Established" ->
         {"KeepAliveTimerExpires", "KeepAliveMsg", "UpdateMsg", "RouteRefresh",
          "NotifMsgErr"}
    [] after = "Terminate" ->
         Broken \cup {"HoldTimerExpires", "BGPOpen", "DelayOpenTimerExpires",
                      "BGPOpenWithDelayOpenTimer"}
    [] OTHER -> {}

Accepted(before, after) ==
  CASE before = "Connected" -> FromConnected(after)
    [] before = "OpenSent" -> FromOpenSent(after)
    [] before = "OpenConfirm" -> FromOpenConfirm(after)
    [] before = "Established" -> FromEstablished(after)
    [] OTHER -> {}

(* A main connection that ends leaves the peer Active, with a retry timer,  *)
(* when TCP failed before the OPEN was answered; otherwise Idle.            *)
Retries(main, event) ==
  /\ event.type = "TcpConnectionFails"
  /\ \/ main.state = "OpenSent"
     \/ main.state = "Connected" /\ main.open_delay /\ fsm_state = "Connect"

handle_connection_event(main, event) ==
  /\ UNCHANGED waiting_admin_events
  /\ \E o \in handle_event(main, event) :
       \/ o.end = "failed" /\ Fails("write")
       \/ /\ o.end = "blocked" /\ Waits
          /\ connection' = o.conn
          /\ UNCHANGED <<peer_state, fsm_state, tracked_connection, connect_retry_timer,
                         allowed_to_active_connect>>
       \/ /\ o.end = "done" /\ event.type \notin Accepted(main.state, o.conn.state)
          /\ Fails(IF main.state = "Terminate" THEN "terminated" ELSE "invalid")
       \/ /\ o.end = "done" /\ event.type \in Accepted(main.state, o.conn.state)
          /\ IF o.conn.state = "Terminate"
             THEN /\ connection' = NoConnection
                  /\ connect_retry_timer' = Retries(main, event)
                  /\ fsm_state' = IF Retries(main, event) THEN "Active" ELSE "Idle"
             ELSE /\ connection' = o.conn
                  /\ connect_retry_timer' =
                       (connect_retry_timer
                          /\ (o.conn.state = "OpenConfirm" => main.state = "OpenConfirm"))
                  /\ fsm_state' = IF o.conn.state = main.state THEN fsm_state
                                                               ELSE o.conn.state
          /\ Returns(event.type)
          /\ UNCHANGED <<peer_state, tracked_connection, allowed_to_active_connect>>

(* The main connection yields an event of one of these types. *)
MainEvent(types) ==
  /\ Selects /\ present(connection)
  /\ \E p \in {q \in poll_next(connection) : q.event.type \in types} :
       LET check == check_connection_collision(p.conn, tracked_connection)
       IN  \/ check = "None" /\ handle_connection_event(p.conn, p.event)
           \/ Collision(check, p.conn, tracked_connection)
           \/ DropMainFails(check, tracked_connection)

TrackedPolledOn ==
  /\ fsm_state # "Connect"
  /\ present(tracked_connection) /\ tracked_branch = "polled"

(* The tracked connection is driven on, and its events ignored but for a    *)
(* collision, until its OPEN exchange is done.                              *)
TrackedPolled ==
  /\ fsm_state # "Connect"
  /\ present(tracked_connection) /\ tracked_branch = "polled"
  /\ tracked_connection.state # "OpenConfirm"

TrackedEvent ==
  /\ Selects /\ TrackedPolled
  /\ \E p \in poll_next(tracked_connection) :
       \E o \in handle_event(p.conn, p.event) :
         LET check == IF o.end = "blocked" THEN "Waits"
                      ELSE check_connection_collision(connection, o.conn)
         IN  \/ /\ check = "Waits"
                /\ tracked_connection' = o.conn /\ tracked_branch' = "writing"
                /\ UNCHANGED <<peer_state, fsm_state, connection, connect_retry_timer,
                               allowed_to_active_connect, waiting_admin_events,
                               connecting, selecting, stopping, writing, task, reported>>
             \/ /\ check = "None"
                /\ tracked_connection' = o.conn
                /\ UNCHANGED <<peer_state, fsm_state, connection, connect_retry_timer,
                               allowed_to_active_connect, waiting_admin_events,
                               run_locals, task, reported>>
             \/ Collision(check, connection, o.conn)
             \/ DropMainFails(check, o.conn)

TaskEnded == task # "running" /\ UNCHANGED vars

Next ==
  \/ \E event \in AdminEvents : handle_peer_event(event)
  \/ start \/ StartIgnored \/ shutdown \/ ShutdownBlocks \/ ShutdownResumes
  \/ accept_connection \/ ConnectionRejected
  \/ connect \/ Connects \/ ConnectFails \/ ConnectRetryTimerExpires
  \/ MainEvent(EventTypes) \/ TrackedEvent
  \/ TaskEnded

Spec == Init /\ [][Next]_vars

(* The task runs: what waits is handled, and a timer that runs expires in   *)
(* spite of the events that interrupt run. The remote side owes nothing.    *)
Fairness ==
  /\ WF_vars(start \/ StartIgnored \/ shutdown \/ accept_connection \/ ConnectionRejected)
  /\ SF_vars(ConnectRetryTimerExpires)
  /\ SF_vars(MainEvent({"DelayOpenTimerExpires"}))
  /\ SF_vars(MainEvent({"HoldTimerExpires"}))

FairSpec == Spec /\ Fairness

---------------------------------------------------------------------------
(* Properties. *)

TypeOK ==
  /\ peer_state \in {"AdminUp", "AdminDown"} /\ fsm_state \in FsmStates
  /\ connection \in Connections \cup {NoConnection}
  /\ tracked_connection \in Connections \cup {NoConnection}
  /\ connect_retry_timer \in BOOLEAN /\ allowed_to_active_connect \in BOOLEAN
  /\ waiting_admin_events \in Seq(PeerAdminEvents)
  /\ Len(waiting_admin_events) <= MaxWaiting
  /\ connecting \in BOOLEAN /\ selecting \in BOOLEAN /\ writing \in {"None", "Waits", "Dropped"}
  /\ tracked_branch \in {"polled", "writing", "gone"}
  /\ stopping \in Stops \cup {"None", "Dropped"}
  /\ task \in {"running", "write", "invalid", "terminated", "collision"}

(* A peer that was shut down has no connection, no timer and no attempt to  *)
(* connect, and gets none before it is started again, whatever was under    *)
(* way or waiting when it was stopped: also when its shutdown had to wait   *)
(* for a write, unless the next administrative event dropped it.            *)
DownMeansDown ==
  peer_state = "AdminDown" /\ stopping = "None" =>
    ~present(connection) /\ ~present(tracked_connection)
      /\ ~connect_retry_timer /\ ~connecting

(* handle_connection_event (peer.rs) accepts every transition the four      *)
(* handlers of connection.rs make on the main connection: none of them ends *)
(* the peer's task with InvalidConnectionStateTransition. The task has two  *)
(* other ways to that error, and this says nothing of them: an event on a   *)
(* main connection whose handler was dropped between its assignment of      *)
(* Terminate and its write (connection.rs:737; "terminated"), and a         *)
(* collision won by a tracked connection that has not sent its OPEN or was  *)
(* ended by the remote side (fsm_state_from_tracked; "collision").          *)
NoInvalidTransition == task # "invalid"

(* The FSM state reported with an event, by which process_bgp_updates tells *)
(* an established session, is the one of the main connection, through       *)
(* retries, collisions and replaced connections (for a peer that is started *)
(* once, as erezd does). A handler that an administrative event drops in    *)
(* its write may leave a set-up without its connection, never a session.    *)
FsmFollowsConnection ==
  LET agree == {"OpenSent", "OpenConfirm", "Established"} IN
  /\ connection.state \in agree => fsm_state = connection.state
  /\ fsm_state \in (IF writing = "None" THEN agree ELSE {"Established"})
       => connection.state = fsm_state

(* The second connection waits in OpenConfirm for the collision: it never   *)
(* becomes a second session.                                                *)
TrackedStaysBehind == tracked_connection.state # "Established"

(* A collision has taken an event of the main connection away: its OPEN,    *)
(* when the tracked one was dropped, or whatever comes next, while the two  *)
(* have different identifiers or the answer to the tracked one's OPEN waits *)
(* for a write.                                                             *)
EventLost ==
  \/ connection.state = "Connected" /\ connection.peer_bgp_id # 0
  \/ /\ connection.peer_bgp_id # tracked_connection.peer_bgp_id
     /\ 0 \notin {connection.peer_bgp_id, tracked_connection.peer_bgp_id}
  \/ tracked_branch = "writing"

(* A session that is being set up is decided: with a silent remote side it  *)
(* neither waits for its OPEN for ever, nor, unless the negotiated hold     *)
(* time is zero, for its KEEPALIVE, and an Active peer tries again or takes *)
(* a connection. Events lost to a collision and writes that wait are        *)
(* excepted.                                                                *)
SetupIsDecided ==
  LET waits(state) == /\ fsm_state = state
                      /\ state = "OpenConfirm" => connection.hold
                      /\ ~EventLost /\ writing = "None"
  IN  \A state \in {"Active", "OpenSent", "OpenConfirm"} : waits(state) ~> ~waits(state)
============================================================================
