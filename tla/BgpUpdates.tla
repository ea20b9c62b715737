----------------------------- MODULE BgpUpdates -----------------------------
(***************************************************************************)
(* The way of an UPDATE from a peer's session to the RIB: the peer's task   *)
(* reports it with the FSM state on an unbounded channel, that peer's       *)
(* process_bgp_updates task (bgp.rs) reads, filters and converts it, waits  *)
(* for room in the one bounded channel that all peers share, and the        *)
(* steering controller applies it.                                          *)
(*                                                                         *)
(* The session itself (module Peer) is reduced to whether it is            *)
(* established, and the RIB (module Steering) to the nexthop of each route. *)
(***************************************************************************)
EXTENDS UpdateMessage, SequencesExt

CONSTANTS
  Peers,
  Routes,
  Messages,         \* the UPDATE messages a peer can send
  AnyMessage,       \* the ones whose conversion alone is looked at
  ChannelCapacity,  \* of the subscriber's channel (32 in the code)
  MaxEvents         \* bound on the events waiting for a peer's task

ASSUME BgpUpdatesAssumption ==
  /\ ChannelCapacity \in Nat \ {0} /\ MaxEvents \in Nat \ {0}
  /\ Messages \subseteq UpdateMessages(Routes) /\ AnyMessage \subseteq UpdateMessages(Routes)

VARIABLES
  session,       \* of each peer: "Established", "Idle", or "ended" with its task
  fsm_state_rx,  \* the events each peer's task has reported
  sending,       \* the update a process_bgp_updates task has to send (a list of at most one)
  handling,      \* whether that task runs
  bgp_updates,   \* the subscriber's channel: updates, with the peer they came from
  controller,    \* the steering controller runs, and holds the receiver
  rib            \* route to nexthop

vars == <<session, fsm_state_rx, sending, handling, bgp_updates, controller, rib>>

Init ==
  /\ session = [p \in Peers |-> "Idle"]
  /\ fsm_state_rx = [p \in Peers |-> <<>>]
  /\ sending = [p \in Peers |-> <<>>]
  /\ handling = [p \in Peers |-> TRUE]
  /\ bgp_updates = <<>>
  /\ controller = TRUE
  /\ rib = [r \in {} |-> r]

---------------------------------------------------------------------------
(* The peer's task. *)

(* The session changes, and the event is reported with the new FSM state. *)
Reports(p, state, event) ==
  /\ Len(fsm_state_rx[p]) < MaxEvents
  /\ session' = [session EXCEPT ![p] = state]
  /\ fsm_state_rx' = [fsm_state_rx EXCEPT ![p] = Append(@, event)]
  /\ UNCHANGED <<sending, handling, bgp_updates, controller, rib>>

Other == [type |-> "Other"]

Establish(p) == session[p] = "Idle" /\ Reports(p, "Established", Other)

SessionLost(p) == session[p] = "Established" /\ Reports(p, "Idle", Other)

(* run returns Err, and the task ends. *)
PeerFails(p) == session[p] # "ended" /\ Reports(p, "ended", [type |-> "Err"])

(* handle_update_message, and what an established session does with the     *)
(* answer: UpdateMsgErr ends it, UpdateMsg is passed on, whatever the       *)
(* treatment.                                                               *)
ReceiveUpdate(p, m) ==
  /\ session[p] = "Established"
  /\ IF Refuses(m)
     THEN Reports(p, "Idle", Other)
     ELSE Reports(p, "Established",
                  [type |-> "UpdateMsg", msg |-> m, treatment |-> update_treatment(m.errors)])

---------------------------------------------------------------------------
(* The process_bgp_updates task of a peer. *)

ForwardsAnyTreatment(event) ==
  event.type = "UpdateMsg" /\ try_from_ok(event.msg)

(* The updates that are passed on. *)
Forwards(event) ==
  event.type = "UpdateMsg" /\ event.treatment = "Normal" /\ try_from_ok(event.msg)

process_bgp_updates(p) ==
  /\ handling[p] /\ sending[p] = <<>> /\ fsm_state_rx[p] # <<>>
  /\ LET event == Head(fsm_state_rx[p])
     IN  /\ sending' = [sending EXCEPT ![p] =
                          IF Forwards(event) THEN <<try_from(event.msg)>> ELSE <<>>]
         /\ handling' = [handling EXCEPT ![p] = event.type # "Err"]
  /\ fsm_state_rx' = [fsm_state_rx EXCEPT ![p] = Tail(@)]
  /\ UNCHANGED <<session, bgp_updates, controller, rib>>

sendUnbounded(p) ==
  /\ sending[p] # <<>>
  /\ sending' = [sending EXCEPT ![p] = <<>>]
  /\ bgp_updates' = IF controller
                    THEN Append(bgp_updates, [peer |-> p, update |-> sending[p][1]])
                    ELSE bgp_updates
  /\ UNCHANGED <<session, fsm_state_rx, handling, controller, rib>>

trySend(p) ==
  /\ sending[p] # <<>>
  /\ sending' = [sending EXCEPT ![p] = <<>>]
  /\ bgp_updates' = IF controller /\ Len(bgp_updates) < ChannelCapacity
                    THEN Append(bgp_updates, [peer |-> p, update |-> sending[p][1]])
                    ELSE bgp_updates
  /\ UNCHANGED <<session, fsm_state_rx, handling, controller, rib>>

(* send().await: it waits while the channel is full, and fails, which is    *)
(* ignored, once the receiver is gone.                                      *)
send(p) ==
  /\ sending[p] # <<>>
  /\ controller => Len(bgp_updates) < ChannelCapacity
  /\ sending' = [sending EXCEPT ![p] = <<>>]
  /\ bgp_updates' = IF controller
                    THEN Append(bgp_updates, [peer |-> p, update |-> sending[p][1]])
                    ELSE bgp_updates
  /\ UNCHANGED <<session, fsm_state_rx, handling, controller, rib>>

---------------------------------------------------------------------------
(* The controller. *)

(* The nexthops that a list of announcements leaves: the last one counts. *)
Announced(announcements) ==
  LET of(r) == {i \in DOMAIN announcements :
                  \E j \in DOMAIN announcements[i].routes : announcements[i].routes[j] = r}
      routes == UNION {{announcements[i].routes[j] : j \in DOMAIN announcements[i].routes} :
                         i \in DOMAIN announcements}
  IN  [r \in routes |->
         announcements[CHOOSE i \in of(r) : \A k \in of(r) : k <= i].nexthop]

Withdrawn(withdrawals) == {withdrawals[i] : i \in DOMAIN withdrawals}

Change(update) ==
  [announced |-> Announced(update.announcements), withdrawn |-> Withdrawn(update.withdrawals)]

(* The routes are inserted, announcement by announcement, then removed. *)
recv ==
  /\ controller /\ bgp_updates # <<>>
  /\ LET change == Change(Head(bgp_updates).update)
     IN  rib' = [r \in (DOMAIN rib \cup DOMAIN change.announced) \ change.withdrawn |->
                   IF r \in DOMAIN change.announced THEN change.announced[r] ELSE rib[r]]
  /\ bgp_updates' = Tail(bgp_updates)
  /\ UNCHANGED <<session, fsm_state_rx, sending, handling, controller>>

(* The controller stops; the receiver is dropped with what it holds. *)
Shutdown ==
  /\ controller
  /\ controller' = FALSE /\ bgp_updates' = <<>>
  /\ UNCHANGED <<session, fsm_state_rx, sending, handling, rib>>

Ended ==
  /\ ~controller /\ \A p \in Peers : ~handling[p] /\ sending[p] = <<>>
  /\ UNCHANGED vars

Next ==
  \/ \E p \in Peers : \/ Establish(p) \/ SessionLost(p) \/ PeerFails(p)
                      \/ \E m \in Messages : ReceiveUpdate(p, m)
                      \/ process_bgp_updates(p) \/ send(p)
  \/ recv \/ Shutdown \/ Ended

Spec == Init /\ [][Next]_vars

(* The tasks run. A channel of tokio serves its waiting senders in order,   *)
(* so that one that waits for room gets it. Neither the peers nor the       *)
(* shutdown owe a step.                                                     *)
Fairness ==
  /\ \A p \in Peers : WF_vars(process_bgp_updates(p)) /\ SF_vars(send(p))
  /\ WF_vars(recv)

FairSpec == Spec /\ Fairness

---------------------------------------------------------------------------
(* Properties. *)

Events == [type : {"Other", "Err"}]
          \cup [type : {"UpdateMsg"}, msg : Messages,
                treatment : {Treatments[i] : i \in DOMAIN Treatments}]

TypeOK ==
  /\ session \in [Peers -> {"Established", "Idle", "ended"}]
  /\ \A p \in Peers : /\ fsm_state_rx[p] \in Seq(Events) /\ Len(fsm_state_rx[p]) <= MaxEvents
                      /\ Len(sending[p]) <= 1
  /\ handling \in [Peers -> BOOLEAN] /\ controller \in BOOLEAN
  /\ Len(bgp_updates) <= ChannelCapacity

(* What an UPDATE means, attribute by attribute: the reference for           *)
(* handle_update_message and try_from.                                       *)
WellFormed(m) ==
  LET announces == m.nlri # <<>> \/ "MpReach" \in Types(m.attributes)
  IN  /\ \A t \in Types(m.attributes) : Count(m.attributes, t) = 1
      /\ announces => {"Origin", "AsPath"} \subseteq Types(m.attributes)
      /\ m.nlri # <<>> => "NextHop" \in Types(m.attributes)

(* Without errors that ask for a treatment. *)
Valid(m) == WellFormed(m) /\ \A e \in m.errors : TreatmentRank[e] = 1

Listed(m, type) ==
  UNION {{<<m.attributes[i].routes[j], m.attributes[i].nexthop>> :
            j \in DOMAIN m.attributes[i].routes} :
         i \in {k \in DOMAIN m.attributes :
                  m.attributes[k].type = type /\ m.attributes[k].family \in Unicast}}

Meaning(m) ==
  LET mpRoutes == {x[1] : x \in Listed(m, "MpReach")}
      routes == mpRoutes \cup {m.nlri[j] : j \in DOMAIN m.nlri}
  IN  [announced |-> [r \in routes |->
         IF r \in mpRoutes THEN CHOOSE nh \in {x[2] : x \in Listed(m, "MpReach")} : TRUE
         ELSE (CHOOSE a \in {m.attributes[i] : i \in DOMAIN m.attributes} :
                 a.type = "NextHop").nexthop],
       withdrawn |-> Withdrawn(m.withdrawn) \cup {x[1] : x \in Listed(m, "MpUnreach")}]

(* What the documentation of UpdateTreatment says of errors: short of a      *)
(* SessionReset the message is processed without what was malformed, and     *)
(* after TreatAsWithdraw all its routes count as withdrawn.                  *)
MayCount(m) == WellFormed(m) /\ \A e \in m.errors : TreatmentRank[e] < 5

Removal(m) ==
  [announced |-> [r \in {} |-> 0],
   withdrawn |-> Meaning(m).withdrawn \cup DOMAIN Meaning(m).announced]

Treated(m) == IF \E e \in m.errors : TreatmentRank[e] = 3 THEN Removal(m) ELSE Meaning(m)

(* handle_update_message, update_treatment, process_bgp_updates and          *)
(* try_from pass on every valid message, and whatever they pass on has the   *)
(* documented effect. A message with a lesser error may be passed on or not: *)
(* the documentation says that it counts, and the code drops it.             *)
KeepsItsMeaning(m) ==
  LET passed == /\ ~Refuses(m)
                /\ Forwards([type |-> "UpdateMsg", msg |-> m,
                             treatment |-> update_treatment(m.errors)])
  IN  /\ Valid(m) => passed
      /\ passed => MayCount(m) /\ Change(try_from(m)) = Treated(m)

(* Whatever attributes an UPDATE has, in whatever order, with or without    *)
(* errors: it changes the RIB as it means to if it is valid; if it is not,   *)
(* it does not change it in a way that its treatment excludes                *)
(* (handle_update_message stops its scan of the attributes early, try_from   *)
(* takes the first MP attribute it finds). It says nothing of the state: one *)
(* state, the first, is enough to ask.                                       *)
UpdatesKeepTheirMeaning == Init => \A m \in AnyMessage : KeepsItsMeaning(m)

(* The changes of a peer that are on their way: in the channel, waiting to  *)
(* be sent, and reported.                                                   *)
SentBy(p, queue) == [i \in DOMAIN queue |->
  IF queue[i].peer = p THEN <<Change(queue[i].update)>> ELSE <<>>]

Promised(event) ==
  IF event.type = "UpdateMsg" /\ (Valid(event.msg) \/ Forwards(event))
  THEN <<Treated(event.msg)>> ELSE <<>>

Reported(events) == [i \in DOMAIN events |-> Promised(events[i])]

OnTheWay(p) ==
  FlattenSeq(SentBy(p, bgp_updates)) \o [i \in DOMAIN sending[p] |-> Change(sending[p][i])]
    \o FlattenSeq(Reported(fsm_state_rx[p]))

ValidMessages == {m \in Messages : Valid(m)}
Changes == {Treated(m) : m \in {n \in Messages : MayCount(n)}}

Feed == INSTANCE RouteFeed WITH
  pending <- [p \in Peers |-> IF controller THEN OnTheWay(p) ELSE <<>>],
  subscribed <- controller

(* The code implements RouteFeed: the routes of every valid UPDATE, whatever *)
(* mix of attributes carries them, reach the RIB once and in the order of    *)
(* their peer, through two queues and a task that may wait. An UPDATE with   *)
(* an error contributes nothing that its treatment excludes: nothing at all  *)
(* when it is malformed or asks for a SessionReset.                          *)
ImplementsFeed == Feed!Spec

(* A route that a peer has announced, in a valid UPDATE that does not also   *)
(* withdraw it, gets into the RIB, however full the shared channel is, unless *)
(* the daemon shuts down.                                                    *)
AnnouncedReachesRib ==
  \A p \in Peers : \A m \in ValidMessages :
    \A r \in DOMAIN Meaning(m).announced \ Meaning(m).withdrawn :
      (\E i \in DOMAIN fsm_state_rx[p] : /\ fsm_state_rx[p][i].type = "UpdateMsg"
                                         /\ fsm_state_rx[p][i].msg = m)
        ~> (r \in DOMAIN rib \/ ~controller)
============================================================================
