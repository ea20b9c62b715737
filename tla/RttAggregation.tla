-------------------------- MODULE RttAggregation --------------------------
(***************************************************************************)
(* The RTT aggregator (rtt_aggregation.rs): a sliding window of samples    *)
(* per NLRI and nexthop.                                                   *)
(*                                                                         *)
(* A blocking thread polls the ring buffer and calls observe on each event *)
(* (bpf.rs, TcpRttEvents::poll). The controller's task and the metrics     *)
(* endpoint call snapshot. Each reads the clock first and takes the mutex  *)
(* afterwards, so that the three can prune with clock readings that are    *)
(* out of order. What a thread does with the mutex held is one step.       *)
(***************************************************************************)
EXTENDS Integers, Sequences, FiniteSets

CONSTANTS
  Nlris,
  BadNlris,      \* those whose CNlri does not convert back to an IpNet
  Nexthops,
  Readers,       \* the callers of snapshot
  Window,        \* AGGREGATION_WINDOW_NS
  RingCapacity,  \* events that fit the ring buffer
  Srtt,          \* the srtt_us of the i-th event
  RttMin,        \* the rtt_min of the i-th event
  MaxEvents,     \* bound on the events of a behaviour
  MaxClock       \* bound on the clock

ASSUME RttAssumption ==
  /\ BadNlris \subseteq Nlris
  /\ Window \in Nat /\ RingCapacity \in Nat /\ MaxEvents \in Nat /\ MaxClock \in Nat
  /\ Srtt \in [1..MaxEvents -> Nat] /\ RttMin \in [1..MaxEvents -> Nat]

VARIABLES
  now,       \* CLOCK_MONOTONIC
  ringbuf,   \* e_tcp_rtt_events
  samples,   \* TcpRttAggregatorState::samples
  observer,  \* the polling thread: idle, or an event and its clock reading
  reader,    \* each caller of snapshot: idle, a clock reading, or a result
  count,     \* history: the events so far
  accepted   \* history: the events observe has stored

vars == <<now, ringbuf, samples, observer, reader, count, accepted>>

Empty == [x \in {} |-> x]
Idle == [pc |-> "idle"]

(* u64::saturating_sub, and the subtraction it stands in for. *)
wrapping_sub(a, b) == (a - b) % 1000000
saturating_sub(a, b) == IF a > b THEN a - b ELSE 0

Fresh(sample, now_ns) == saturating_sub(now_ns, sample.ts_ns) <= Window

(* The i-th event: its id stands for the values it carries. *)
Sample(e) == [id |-> e.id, ts_ns |-> e.ts_ns]

(* The closure of prune: VecDeque::retain keeps the fresh samples, in order. *)
retain(seq, now_ns) ==
  LET kept[i \in 0..Len(seq)] ==
        IF i = 0 THEN <<>>
        ELSE IF Fresh(seq[i], now_ns) THEN Append(kept[i - 1], seq[i]) ELSE kept[i - 1]
  IN  kept[Len(seq)]

pruneFromFront(table, now_ns) ==
  LET stale(s) == CHOOSE i \in 0..Len(s) :
                    /\ \A j \in 1..i : ~Fresh(s[j], now_ns)
                    /\ i < Len(s) => Fresh(s[i + 1], now_ns)
      left(n, nh) == SubSeq(table[n][nh], stale(table[n][nh]) + 1, Len(table[n][nh]))
      kept(n) == {nh \in DOMAIN table[n] : left(n, nh) # <<>>}
  IN  [n \in {m \in DOMAIN table : kept(m) # {}} |-> [nh \in kept(n) |-> left(n, nh)]]

pruneKeepsEmpty(table, now_ns) ==
  [n \in DOMAIN table |-> [nh \in DOMAIN table[n] |->
     retain(table[n][nh], now_ns)]]

(* TcpRttAggregatorState::prune: stale samples go, and with the last of     *)
(* them the nexthop and the NLRI.                                           *)
prune(table, now_ns) ==
  LET left(n, nh) == retain(table[n][nh], now_ns)
      kept(n) == {nh \in DOMAIN table[n] : left(n, nh) # <<>>}
  IN  [n \in {m \in DOMAIN table : kept(m) # {}} |-> [nh \in kept(n) |-> left(n, nh)]]

(* The samples a table holds for a nexthop. *)
SamplesOf(table, n, nh) ==
  IF n \in DOMAIN table /\ nh \in DOMAIN table[n] THEN table[n][nh] ELSE <<>>

push_back(table, n, nh, sample) ==
  [m \in DOMAIN table \cup {n} |->
     IF m # n THEN table[m]
     ELSE LET old == IF n \in DOMAIN table THEN table[n] ELSE Empty
          IN  [h \in DOMAIN old \cup {nh} |->
                 IF h = nh THEN Append(SamplesOf(table, n, nh), sample) ELSE old[h]]]

(* TcpRttWindow::from_samples, the default for no samples included. *)
from_samples(seq) ==
  LET srtts == {Srtt[seq[i].id] : i \in DOMAIN seq}
      sum[i \in 0..Len(seq)] == IF i = 0 THEN 0 ELSE sum[i - 1] + Srtt[seq[i].id]
      mins == {RttMin[seq[i].id] : i \in DOMAIN seq}
  IN  IF seq = <<>>
      THEN [samples |-> 0, avg_srtt_us |-> 0, max_srtt_us |-> 0, min_rtt_min |-> 0]
      ELSE [samples |-> Len(seq),
            avg_srtt_us |-> sum[Len(seq)] \div Len(seq),
            max_srtt_us |-> CHOOSE x \in srtts : \A y \in srtts : y <= x,
            min_rtt_min |-> CHOOSE x \in mins : \A y \in mins : x <= y]

windowsOf(table) ==
  [n \in DOMAIN table |-> [nh \in DOMAIN table[n] |-> from_samples(table[n][nh])]]

---------------------------------------------------------------------------
Init ==
  /\ now = 0 /\ ringbuf = <<>> /\ samples = Empty
  /\ observer = Idle /\ reader = [r \in Readers |-> Idle]
  /\ count = 0 /\ accepted = {}

(* Time passes. *)
Advance ==
  /\ now < MaxClock
  /\ now' = now + 1
  /\ UNCHANGED <<ringbuf, samples, observer, reader, count, accepted>>

(* erez_sockops submits an event; a full ring buffer drops it. CPUs reserve *)
(* and submit concurrently, so an event may carry an earlier time than the  *)
(* one before it.                                                           *)
Emit(n, nh, ts) ==
  /\ count < MaxEvents
  /\ Len(ringbuf) < RingCapacity
  /\ count' = count + 1
  /\ ringbuf' = Append(ringbuf, [id |-> count + 1, matched_nlri |-> n, nexthop |-> nh,
                                 ts_ns |-> ts])
  /\ UNCHANGED <<now, samples, observer, reader, accepted>>

(* observe, up to the mutex: an event older than the window is ignored. *)
ObserveReadsClock ==
  /\ observer = Idle
  /\ ringbuf # <<>>
  /\ ringbuf' = Tail(ringbuf)
  /\ LET event == Head(ringbuf) IN
     observer' = IF Fresh(event, now) THEN [pc |-> "lock", event |-> event, now_ns |-> now]
                 ELSE Idle
  /\ UNCHANGED <<now, samples, reader, count, accepted>>

(* observe with the mutex held: an NLRI that does not convert ends it after *)
(* the pruning.                                                             *)
Observe ==
  /\ observer.pc = "lock"
  /\ LET event == observer.event
         pruned == prune(samples, observer.now_ns)
     IN  IF event.matched_nlri \in BadNlris
         THEN samples' = pruned /\ UNCHANGED accepted
         ELSE /\ samples' = push_back(pruned, event.matched_nlri, event.nexthop, Sample(event))
              /\ accepted' = accepted \cup {event}
  /\ observer' = Idle
  /\ UNCHANGED <<now, ringbuf, reader, count>>

(* snapshot, up to the mutex. *)
SnapshotReadsClock(r) ==
  /\ reader[r].pc = "idle"
  /\ reader' = [reader EXCEPT ![r] = [pc |-> "lock", now_ns |-> now]]
  /\ UNCHANGED <<now, ringbuf, samples, observer, count, accepted>>

(* snapshot with the mutex held. *)
Snapshot(r) ==
  /\ reader[r].pc = "lock"
  /\ samples' = prune(samples, reader[r].now_ns)
  /\ reader' = [reader EXCEPT ![r] = [pc |-> "have", now_ns |-> @.now_ns,
                                      windows |-> windowsOf(samples')]]
  /\ UNCHANGED <<now, ringbuf, observer, count, accepted>>

(* The caller is done with it. *)
Release(r) ==
  /\ reader[r].pc = "have"
  /\ reader' = [reader EXCEPT ![r] = Idle]
  /\ UNCHANGED <<now, ringbuf, samples, observer, count, accepted>>

Next ==
  \/ Advance
  \/ \E n \in Nlris, nh \in Nexthops, ts \in {t \in {now - 1, now} : t >= 0} : Emit(n, nh, ts)
  \/ ObserveReadsClock
  \/ Observe
  \/ \E r \in Readers : SnapshotReadsClock(r)
  \/ \E r \in Readers : Snapshot(r)
  \/ \E r \in Readers : Release(r)

Spec == Init /\ [][Next]_vars

---------------------------------------------------------------------------
(* Properties. *)

(* The ids of the samples a table holds for a nexthop. *)
Held(n, nh) == {SamplesOf(samples, n, nh)[i].id : i \in DOMAIN SamplesOf(samples, n, nh)}

(* Pruning with a clock reading that another thread has overtaken never     *)
(* loses a sample that is still inside the window, and no sample is counted *)
(* twice or under another nexthop (observe, prune).                         *)
NoFreshSampleLost ==
  \A n \in Nlris, nh \in Nexthops :
    /\ Cardinality(Held(n, nh)) = Len(SamplesOf(samples, n, nh))
    /\ \A e \in accepted :
         e.matched_nlri = n /\ e.nexthop = nh /\ Fresh(e, now) => e.id \in Held(n, nh)
    /\ \A i \in Held(n, nh) : \E e \in accepted :
         e.id = i /\ e.matched_nlri = n /\ e.nexthop = nh

(* The accepted events for a nexthop that are fresh at a time. *)
FreshOf(n, nh, t) == {e \in accepted : e.matched_nlri = n /\ e.nexthop = nh /\ Fresh(e, t)}

(* The windows of a caller that read the clock at t are about the events    *)
(* that were fresh then and count all that are fresh now; an average lies   *)
(* between one of them and the maximum.                                     *)
CountsTheWindow(windows, t) ==
  \A n \in Nlris, nh \in Nexthops :
    LET has == n \in DOMAIN windows /\ nh \in DOMAIN windows[n]
        window == windows[n][nh]
    IN  /\ FreshOf(n, nh, now) # {} => has
        /\ has => /\ window.samples \in
                       Cardinality(FreshOf(n, nh, now)) .. Cardinality(FreshOf(n, nh, t))
                  /\ window.avg_srtt_us <= window.max_srtt_us
                  /\ \E e \in FreshOf(n, nh, t) : Srtt[e.id] <= window.avg_srtt_us

(* What a snapshot says of a nexthop rests on samples that were inside the  *)
(* window when it read the clock, however late their events were handled:   *)
(* it counts all that are fresh at the end and none that was stale at the   *)
(* start, its average lies between the smallest and the largest of them.    *)
SnapshotCountsTheWindow ==
  [][\A r \in Readers : reader[r].pc = "lock" /\ reader'[r].pc = "have" =>
       CountsTheWindow(reader'[r].windows, reader[r].now_ns)]_vars

(* A nexthop with no sample has no window. An empty window would be all     *)
(* zeros, and the descent would take its nexthop for the fastest.           *)
NoEmptyWindow ==
  \A n \in DOMAIN samples :
    /\ DOMAIN samples[n] # {}
    /\ \A nh \in DOMAIN samples[n] : samples[n][nh] # <<>>
============================================================================
