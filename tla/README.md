# TLA+ specifications of erez

`erezd` steers packets over several BGP nexthops by their measured latency. On
a metal (*encap* mode) it learns nexthops from BGP routers, writes weighted
entries into a map that an eBPF program reads for every packet, measures the
RTT of TCP sockets in eBPF and moves the weights by online gradient descent. On
an edge router (*decap* mode) an XDP program strips the tunnel and forwards the
inner packet to the nexthop that the tunnel's address encodes. The BGP speaker
and its codec are a vendored and patched copy of netgauze.

This directory specifies that system: one module per component, TLC runs on
small instances, and TLAPS proofs about every modelled component. `PROJECT.json`
maps every definition to the lines it models and lists runs, mutants, hazards,
findings and theorems. Paths below are relative to the repository root, with
`src/` as in `PROJECT.json`.

## 1. Inventory

| component | state it keeps | operations | talks to |
|---|---|---|---|
| steering controller (`erezd/src/steering.rs`, `Fib` in `bpf.rs`) | RIB (NLRI to list of path id and nexthop), weights per NLRI and nexthop | apply an update, one tick per second | takes updates from a channel of 32; reads RTT snapshots; writes `e_fib` |
| daemon/eBPF ABI (`bpf_abi.rs`) | none | addresses and prefixes to trie keys and back | controller, aggregator, eBPF |
| encap data plane (`bpf/erez.bpf.{c,h}`) | `e_fib`, a sticky nexthop per socket, ring buffer | `erez_encap` per packet on every CPU, `erez_sockops` per TCP callback | reads what the controller writes, feeds the aggregator |
| decap data plane (same files) | none beyond the packet | parse, decapsulate, decrement, forward | the kernel's routing |
| RTT aggregator (`rtt_aggregation.rs`, `poll` in `bpf.rs`) | samples per NLRI and nexthop, behind a mutex | `observe` on the polling thread, `snapshot` by controller and metrics | ring buffer, controller |
| daemon lifecycle (`main.rs`, attach and detach in `bpf.rs`) | the attached programs, the `JoinSet`, the cancellation token | start, attach, shut down, crash | all tasks |
| BGP connection (`netgauze/bgp-speaker/src/connection.rs`) | FSM state of a TCP connection, three timers | `poll_next`, four event handlers | peer |
| BGP peer (`peer.rs`, `peer_controller.rs`) | administrative and FSM state, main and tracked connection, retry timer, stack of waiting events | `run`, one event per call, dropped at any await by an administrative event | reports events on an unbounded channel |
| BGP update feed (`erezd/src/bgp.rs`, `handle_update_message`) | the two queues, one task per peer | check, classify, convert and forward an UPDATE | peer to controller |
| BGP codec (`netgauze/bgp-pkt`, with `iana` and `parse-utils`) | a read buffer, whether the OPEN sent and the OPEN received offer four-octet AS numbers | `encode` and `decode`; a reader, a writer and a length for each of some 150 kinds of message, attribute, route and TLV | the connection's socket on one side, its events on the other |
| listener, supervisor, collectors, configuration, lab | | | not modelled, section 8 |

What is hard here, and to test in particular:

- **Interleaving.** The data plane sees the map between any two writes of a
  tick or an update. Two CPUs run `erez_encap` for one socket. Three threads
  read the clock before they take the aggregator's mutex.
- **Cancellation.** `peer.run()` is dropped at whatever `await` it is in when
  an administrative event arrives.
- **Failure.** The map is full, socket storage cannot be allocated, a BGP write
  fails or blocks, `detach` fails, the daemon crashes and is started again.
- **Order.** Time stamps and clock readings out of order, two connections that
  collide, attributes of an UPDATE in any order.
- **Numbers.** Rounding of weights over thousands of steps, `u16` quantisation,
  the incremental checksum's carry, prefix lengths shifted by the IPv4 mapping.
- **The wire.** TCP cuts messages anywhere. Lengths are computed by other code
  than the octets they count, and octets are read by other code than the code
  that wrote them: a slip in one of hundreds of small functions shifts all that
  follows, and only if that kind of message is ever sent.
- **Progress.** A full channel shared by all peers, ticks against repeated
  announcements, a silent BGP neighbour, a shutdown with an open client.

What makes each component correct: the map steers to the nexthops of the RIB
and to the cheapest of them; every entry written is one the program accepts; a
TCP socket keeps one nexthop and its RTT is charged to it; a forwarded packet
is a valid one; no fresh sample is lost and no empty window looks fast; the
attached program belongs to the running daemon and a shutdown ends; the FSM
state reported is that of the connection; a message is decoded as it was
encoded, whole, and what is no message is refused for the right reason; every
valid UPDATE changes the RIB once, in order, as it means to, and one with errors
never in a way that its treatment excludes.
`PROJECT.json` lists the 40 hazards behind these with the line where each bites.

## 2. Modules

```
Descent <- Steering <- MCSteering      Abi, Descent <- Encap <- MCEncap
Connection <- Peer <- MCPeer           Abi <- Decap <- MCDecap
RttAggregation <- MCRttAggregation     Daemon
UpdateMessage <- BgpUpdates <- MCBgpUpdates,  BgpUpdates => RouteFeed

Octets, Iana <- AddressFamily, Tlvs, Communities, Nlri, BgpLs, LinkState,
                PrefixSid, MpRoutes, PathAttributes, Capabilities, Notifications
             <- Messages <- Survival <- Codec <- MCCodec

Descent <- DescentProofs
DescentProofs, Steering <- SteeringProofs    DescentProofs, Encap <- EncapProofs
RttAggregation <- RttProofs                  Peer <- PeerProofs
BgpUpdates <- BgpUpdatesProofs               Codec <- CodecProofs
Daemon, Decap <- DaemonProofs
```

An arrow is `EXTENDS`; `BgpUpdates` instantiates the abstract `RouteFeed`.
`DaemonProofs` is about the daemon and the program it attaches to a router.

**Descent** is the arithmetic of `steering.rs`: `reconcile`, `gradient`,
`descend` (the update loop of `step`), `project`, `quantise`, `balance_equally`
and `FibEntry::new` with its checks and its sort. An `f64` weight is a
fixed-point number with `Precision` units per integer weight. Where a division
is inexact the operator returns the set of results rounded either way, so a
property holds for every rounding an `f64` could show.

**Steering** is `Controller::run` and the objects it owns. `Recv` takes an
update and lists its routes, announcements first; `ApplyRoute` handles one of
them (`rib.insert` or `rib.remove`, then `update_fib`, with its failing write);
`Tick` takes a snapshot and `SteerNlri` handles one NLRI of it, in any order,
as the hash map gives them; `TickFails` is the early return when the snapshot
fails; `Stop` is the shutdown or the closed channel. `ApplyRoute` and
`SteerNlri` each hold exactly one map write: all states the data plane can see
are states of the model. `Send`, `DropSenders` and `Cancel` are the other ends.

**Abi** has `CIpv6Addr`, `CNlri` and their inverses, and the kernel's
longest-prefix match as the code uses it, over addresses of `AddrBits` bits.
`AbiAssumption` has one fact about the mapped prefix `::ffff:0:0/96`: it ends
in a one.

**Encap** runs `erez_encap` on each CPU as the accesses to shared state it
makes: `Begin` (parser), `StickyLookup`, `FibLookup` with
`fib_entry_select_nexthop`, `StickyStore` or `StickyStoreFails`, `Encapsulate`.
`erez_sockops` is `Established` and `emit_tcp_rtt_event`. `FibInsert` and
`FibDelete` are the controller's writes, `Consume` the polling thread, `Close`
the end of a socket. A TCP socket sends under its lock from one CPU at a time;
a UDP socket from any.

**Decap** is `erez_decap` in its three parts, with the TTL, the checksum in
16-bit arithmetic, the MAC addresses and the verdict. Routing is a table.

**RttAggregation** splits `observe` and `snapshot` at the mutex: the clock is
read in one step, the table used in another. `retain` and the `sum` of
`from_samples` are recursive functions over the samples; `prune`,
`saturating_sub` and the window are operators.

**Daemon** is `main`: `Start`, `Attach` (replacing what a crashed daemon left),
the tasks, `Wake` on a signal or on the end of any task, `Detach` with the
error codes `is_not_attached` looks at, `Cancel`, the drain with its timeout,
and `Exit`, which waits for the blocking thread.

**Connection** is a connection as a record (state, timers, identifier) with
`poll_next` (the events a connection can yield) and `handle_event` (the four
handlers) as operators that return every outcome: writes may fail, or wait for
room in the socket.
**Peer** is `Peer::run` around two of them: administrative events popped from a
stack, the active connect, the retry timer, `MainEvent` and `TrackedEvent` with
the collision check after each poll. `handle_peer_event` drops `run` wherever
it is, in a connect, a read or a write; the locals that get lost are variables.

**UpdateMessage** is `handle_update_message`, `update_treatment` and
`Update::try_from` over abstract messages. **BgpUpdates** is the way of an
UPDATE: the peer reports it, `process_bgp_updates` filters and converts it,
`send` waits for room, `recv` applies it. **RouteFeed** is the promise: the
changes of a peer reach the RIB once and in order while the controller listens.

**Octets** has what the codec's readers and writers are made of. A reader
returns a value and the octets behind it, or an error (`Bind` is `?`), or
`Incomplete`: nom's `length_data` says so when fewer octets are left than a
length announces, and no reader turns that into an error of its own
(`MapError`; `LengthTake` is for the readers that take the octets in another
way and fail). `Codec.DecoderError` is what decode makes of either. A writer
returns its octets and, apart from them, the `len` the code computes: the two
come from different functions of the code, so the model keeps them apart and
checks that they agree. **Iana** has the registries (`iana.rs`), **AddressFamily**
the pairs of AFI and SAFI the codec knows, **Tlvs** the shape shared by all TLVs.

**Nlri** (routes of every family, labels, distinguishers, EVPN, prefixes of n
bits), **BgpLs** (link-state routes), **Communities**, **LinkState** and
**PrefixSid** (the TLVs of two attributes), **MpRoutes** (MP_REACH and
MP_UNREACH by family, with the next hop of each), **PathAttributes**,
**Capabilities**, **Notifications** and **Messages** each have, for a kind of
value: a few samples of it, its reader, its writer. An address is a sequence of
octets and a number its octets too, except where it is counted or compared; the
samples have distinct octets (`Ramp`), so that a swap or a shift shows.

**Survival** says which messages come back from the wire as they were written.
It names every loss the code has, at its line (section 5).

**Codec** is two ends with a `BgpCodec` each and the byte stream between them:
`Encode`, `Deliver` in pieces, `Decode`; the peer sends an OPEN with any
capability, a NOTIFICATION, a ROUTE-REFRESH, an UPDATE with any attribute or
routes, a KEEPALIVE behind it, or a frame that breaks one rule (`MCCodec`).

## 3. Runs

Ten runs pass. Every property of each has a mutant, a plausible mistake in the
code, that TLC refutes (`PROJECT.json`, `mutants`).

| run | bounds | what it shows |
|---|---|---|
| `steering_learning` | 1 NLRI, 3 path ids on 2 nexthops and 2 slots; paths move, share a nexthop, are withdrawn, or announced and withdrawn by one update; each nexthop unmeasured, fast or slow at every tick; denominator 12, 3 units per weight; 1.7 million states | `RibWellFormed`, `FibMatchesRib`, `FibCoversRib`: whatever updates and ticks interleave, `e_fib` lists the RIB's nexthops; `WeightsOnSimplex`, `FibEntriesUsable`, `SteeringReachesFib`, `CheaperStaysAhead`: no drift, no rejected entry, no nexthop overtakes a cheaper one |
| `steering_converges` | 3 nexthops with ranked costs, a second NLRI that competes for the only place in the map; fairness | `BestNexthopWins`, `RouteEventuallyInstalled` |
| `encap_sockets` | 2 CPUs (symmetric), a TCP and a UDP socket, 2 nested prefixes, ring buffer of 1; 430,728 states | `TcpStaysOnOneNexthop`, `RttNamesItsPath`, `FirstNexthopStays`; and over all 4-bit addresses, any three prefixes and every entry of up to three nexthops, `LookupStaysInFamily` and `TicketsFollowWeights` |
| `decap_forward` | 3 nexthops (routed, via the ingress interface, unrouted), 8 TTLs, 21 checksum words around the carries | `ForwardedIntact` |
| `rtt_window` | 2 NLRIs, one of them malformed, 2 nexthops, 2 readers, window 1, 3 events, clock up to 3, ring buffer of 1 | `NoFreshSampleLost`, `NoEmptyWindow`, `SnapshotCountsTheWindow` |
| `daemon_encap` | 4 starts; fairness | `LiveProgramIsOurs`, `DetachedBeforeCancel`, `ShutdownCompletes` |
| `peer_admin` | two remote identifiers around ours, starts, stops and connections, two waiting events, failing and blocking writes in every handler; 1.1 million states | `DownMeansDown` |
| `peer_session` | a peer started once as `erezd` does, hold times 0 and 180, connections of the remote side, one waiting at a time, blocking writes; fairness; 88,760 states | `NoInvalidTransition`, `FsmFollowsConnection`, `TrackedStaysBehind`, `SetupIsDecided` |
| `codec_stream` | two codecs; every kind of message, capability, attribute, family, community and TLV in one to three samples, in front of another attribute or message, lists of none, one and, for cluster lists, two, an attribute of 256 octets; cuts after 18 and 19 octets and before the last; AS numbers of two and four octets; 25 malformed frames, 4 of them cut behind a length; 166,979 states | `StreamStaysAligned`, `LengthsAreExact`, `ReadBackExactly`, `RefusedForCause`, `AsnWidthAgreed`, `ErrorsAreNamed`, `NothingIsLeftUnread` |
| `updates_feed` | 2 peers, channel of 1, one waiting event each, valid UPDATEs, refused ones and one for each of three treatments; fairness; 36,504 states; conversion over all lists of up to 4 distinct attributes of 9 | `ImplementsFeed` (the refinement), `AnnouncedReachesRib`, `UpdatesKeepTheirMeaning` |

`LookupStaysInFamily`, `TicketsFollowWeights` and `UpdatesKeepTheirMeaning` are
about pure functions and compare each with a reference for all bounded inputs;
they do not depend on the state, so they are guarded by `Init` and TLC
evaluates them once, in the initial state.

What some of them do not say. `NoInvalidTransition` is about the table of
transitions of the main connection; the two other ways to the same error are in
section 5. `ShutdownCompletes` is about a shutdown whose detachment succeeds.
`UpdatesKeepTheirMeaning` and `ImplementsFeed` ask that a valid UPDATE takes
effect, and that one with errors has, if any, the effect that the documentation
of its treatment names: a daemon that processed an UPDATE after AttributeDiscard
would satisfy them as the present one does, one that announced the routes of a
TreatAsWithdraw or a SessionReset would not. `ErrorsAreNamed` compares a frame's
error with the one its rule names; of a frame that is cut behind a length it asks
only that it is refused. `TcpStaysOnOneNexthop` and `RttNamesItsPath` are
checked with one remote host and proved for any.

Why the bounds are enough:

- *Steering.* Three paths on two slots exceed `MAX_NEXTHOPS`; two nexthops let
  a path move and two paths share one; two NLRIs on one place
  (`steering_converges`) make every write fail at some time. NLRIs share nothing
  else: `FibMatchesRib` is checked with one and proved for any. Larger channels only delay what a channel of 1 already
  reorders against ticks. The proofs drop these bounds for all but
  the two liveness properties.
- *Weights.* The denominators are small so that TLC can follow the descent
  until it meets the floor. The ratios (floor well below an equal share, several
  steps until the floor) are those of the code.
- *Data plane.* 4-bit addresses with 2-bit IPv4 have prefixes inside, outside
  and across the mapped range. Two CPUs are what the race of lookup and store
  needs.
- *RTT.* Three threads with stale clock readings and a window of one tick reach
  every order of pruning and insertion.
- *BGP.* Two connections are all a peer holds. Identifiers on both sides of
  ours decide a collision either way. Two waiting events show the stack order. A hold time of zero
  only takes timers away; `peer_session` has it.
- *Codec.* The readers and writers are pure: a sample of each kind, with
  distinct octets and another value behind it, shows a wrong order, width or
  length. Boundaries have samples of their own: prefixes of 0, 8k and 8k + 1 bits
  and with host bits, empty and longer lists, an attribute past 255 octets.
  decode looks at the buffer in two places, before and behind the 19 octets of a
  header; the cuts are there and one octet before the end.

`LengthsAreExact` has the header's length field as well: at least 19 octets are
written and the field is wide enough for the number. The proofs about the stream
start from it.

`CHECK_DEADLOCK FALSE` is set for `Daemon` and `Codec`, whose starts and
messages are bounded.

## 4. Fairness

- *Steering.* An iteration that has begun is finished (weak fairness): the
  task holds no lock and waits for nobody. `select!` polls its branches in
  random order, so a branch that is ready again and again is taken (strong
  fairness on `Recv`, `Tick`, `Stop`). A snapshot does not fail for ever: it
  fails only on a poisoned mutex or a broken clock.
- *Daemon.* Weak fairness for the steps of `main`, the drain's timeout and the
  polling thread, which looks at the token every time its poll times out. The
  tasks get none: a metrics client may hold its connection for ever.
- *Peer.* Weak fairness for waiting administrative events; strong fairness for
  a timer that runs, because an interruption leaves the timer in the connection
  and the next `run` finds it expired. The remote side owes nothing.
- *Codec.* None. That a message which has arrived is decoded is stated as an
  invariant, `NothingIsLeftUnread`: when everything has been delivered and decode
  asks for more, nothing is left.
- *BgpUpdates.* Weak fairness for the tasks; strong fairness for `send`, since
  tokio's channel serves waiting senders in order.

## 5. Findings

Two places where the code and its comments disagree are kept as runs that must
end in a violation.

- `steering_old_nexthops`: `reconcile` (`steering.rs:273`) compares the number
  of stored weights with the number of *paths*. When two paths come to share a
  nexthop the count still agrees, and the tick writes an entry that steers to a
  nexthop no path has any more. `FibMatchesRib` therefore speaks of paths with
  distinct nexthops.
- `decap_pass`: the test for the ingress interface (`erez.bpf.h:502`) follows
  the TTL decrement and the MAC rewrite, so the packet "handled normally by the
  kernel" is not the packet that was received.

The models show these as well; the properties above are stated so as to except
them, and no run is kept for them:

- A nexthop without RTT data is put on the floor (`steering.rs:251`), and then
  `project` shares the freed weight out to it again.
- The weights of a withdrawn NLRI are never removed: `steer_fib` visits only
  the RIB's NLRIs, so `step`'s removal (`steering.rs:217`) is not reached.
- Two CPUs that send the first packets of a UDP socket can both miss and choose
  different nexthops (`erez.bpf.c:148`; the comment at 14 promises one), and an
  unconnected UDP socket uses the nexthop of its first destination for all.
- `is_not_attached` (`bpf.rs:234`) hands negative numbers to `Errno::from_raw`
  and is always false: in decap mode, where no TC program exists, every
  shutdown fails in `detach` and skips the cancellation.
- A tracked connection that has failed is kept, although `peer.rs:1348` says it
  is dropped; one with another BGP identifier is only forgotten by the current
  call (`peer.rs:1459`), and while it exists every poll loses an event of the
  main connection. A collision decided for the main connection loses the OPEN
  that revealed it (`peer.rs:1450`). `SetupIsDecided` excepts both.
- A `shutdown` that waits for a write is dropped by the next administrative
  event, with its stop event gone and its connections left (`peer.rs:811`).
  `DownMeansDown` excepts it. The same holds of the other handlers. In
  OpenConfirm, `Terminate` is set before the write (`connection.rs:737`): dropped
  there, the connection stays, and its next event ends the peer's task with an
  invalid transition (`task` is "terminated"; `NoInvalidTransition` tells it from
  a gap in the table). A collision whose Cease waits has already taken both
  connections (`peer.rs:1505`): dropped there, the FSM stays in OpenSent or
  OpenConfirm with none, which `FsmFollowsConnection` and `SetupIsDecided` except.
- Messages of the remote side alone can end the peer's task with
  InvalidConnectionStateTransition (`task` is "collision"). The check for a
  collision asks whether both connections know the remote identifier, not how
  far the tracked one is. When the remote identifier is the larger one, the
  tracked connection wins, and `fsm_state_from_tracked` (`peer.rs:893-909`, from
  1508) refuses it if its own OPEN has not been written yet, or if a
  NOTIFICATION has ended it. `NoInvalidTransition` does not cover this end.
- A refused connect takes the retry timer away and stays in Connect
  (`peer.rs:874-876`; action `ConnectFails`): nothing is left that would try
  again, and the peer waits for the remote side to connect. `SetupIsDecided`
  speaks of Active, OpenSent and OpenConfirm only.
- An UPDATE with any treatment but Normal is dropped (`bgp.rs:314`).
  `events.rs:43-47` says that after `AttributeDiscard` it "continues to be
  processed", and `events.rs:49-55` that after `TreatAsWithdraw` its routes are
  withdrawn; the code leaves the RIB as it was. `SessionReset` resets nothing
  (`connection.rs:868`, against `events.rs:65`).
- A second MP_REACH after the mandatory attributes is not noticed
  (`connection.rs:1284`): the scan stops early. `AnyMessage` has no repeated
  attributes for that reason.

- An UPDATE or OPEN in which a length announces more octets than are left is
  answered as a header error, BadMessageLength, without octets
  (`codec.rs:123-128`, `events.rs:424-428`): the readers' Incomplete passes all
  error mapping. For an UPDATE whose attributes are too long,
  `deserializer/update.rs:301-305` says that the subcode "MUST be set to
  Malformed Attribute List". `ErrorsAreNamed` claims no name for such frames
  (`Truncated` in `MCCodec`).
- A prefix outside unicast is an error in the context `erezd` uses, with the
  name `update.rs:402-405` gives it, although `update.rs:85-87` says that it
  SHOULD be ignored. A NOTIFICATION that cannot be read is logged and not
  answered, as `events.rs:302-304` says; `ErrorsAreNamed` claims its event only.

### What the codec loses

`ReadBackExactly` is an equivalence: what `Survival` admits is read back
exactly, and what it names as lost is lost. The losses, with paths relative to
`netgauze/bgp-pkt/src/wire`:

- IPv4 and IPv6 unicast routes are read with a path id whatever was negotiated
  (`deserializer/update.rs:155`, `path_attribute.rs:790`; the daemon needs it),
  but IPv6 withdrawals without one (`path_attribute.rs:1092`): the withdrawal of
  an IPv6 path is read as other prefixes, or refused.
- Capabilities: add-path is always offered as receive only
  (`serializer/capabilities.rs:265`), and multiple labels are written without
  their length (93): the OPEN is too short and the other end waits for the rest.
- Withdrawn route targets are read as EVPN routes
  (`deserializer/path_attribute/path_attribute.rs:1127`), an EVPN route of an
  unknown type from behind itself (`deserializer/nlri/nlri.rs:815`), and one
  label is read of a stack (1166).
- Attributes behind a link-state attribute are not read
  (`deserializer/path_attribute/bgp_ls.rs:83`).
- Not written: host bits of a prefix, the link-local part of a labelled next
  hop, the distinguisher of a link-state next hop, the source AS subtype of a
  community (written as route target). Read wrongly: the fourth octet of two
  EVPN communities.
- Lengths that are wrong, so that everything behind them is shifted: an MP_REACH
  of an unknown family, an attribute of 255 octets or more without its flag,
  link protection, OSPF forwarding address and unknown SID TLVs. The decoder
  hands the reader the whole buffer, so such a message may even be read with
  octets of the next one (`codec.rs:106`); `StreamStaysAligned` holds up to it.

`erezd` sends OPEN, KEEPALIVE and NOTIFICATION only and reads unicast routes, so
the first two are the ones that reach it.

## 6. Proofs

The theorems hold for every value of the constants that satisfies the named
assumptions; TLC evaluates those in the runs that extend the module.

| module | theorems | from |
|---|---|---|
| `SteeringProofs` | `TypeCorrect`, `RibStaysWellFormed`, `FibFollowsRib`, `RoutesAreInstalled`, `EntriesStayUsable`, `DescentStaysOnSimplex`, `TicksReachFib`, `CheaperKeepsItsLead` | `SteeringAssumption` (finitely many NLRIs; updates and snapshots have their types), `DescentAssumption` |
| `EncapProofs` | `EncapTypeCorrect`, `SocketsKeepTheirNexthop`, `RttIsOfThePathTaken`, `StoredNexthopStays`, `TicketsAreFair`, `LookupsKeepTheirFamily` | `EncapAssumption` (canonical prefixes, entries that `FibEntry::new` accepts), `DescentAssumption`, `AbiAssumption` |
| `RttProofs` | `FreshSamplesStay`, `NoWindowIsEmpty`, `SnapshotsCountTheWindow` | `RttAssumption` |
| `DaemonProofs` | `ServesWithItsOwnProgram`, `CancelsDetached`, in either mode; `ForwardsIntact` | `DecapAssumption` (a TTL is an octet, the other words of a header have 16 bits) |
| `PeerProofs` | `PeerTypeCorrect`, `StoppedPeerIsQuiet`, `TransitionsAreAccepted`, `OneSessionOnly`; `StateFollowsConnection` for a peer that is started once | `PeerAssumption`, `ConnectionAssumption` |
| `BgpUpdatesProofs` | `FeedTypeCorrect`, `MeaningIsKept`, `ConversionKeepsMeaning`, `FeedIsImplemented`; all but the first for messages without repeated attributes | `BgpUpdatesAssumption` (messages over some set of routes) |
| `CodecProofs` | `FramingIsKept` if `LengthsAreExact` is an invariant; `AllIsRead` and `WidthIsAgreed` if `ReadBackExactly` is one too | `MalformedAssumption` (frames are octets) |

`DescentAssumption` asks for at most four slots, a floor of at least one integer
weight for each of them and rounding errors below one integer weight. The code's
constants (4, 10,000, 0.01) satisfy it.

Two theorems have a hypothesis of their own, which the code does not guarantee
in general; those about the codec have one that is checked elsewhere (see below). `StateFollowsConnection` assumes `StartedOnce`, which is how `erezd`
uses the speaker: a second start would set the retry timer under a connection
that still waits. `FeedIsImplemented` assumes that no message repeats an
attribute, which section 5 lists as a flaw of the scan.

**Induction over data.** What a recursive function, a fold or a sum computes is
needed in several places. The library's induction theorems cannot be
instantiated, so the proofs take the *set* of the numbers that have a property
and its least counterexample (`Least`, `InductUpTo`, from `WFMin`). A recursive
function is a `CHOOSE`: what it computes follows once some function is shown to
satisfy its equation (`DoublesExists` for the powers of two, `SumsExists` for the
sum of the samples, `FlattenIsPartial` for the octets of a stream). Sums of at
most four weights are written out (`DescentProofs`).

### Steering

`FibMatchesRib` is not inductive. A tick writes what `quantise` makes of stored
weights, so their keys have to be the nexthops that `reconcile` was given;
`FibEntry::new` accepts an entry only if no weight is zero, so every stored
weight has to be above the floor; the tick's NLRIs have to be in the RIB still;
the RIB has to be well formed for `remove` to leave either a path or no entry.
The inductive invariant `IInv` is the conjunction of

- `QueueOK` and `ControlOK`: types, the channel's bound, an update in progress
  has a route left, a tick visits NLRIs of the RIB;
- `RibOK`, `FibOK`, `WeightsOK`, `SnapshotOK`: the shape of the four tables;
- `Match(fib, rib)`: `FibMatchesRib` for explicit arguments.

On top of it `DataPlaneInv` says what the data plane relies on: every entry is
sorted, above the floor and sums to the denominator (`FibUsable`), every NLRI of
the RIB is in a map that has room for all (`Cover`; the NLRI that is added finds
a place by counting), stored weights are within rounding of the simplex
(`OnSimplex`).

`DescentProofs` characterises each operator of `Descent` once: sorting is a
bijection (`SortIsBijection`), an accepted entry keeps its nexthops
(`FibEntryProperties`), `reconcile` returns weights for exactly the given
nexthops if they are distinct (`ReconcileProperties`), a gradient step and the
projection keep the keys and the floor (`DescendProperties`,
`ProjectProperties`, `StepProperties`), quantising keeps the nexthops
(`QuantiseProperties`), equal weights are always accepted (`BalanceAccepted`).
`SteeringProofs` does the same for the RIB and the map writes. `NextInvariant`
then has one case per action; the ones with content are `ApplyRouteInvariant`
and `SteerInvariant`, where a failed write leaves an old entry whose nexthops
have to be compared with the new path list. The two action properties,
`TicksReachFib` and `CheaperKeepsItsLead`, follow from the invariant and the
operators' lemmas for the one step that writes.

### Encap

`TcpStaysOnOneNexthop` compares what was sent, which the code does not store.
`EncapInv` ties it to the storage: one CPU at a time sends for a TCP socket
(`Alone`); after a miss the storage stays empty until that CPU fills it, and
then packet and storage agree unless the kernel had no memory (`CpusFit`); what
was sent took the stored nexthop (`SentFollowsSticky`); a stored nexthop was
chosen for a prefix of the peer (`StickyCovers`); an event that waits names what
its socket still has (`EventsFollowSticky`). `FibInsert` and `FibDelete` disturb
none of them, which is the point. `TicketsAreFair` counts: the tickets of a slot
are the interval between two partial sums, and a bijection of slots (the sort)
keeps what every nexthop gets.

`LookupsKeepTheirFamily` is about shifts by any number of bits. Division by a
power of two composes (`DivTwice`), so that two addresses which agree on a prefix
agree on every shorter one (`ShorterAgrees`), and an IPv4 prefix covers mapped
addresses only (`CoversItsFamily`). The address of an IPv6 prefix that is no
longer than the mapped one could be read back as IPv4; its last bits are zero and
the mapped prefix ends in a one, so it is not (`QuotientIsEven`, `RoundTrip`).

### Decap

`DecapInv` follows the packet: until the program returns, it is the one received
but for the outer headers, and a redirected one has a TTL left, a checksum that
fits and its encoded nexthop. The content is `ChecksumFollowsTtl`: the
incremental update, carry included, is what the new header asks for, for every
TTL above 1 and every sum of the other words.

### RTT

A thread reads the clock before it has the mutex, so it prunes with an older
clock than the thread before it. `RttInv` says that such a reading is never
ahead of the clock (`ReadEarlier`), that an event is in one place only
(`OneCopy`), and that the table holds exactly one copy of each accepted sample
that is fresh now, under its own nexthop, and nothing that was never accepted
(`Windowed`). `PruneKeepsWindow` is the core: an old reading prunes less.

A snapshot counts a list, the property a set: `AllDifferent` says that no list
has a sample twice, so that the pruned list and the set of its samples are equally
large (`PrunedCounts`). The average is between the least and the largest sample
because the sum is between n times the one and n times the other (`Extremes`,
`AverageBetween`).

### Daemon

`LifeInv` adds where `main` is: the token is set only while it drains and returns,
and its own hook is empty from the cancellation on. `NoErrorIsForgiven` is why:
`is_not_attached` recognises no error, so a detachment that goes on to the
cancellation has succeeded on both hooks.

### Peer

`Safe` is the conjunction of `TrackedStaysBehind`, `NoInvalidTransition` and
`DownInv`. `DownMeansDown` alone is not inductive: a stopped peer has to be Idle
for `connect` to be disabled, and one whose `shutdown` waits for a write is
already down, Idle and without a timer. For `FsmFollowsConnection`, `OnceInv`
adds that the only start is at the bottom of the stack and taken while the peer
is down, and that the retry timer never runs beside a main connection, since its
expiry would drop the connection and keep the state. `Connection`'s operators
are characterised by the transitions they can make, one lemma per handler
(`Accepted`).

### Update feed

`MeaningIsKept` is about one message: `ScannedProperties` says what the scan,
which stops early, has seen; `PassedIfValid` that exactly the valid messages
pass; `ReadAsMeant` that `try_from` reads the routes a valid message means;
`ValidIsMeant` that the reference for messages with errors agrees with it.
`ConversionKeepsMeaning` says the same of the messages TLC enumerates
(`AnyMessage`, a constant).

`FeedIsImplemented` is the refinement. `RouteFeed`'s pending changes of a peer
are those in the shared channel, in the hand of its task and in its reported
events, in this order (`Way`). With the same lemmas, a reported event adds one
change if its message is valid and none otherwise (`ValidReport`,
`EmptyReport`; `PromisedIsPromise`, as the code passes on no message with an
error); `process_bgp_updates` and `send` move it from one part to the
next and stutter (`ProcessStutters`, `SendStutters`); `recv` takes the first
change of one peer and no other's (`RecvDelivers`); `Shutdown` is
`Unsubscribe`. The lemmas rest on what `FlattenSeq` does to a list with
something appended (`FlattenAppend`) or taken from its head (`FlattenHead`). The
invariant `FeedInv` says that the queues hold only events of messages that were
not refused, and updates that pass.

### Codec

What one of the hundreds of writers and readers computes for a message is beyond
the provers. That is a question about single messages, and the messages the ends
send do not depend on the constants: `codec_stream` asks it of each of them
(`LengthsAreExact`, `ReadBackExactly`). The theorems take these two invariants as
hypotheses and prove what the stream makes of them, for any cuts and any frames
that are no message.

`StreamInv` is the invariant: of each direction, as long as the messages decoded
so far are of the right length, buffer and wire together are what was written of
the messages behind them (`InStep`). Sending adds octets at the end
(`SendInStep`), TCP moves some from the wire to the buffer (`DeliverInStep`). For
decode, the header at the head of the buffer is the one of the next message, cut
or not (`SameHeader`), so it announces that message's length (`HeadInStep`), and
what is dropped is that message (`TakenOff`, `DecodeInStep`). `FramingIsKept`
follows at once. For `AllIsRead`, a message that survives has the right length
(`SurvivorsAreSized`), and a buffer that holds all that is left holds the next
message (`AllHasMessage`): decode could not have asked for more.

`WidthIsAgreed` needs the session. `SessionInv` says that the local side sends
one OPEN, that the peer sends an UPDATE only as its second message, behind an
OPEN and after it has read the other one, and what a codec knows of the OPENs
after at most one message (`Knows`). With the framing, the peer has read one
message, and it was that OPEN; so both codecs know the same two OPENs.

## 7. Model-checked only

- All liveness: `BestNexthopWins`, `RouteEventuallyInstalled`,
  `ShutdownCompletes`, `SetupIsDecided`, `AnnouncedReachesRib`. The prover has
  no fairness reasoning.
- `LengthsAreExact`, `ReadBackExactly`, `RefusedForCause` and `ErrorsAreNamed`:
  what hundreds of readers and writers compute for the messages and frames of the
  run. They are folds and recursive functions over octets with operators as
  parameters, about which the provers have no lemma to start from; and the
  samples are definitions, so a proof would evaluate them as TLC does.

## 8. Abstractions, and what is not modelled

- `f64` is fixed point with both roundings. Infinities and NaN cannot arise:
  every division is by a positive count or sum.
- Two IPv6 prefixes and IPv4 prefixes have different keys, except IPv6 prefixes
  inside `::ffff:0:0/96`, which `LookupStaysInFamily` leaves out.
- A BGP write that waits and then succeeds is not told from one that does not
  wait, except in `shutdown` and for the tracked connection, during whose write
  the main one is polled on. The Cease of a rejected connection changes nothing
  and is left out.
- One parsing error stands for each treatment in `update_treatment`; AS4_PATH
  counts as AS_PATH; capabilities, statistics and the policy hooks (the
  identity in `erezd`) are left out.
- The scale of the kernel's `srtt_us` against `rtt_min` is not modelled: the
  descent compares gradients of one kind with each other.
- Timers may expire at any time; durations have no meaning.
- The codec's contexts that go on after an error (`fail_on_*` false,
  `handle_path_error`) are left out, as `erezd` never asks for them, and so are
  the maps of negotiated add-path families and label counts, which nothing fills
  (`update_capabilities` has no caller). Positions of errors, their wording and
  the macros that derive error types are left out; an error is its name.
- Not modelled: the BGP listener and supervisor (a table filled before the
  speaker runs; an accepted socket is one event of `Peer`), the Prometheus collectors (nothing reads them
  back; their calls of `snapshot` are a reader of `RttAggregation`),
  configuration, interface lookup and logging, and the lab in `erez_test`.

## 9. Plan

Done: every component with its run, and the proofs of section 6. Next, in this
order:

1. Composition of `Steering`, `Encap` and `RttAggregation`: the loop from a
   measured RTT to the nexthop of the next socket, in place of the fixed
   snapshots and entries of the single modules.
2. A RIB per peer in `BgpUpdates`: colliding path ids, routes of a lost session.
3. `LengthsAreExact` for any value of a kind in place of its samples, from lemmas
   about `WriteEach` and `Behind`: the length of a list is the sum of its parts.

## 10. Running

```
tlc -config SteeringLearning.cfg MCSteering
tlapm SteeringProofs.tla
```

Each run of `PROJECT.json` names its module and `.cfg`.
