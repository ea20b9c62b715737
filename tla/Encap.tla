------------------------------- MODULE Encap -------------------------------
(***************************************************************************)
(* The data plane of a metal: erez_encap, which every CPU runs on every    *)
(* packet it sends, and erez_sockops, which reports the RTT of a TCP       *)
(* socket (erez.bpf.c, erez.bpf.h).                                        *)
(*                                                                         *)
(* The CPUs share e_fib, which the controller writes at any time, and the  *)
(* sticky nexthop in the storage of a socket. A program's accesses to them *)
(* are its steps. A lookup in e_fib returns a node that is never written   *)
(* again (an update swaps the node in), so it is a copy here.              *)
(***************************************************************************)
EXTENDS Descent, Abi

CONSTANTS
  Cpus,
  TcpSockets,    \* a TCP socket sends to one address, from one CPU at a time
  UdpSockets,    \* a UDP socket may send to any address, from any CPUs
  NoSocket,      \* skb->sk of a packet that no local socket sent
  Remote,        \* the address of each TCP socket's peer, as octets
  Hosts,         \* the destinations of packets, as octets
  Nets,          \* the NLRIs the controller installs
  Entries,       \* the entries it installs: lists of weighted nexthops
  RingCapacity   \* events that fit e_tcp_rtt_events

Sockets == TcpSockets \cup UdpSockets

None == [none |-> TRUE]
Refused == -1

ASSUME EncapAssumption ==
  /\ NoSocket \notin Sockets /\ TcpSockets \cap UdpSockets = {}
  /\ Remote \in [TcpSockets -> Hosts]
  /\ Hosts \subseteq 0..(Pow2[AddrBits] - 1)
  /\ Nets \subseteq IpNets /\ \A net \in Nets : Canonical(net)
  /\ \A e \in Entries : e \in Seq([nexthop : Nat, weight : Nat]) /\ FibEntryOk(e)
  /\ RingCapacity \in Nat

VARIABLES
  fib,       \* e_fib: NLRI keys to entries
  sticky,    \* e_socket_sticky_nexthops: per socket, None or its nexthop
  cpu,       \* what each CPU is doing
  rtt_cb,    \* the TCP sockets with BPF_SOCK_OPS_RTT_CB_FLAG
  ringbuf,   \* e_tcp_rtt_events
  sent,      \* history: the nexthops each TCP socket's packets went to
  unstored   \* history: the TCP sockets whose storage could not be allocated

maps == <<fib, sticky, rtt_cb, ringbuf>>
vars == <<maps, cpu, sent, unstored>>

Idle == [pc |-> "idle"]

---------------------------------------------------------------------------
(* fib_entry_select_nexthop: the slot in which the ticket falls. The        *)
(* program checks again what FibEntry::new checked; Refused is its return. *)
selectUpTo(entry, ticket) ==
  LET total(i) == Sum([k \in 1..i |-> entry.weighted[k].weight])
      n == Len(entry.weighted)
  IN  entry.weighted[CHOOSE i \in 1..n :
        ticket <= total(i) /\ \A j \in 1..(i - 1) : ~(ticket <= total(j))].nexthop

fib_entry_select_nexthop(entry, ticket) ==
  LET total(i) == Sum([k \in 1..i |-> entry.weighted[k].weight])
      n == Len(entry.weighted)
  IN  IF \/ n = 0 \/ n > MAX_NEXTHOPS
         \/ \E i \in 1..n : entry.weighted[i].weight = 0
         \/ total(n) # WEIGHT_DENOMINATOR
      THEN Refused
      ELSE entry.weighted[CHOOSE i \in 1..n :
             ticket < total(i) /\ \A j \in 1..(i - 1) : ~(ticket < total(j))].nexthop

(* encap_pkt_parse: the packets the program looks at. An ICMPv6 packet is   *)
(* not one of them.                                                         *)
encap_pkt_parse(l3, l4) == l3 \in {"ip", "ip6"} /\ l4 \in {"tcp", "udp", "icmp"}

---------------------------------------------------------------------------
Init ==
  /\ fib = [k \in {} |-> None]
  /\ sticky = [s \in Sockets |-> None]
  /\ cpu = [c \in Cpus |-> Idle]
  /\ rtt_cb = {}
  /\ ringbuf = <<>>
  /\ sent = [s \in TcpSockets |-> {}]
  /\ unstored = {}

(* The controller's map writes. *)
FibInsert(net, e) ==
  /\ fib' = [k \in DOMAIN fib \cup {CNlri(net)} |->
               IF k = CNlri(net)
               THEN [matched_nlri |-> CNlri(net), weighted |-> FibEntry(e)]
               ELSE fib[k]]
  /\ UNCHANGED <<sticky, rtt_cb, ringbuf, cpu, sent, unstored>>

FibDelete(net) ==
  /\ CNlri(net) \in DOMAIN fib
  /\ fib' = [k \in DOMAIN fib \ {CNlri(net)} |-> fib[k]]
  /\ UNCHANGED <<sticky, rtt_cb, ringbuf, cpu, sent, unstored>>

Protocol(sk) == IF sk \in TcpSockets THEN "tcp" ELSE "udp"

(* A packet reaches erez_encap. The stack sends for a TCP socket with the   *)
(* socket's lock held. A packet the parser does not take goes its way.      *)
Begin(c, sk, host, l3, l4) ==
  /\ cpu[c].pc = "idle"
  /\ sk \in TcpSockets => /\ host = Remote[sk]
                          /\ \A d \in Cpus : cpu[d].pc # "idle" => cpu[d].sk # sk
  /\ sk # NoSocket => l4 = Protocol(sk)
  /\ l3 = "ip" <=> to_ipv4_mapped(host)
  /\ encap_pkt_parse(l3, l4)
  /\ cpu' = [cpu EXCEPT ![c] = [pc |-> "lookup", sk |-> sk, host |-> host]]
  /\ UNCHANGED <<maps, sent, unstored>>

Fib(c, matched_nlri, nexthop, pc) ==
  [pc |-> pc, sk |-> cpu[c].sk, host |-> cpu[c].host,
   matched_nlri |-> matched_nlri, nexthop |-> nexthop]

StickyLookupMisses(c) ==
  /\ cpu[c].pc = "lookup"
  /\ cpu' = [cpu EXCEPT ![c].pc = "fib"]
  /\ UNCHANGED <<maps, sent, unstored>>

(* socket_sticky_nexthop_lookup *)
StickyLookup(c) ==
  /\ cpu[c].pc = "lookup"
  /\ LET sk == cpu[c].sk IN
     cpu' = IF sk # NoSocket /\ sticky[sk] # None
            THEN [cpu EXCEPT ![c] =
                    Fib(c, sticky[sk].matched_nlri, sticky[sk].nexthop, "encap")]
            ELSE [cpu EXCEPT ![c].pc = "fib"]
  /\ UNCHANGED <<maps, sent, unstored>>

(* The lookup in e_fib and the choice of a nexthop. Without an entry, or    *)
(* with one that is refused, the packet leaves as it is.                    *)
FibLookup(c) ==
  /\ cpu[c].pc = "fib"
  /\ LET host == cpu[c].host IN
     IF Matches(DOMAIN fib, host) = {}
     THEN cpu' = [cpu EXCEPT ![c] = Idle]
     ELSE LET entry == fib[LongestMatch(DOMAIN fib, host)] IN
          \E ticket \in 0..(WEIGHT_DENOMINATOR - 1) :
            LET nexthop == fib_entry_select_nexthop(entry, ticket) IN
            cpu' = [cpu EXCEPT ![c] =
                      IF nexthop = Refused THEN Idle
                      ELSE Fib(c, entry.matched_nlri, nexthop, "store")]
  /\ UNCHANGED <<maps, sent, unstored>>

StickyStoreOverwrites(c) ==
  /\ cpu[c].pc = "store"
  /\ LET sk == cpu[c].sk IN
     sticky' = IF sk = NoSocket THEN sticky
               ELSE [sticky EXCEPT ![sk] = [matched_nlri |-> cpu[c].matched_nlri,
                                            nexthop |-> cpu[c].nexthop]]
  /\ cpu' = [cpu EXCEPT ![c].pc = "encap"]
  /\ UNCHANGED <<fib, rtt_cb, ringbuf, sent, unstored>>

(* socket_sticky_nexthop_store: BPF_SK_STORAGE_GET_F_CREATE leaves a value  *)
(* that is there. The packet keeps the nexthop it chose.                    *)
StickyStore(c) ==
  /\ cpu[c].pc = "store"
  /\ LET sk == cpu[c].sk IN
     sticky' = IF sk = NoSocket \/ sticky[sk] # None THEN sticky
               ELSE [sticky EXCEPT ![sk] = [matched_nlri |-> cpu[c].matched_nlri,
                                            nexthop |-> cpu[c].nexthop]]
  /\ cpu' = [cpu EXCEPT ![c].pc = "encap"]
  /\ UNCHANGED <<fib, rtt_cb, ringbuf, sent, unstored>>

(* The same when the kernel cannot allocate the storage. *)
StickyStoreFails(c) ==
  /\ cpu[c].pc = "store"
  /\ cpu[c].sk # NoSocket
  /\ sticky[cpu[c].sk] = None
  /\ unstored' = unstored \cup ({cpu[c].sk} \cap TcpSockets)
  /\ cpu' = [cpu EXCEPT ![c].pc = "encap"]
  /\ UNCHANGED <<maps, sent>>

(* encap_pkt_encapsulate_ip6_gre, and its failure: the packet is dropped. *)
Encapsulate(c) ==
  /\ cpu[c].pc = "encap"
  /\ \/ sent' = [s \in TcpSockets |->
                  IF s = cpu[c].sk THEN sent[s] \cup {cpu[c].nexthop} ELSE sent[s]]
     \/ sent' = sent
  /\ cpu' = [cpu EXCEPT ![c] = Idle]
  /\ UNCHANGED <<maps, unstored>>

---------------------------------------------------------------------------
(* erez_sockops: an established connection asks for RTT callbacks (which    *)
(* may fail, without effect), and a callback becomes an event.              *)
Established(s) ==
  /\ rtt_cb' = rtt_cb \cup {s}
  /\ UNCHANGED <<fib, sticky, ringbuf, cpu, sent, unstored>>

EventUnreserved(s) ==
  /\ s \in rtt_cb
  /\ sticky[s] # None
  /\ Len(ringbuf) <= RingCapacity
  /\ ringbuf' = Append(ringbuf, [sk |-> s, matched_nlri |-> sticky[s].matched_nlri,
                                 nexthop |-> sticky[s].nexthop])
  /\ UNCHANGED <<fib, sticky, rtt_cb, cpu, sent, unstored>>

EventFromFib(s) ==
  /\ s \in rtt_cb
  /\ Matches(DOMAIN fib, Remote[s]) # {}
  /\ Len(ringbuf) < RingCapacity
  /\ LET entry == fib[LongestMatch(DOMAIN fib, Remote[s])] IN
     ringbuf' = Append(ringbuf, [sk |-> s, matched_nlri |-> entry.matched_nlri,
                                 nexthop |-> entry.weighted[1].nexthop])
  /\ UNCHANGED <<fib, sticky, rtt_cb, cpu, sent, unstored>>

(* emit_tcp_rtt_event, when it gets as far as the ring buffer. The socket   *)
(* is not part of the event; it is kept to state the properties.            *)
emit_tcp_rtt_event(s) ==
  /\ s \in rtt_cb
  /\ sticky[s] # None
  /\ Len(ringbuf) < RingCapacity
  /\ ringbuf' = Append(ringbuf, [sk |-> s, matched_nlri |-> sticky[s].matched_nlri,
                                 nexthop |-> sticky[s].nexthop])
  /\ UNCHANGED <<fib, sticky, rtt_cb, cpu, sent, unstored>>

(* The aggregator's thread takes an event out. *)
Consume ==
  /\ ringbuf # <<>>
  /\ ringbuf' = Tail(ringbuf)
  /\ UNCHANGED <<fib, sticky, rtt_cb, cpu, sent, unstored>>

(* The socket is closed, with its storage, and another takes its place.     *)
(* Its packets hold a reference to it, and its events have been consumed.   *)
Close(s) ==
  /\ \A c \in Cpus : cpu[c].pc # "idle" => cpu[c].sk # s
  /\ \A i \in DOMAIN ringbuf : ringbuf[i].sk # s
  /\ sticky' = [sticky EXCEPT ![s] = None]
  /\ rtt_cb' = rtt_cb \ {s}
  /\ sent' = [t \in TcpSockets |-> IF t = s THEN {} ELSE sent[t]]
  /\ unstored' = unstored \ {s}
  /\ UNCHANGED <<fib, ringbuf, cpu>>

Next ==
  \/ \E net \in Nets, e \in Entries : FibInsert(net, e)
  \/ \E net \in Nets : FibDelete(net)
  \/ \E c \in Cpus, sk \in Sockets \cup {NoSocket}, host \in Hosts,
        l3 \in {"ip", "ip6", "arp"}, l4 \in {"tcp", "udp", "icmp", "icmp6"} :
       Begin(c, sk, host, l3, l4)
  \/ \E c \in Cpus : StickyLookup(c)
  \/ \E c \in Cpus : FibLookup(c)
  \/ \E c \in Cpus : StickyStore(c)
  \/ \E c \in Cpus : StickyStoreFails(c)
  \/ \E c \in Cpus : Encapsulate(c)
  \/ \E s \in TcpSockets : Established(s)
  \/ \E s \in TcpSockets : emit_tcp_rtt_event(s)
  \/ Consume
  \/ \E s \in Sockets : Close(s)

Spec == Init /\ [][Next]_vars

---------------------------------------------------------------------------
(* Properties. *)

TypeOK ==
  /\ \A k \in DOMAIN fib : /\ fib[k].matched_nlri = k
                           /\ k \in {CNlri(net) : net \in Nets}
                           /\ FibEntryOk(fib[k].weighted)
  /\ DOMAIN sticky = Sockets /\ DOMAIN sent = TcpSockets /\ DOMAIN cpu = Cpus
  /\ \A c \in Cpus : cpu[c].pc \in {"idle", "lookup", "fib", "store", "encap"}
  /\ rtt_cb \subseteq TcpSockets
  /\ Len(ringbuf) <= RingCapacity
  /\ unstored \subseteq TcpSockets

(* The prefixes a RIB can hold, without the IPv6 ones inside the mapped     *)
(* range, which share their keys with IPv4 prefixes.                        *)
Prefixes ==
  {net \in IpNets : /\ Canonical(net)
                    /\ net.addr.family = 6 =>
                         ~(to_ipv4_mapped(net.addr.bits) /\ net.prefix_len >= MappedBits)}

(* For any three prefixes in the trie and any destination: an IPv4          *)
(* destination is routed by the longest IPv4 prefix that covers it, an IPv6 *)
(* destination by the longest IPv6 prefix, whenever there is one. Prefixes  *)
(* of both families share the trie (CNlri::from), and even ::/0, which      *)
(* covers the mapped range, takes nothing from an IPv4 prefix. This and the *)
(* next say nothing of the state: one state, the first, is enough to ask.   *)
LookupStaysInFamily ==
  Init => \A a, b, c \in Prefixes : \A host \in 0..(Pow2[AddrBits] - 1) :
    LET own == {net \in {a, b, c} : /\ net.addr.family = IpAddr(host).family
                                   /\ Covers(CNlri(net), host)}
    IN  own # {} =>
          LET net == IpNet(LongestMatch({CNlri(a), CNlri(b), CNlri(c)}, host))
          IN  /\ net \in own
              /\ \A other \in own : other.prefix_len <= net.prefix_len

(* For every entry that FibEntry::new accepts, of up to MAX_NEXTHOPS        *)
(* nexthops, repeated or not: the share of tickets that choose a nexthop is *)
(* its weight, and the program refuses none.                                *)
TicketsFollowWeights ==
  Init => \A n \in 1..MAX_NEXTHOPS :
    \A w \in [1..n -> [nexthop : 1..MAX_NEXTHOPS, weight : 1..WEIGHT_DENOMINATOR]] :
      FibEntryOk(w) =>
        LET entry == [weighted |-> FibEntry(w)]
            choice == [t \in 0..(WEIGHT_DENOMINATOR - 1) |-> fib_entry_select_nexthop(entry, t)]
        IN  \A nh \in NexthopsOf(w) :
              Cardinality({t \in DOMAIN choice : choice[t] = nh})
                = Sum([i \in 1..n |-> IF w[i].nexthop = nh THEN w[i].weight ELSE 0])

(* The packets of a TCP socket all go to one nexthop, however the routes    *)
(* and weights change while it lives and whichever CPUs send for it, unless *)
(* the storage for its first nexthop could not be allocated; and that       *)
(* nexthop was chosen for a prefix of its peer.                             *)
TcpStaysOnOneNexthop ==
  /\ \A s \in TcpSockets \ unstored : Cardinality(sent[s]) <= 1
  /\ \A c \in Cpus : cpu[c].pc \in {"store", "encap"} /\ cpu[c].sk \in TcpSockets =>
                       Covers(cpu[c].matched_nlri, cpu[c].host)

(* The first nexthop a socket is given stays until it is closed, also when  *)
(* two CPUs store at the same time.                                         *)
FirstNexthopStays ==
  [][\A s \in Sockets :
       sticky[s] # None => \/ sticky'[s] = sticky[s]
                           \/ sticky'[s] = None /\ (s \in TcpSockets => sent'[s] = {})]_vars

(* An RTT event names the nexthop the socket's packets really took and a    *)
(* prefix of its peer, whatever happened to the route since.                *)
RttNamesItsPath ==
  \A i \in DOMAIN ringbuf :
    LET e == ringbuf[i] IN
    /\ e.sk \notin unstored => sent[e.sk] \subseteq {e.nexthop}
    /\ Covers(e.matched_nlri, Remote[e.sk])
============================================================================
