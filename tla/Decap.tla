------------------------------- MODULE Decap -------------------------------
(***************************************************************************)
(* The data plane of an edge router: erez_decap (erez.bpf.c, erez.bpf.h),  *)
(* an XDP program that strips the IPv6 and GRE headers a metal has added   *)
(* and forwards the inner packet to the nexthop that the outer destination *)
(* names. Beside it is what the kernel does with a packet it is passed, as *)
(* far as the program counts on it.                                        *)
(*                                                                         *)
(* A packet keeps what the program reads or writes. The IPv4 header is two *)
(* words of the checksum: the one that holds the TTL, and the ones'        *)
(* complement sum of all the others.                                       *)
(***************************************************************************)
EXTENDS Abi, Sequences

CONSTANTS
  Interfaces,   \* of the router; the packet arrives on one of them
  Ingress,
  Routes,       \* the kernel's routing table: nexthop (IpAddr) to interface
  Nexthops,     \* outer destinations, as octets
  Ttls,         \* TTL or hop limit of an inner packet
  OtherWords    \* sums of the other words of an IPv4 header

ASSUME DecapAssumption ==
  /\ Ingress \in Interfaces
  /\ DOMAIN Routes \subseteq IpAddrs /\ \A a \in DOMAIN Routes : Routes[a] \in Interfaces
  /\ Nexthops \subseteq 0..(Pow2[AddrBits] - 1)
  /\ \A ttl \in Ttls : ttl \in Nat /\ ttl < 256
  /\ \A word \in OtherWords : word \in Nat /\ word < 65536

(* Ones' complement arithmetic on 16-bit words (RFC 1071). *)
Fold(sum) == (sum % 65536) + (sum \div 65536)
Add(a, b) == Fold(a + b)

(* The checksum a sender puts into a header, and a receiver's check of it. *)
Checksum(ttl, others) == 65535 - Add(ttl * 256, others)
Verifies(p) == Add(Add(p.ttl * 256, p.others), p.check) = 65535

(* The destination MAC of a frame: this router's, or the neighbour's that   *)
(* stands for its address.                                                  *)
OwnMac == -1

VARIABLES
  pkt,      \* the packet in the XDP buffer
  nexthop,  \* decap_packet_t.nexthop
  pc,       \* the next part of the program
  verdict   \* what it returned, or "none"

vars == <<pkt, nexthop, pc, verdict>>

(* The frames that can arrive: of erez_encap, of another tunnel, or none. *)
Frames ==
  [outer_l3 : {"ip6", "ip"}, outer_l4 : {"gre", "other"}, inner_l3 : {"ip", "ip6", "other"},
   truncated : {"no", "outer", "inner"}, daddr : Nexthops, ttl : Ttls, others : OtherWords]

Arrived(f) ==
  [headers |-> <<"eth", f.outer_l3, f.outer_l4, "inner">>, inner_l3 |-> f.inner_l3,
   truncated |-> f.truncated, daddr |-> f.daddr, ttl |-> f.ttl, others |-> f.others,
   check |-> Checksum(f.ttl, f.others), mac |-> OwnMac]

Init ==
  /\ \E f \in Frames : pkt = Arrived(f)
  /\ nexthop = 0
  /\ pc = "parse"
  /\ verdict = "none"

Return(v) ==
  /\ verdict' = v
  /\ pc' = "done"

(* decap_pkt_parse: anything but IPv6 and GRE around IP is the kernel's. *)
decap_pkt_parse ==
  /\ pc = "parse"
  /\ IF \/ pkt.truncated = "outer"
        \/ pkt.headers[2] # "ip6"
        \/ pkt.headers[3] # "gre"
        \/ pkt.inner_l3 \notin {"ip", "ip6"}
     THEN Return("XDP_PASS") /\ UNCHANGED nexthop
     ELSE /\ nexthop' = pkt.daddr
          /\ pc' = "decapsulate" /\ UNCHANGED verdict
  /\ UNCHANGED pkt

(* decap_pkt_decapsulate_ip6_gre: the Ethernet header moves over the outer  *)
(* headers. bpf_xdp_adjust_head can fail; the packet is then dropped.       *)
decap_pkt_decapsulate_ip6_gre ==
  /\ pc = "decapsulate"
  /\ \/ /\ pkt' = [pkt EXCEPT !.headers = <<"eth", "inner">>]
        /\ pc' = "forward" /\ UNCHANGED verdict
     \/ Return("XDP_DROP") /\ UNCHANGED pkt
  /\ UNCHANGED nexthop

checkWithoutCarry(check) == (check + 256) % 65536

(* The incremental update of the IPv4 checksum when the TTL loses one, in   *)
(* network byte order.                                                      *)
checkAfterDecrement(check) ==
  LET sum == check + 256
  IN  (sum + (IF sum >= 65535 THEN 1 ELSE 0)) % 65536

(* decap_pkt_decrement_inner_ttl fails on a short inner header and on a TTL *)
(* that would reach zero.                                                   *)
DecrementsTtl(p) == p.truncated # "inner" /\ p.ttl > 1

decap_pkt_decrement_inner_ttl(p) ==
  IF p.inner_l3 = "ip"
  THEN [p EXCEPT !.ttl = @ - 1, !.check = checkAfterDecrement(@)]
  ELSE [p EXCEPT !.ttl = @ - 1]

RouteOf(octets) == IpAddr(octets)

(* decap_pkt_forward_to_nexthop: the kernel's route to the nexthop, the     *)
(* TTL, the MAC addresses, and only then the check that the packet does not *)
(* go back where it came from. bpf_fib_lookup can also fail for a neighbour *)
(* that is not resolved, and the redirect be refused.                       *)
decap_pkt_forward_to_nexthop ==
  /\ pc = "forward"
  /\ \/ Return("XDP_PASS") /\ UNCHANGED pkt
     \/ /\ RouteOf(nexthop) \in DOMAIN Routes
        /\ ~DecrementsTtl(pkt)
        /\ Return("XDP_PASS") /\ UNCHANGED pkt
     \/ /\ RouteOf(nexthop) \in DOMAIN Routes
        /\ DecrementsTtl(pkt)
        /\ pkt' = [decap_pkt_decrement_inner_ttl(pkt) EXCEPT !.mac = nexthop]
        /\ IF Routes[RouteOf(nexthop)] = Ingress
           THEN Return("XDP_PASS")
           ELSE Return("XDP_REDIRECT") \/ Return("XDP_ABORTED")
  /\ UNCHANGED nexthop

Done == pc = "done" /\ UNCHANGED vars

Next ==
  \/ decap_pkt_parse
  \/ decap_pkt_decapsulate_ip6_gre
  \/ decap_pkt_forward_to_nexthop
  \/ Done

Spec == Init /\ [][Next]_vars

---------------------------------------------------------------------------
(* Properties. *)

(* A packet is forwarded only with a TTL left, with the headers of the      *)
(* tunnel gone, off the interface it came in on, to the nexthop the metal   *)
(* encoded (IPv4 nexthops included), and with an IPv4 checksum the next     *)
(* router accepts.                                                          *)
ForwardedIntact ==
  verdict = "XDP_REDIRECT" =>
    /\ pkt.ttl > 0
    /\ pkt.headers = <<"eth", "inner">>
    /\ pkt.mac = pkt.daddr /\ Routes[IpAddr(pkt.daddr)] # Ingress
    /\ pkt.inner_l3 = "ip" => Verifies(pkt)

(* What the comment of erez_decap says of a packet it cannot forward ("we   *)
(* let it be handled normally by the kernel"): it is still addressed to     *)
(* this router, with the TTL it had. The check of the interface comes after *)
(* the rewrite of the MAC addresses: violated.                              *)
PassedAsReceived ==
  [][verdict' = "XDP_PASS" => pkt'.mac = OwnMac /\ pkt'.ttl = pkt.ttl]_vars
============================================================================
