-------------------------------- MODULE Abi --------------------------------
(***************************************************************************)
(* What crosses the boundary between the daemon and the eBPF programs      *)
(* (bpf_abi.rs): addresses as IPv6 octets, with IPv4 in the mapped range   *)
(* ::ffff:0:0/96, and NLRIs as keys of a longest-prefix-match trie.        *)
(*                                                                         *)
(* An address is the number its bits spell. The widths are parameters, so  *)
(* that TLC can enumerate every address.                                   *)
(***************************************************************************)
EXTENDS Integers, FiniteSets

CONSTANTS
  AddrBits,      \* width of an IPv6 address (128)
  V4Bits,        \* width of an IPv4 address (32)
  MappedPrefix   \* the bits above a mapped IPv4 address (0:0:0:0:0:ffff)

MappedBits == AddrBits - V4Bits

(* The powers of two up to the width of an address. *)
Pow2[k \in 0..AddrBits] == IF k = 0 THEN 1 ELSE 2 * Pow2[k - 1]

ASSUME AbiAssumption ==
  /\ AddrBits \in Nat /\ V4Bits \in 1..(AddrBits - 1)
  /\ MappedPrefix \in 0..(Pow2[MappedBits] - 1)
  \* it ends in a one (ffff), so that the address of a shorter prefix is none of its own
  /\ MappedPrefix % 2 = 1

V4Addrs == [family : {4}, bits : 0..(Pow2[V4Bits] - 1)]
V6Addrs == [family : {6}, bits : 0..(Pow2[AddrBits] - 1)]
IpAddrs == V4Addrs \cup V6Addrs

(* Networks without host bits. *)
IpNets ==
  {[addr |-> a, prefix_len |-> l] : a \in V4Addrs, l \in 0..V4Bits} \cup
  {[addr |-> a, prefix_len |-> l] : a \in V6Addrs, l \in 0..AddrBits}

Width(addr) == IF addr.family = 4 THEN V4Bits ELSE AddrBits

Canonical(net) == net.addr.bits % Pow2[Width(net.addr) - net.prefix_len] = 0

(* CIpv6Addr::from(IpAddr) and its inverse. *)
CIpv6Addr(addr) ==
  IF addr.family = 4 THEN MappedPrefix * Pow2[V4Bits] + addr.bits ELSE addr.bits

to_ipv4_mapped(octets) == octets \div Pow2[V4Bits] = MappedPrefix

IpAddr(octets) ==
  IF to_ipv4_mapped(octets)
  THEN [family |-> 4, bits |-> octets % Pow2[V4Bits]]
  ELSE [family |-> 6, bits |-> octets]

CNlriUnshifted(net) ==
  [prefix_len |-> net.prefix_len, address |-> CIpv6Addr(net.addr)]

(* CNlri::from(IpNet): an IPv4 prefix is shifted behind the mapping prefix. *)
CNlri(net) ==
  [prefix_len |-> net.prefix_len + (IF net.addr.family = 4 THEN MappedBits ELSE 0),
   address |-> CIpv6Addr(net.addr)]

(* IpNet::try_from(CNlri), which refuses a mapped address whose prefix ends *)
(* inside the mapping prefix.                                               *)
IpNetOk(nlri) == to_ipv4_mapped(nlri.address) => nlri.prefix_len \in MappedBits..AddrBits

IpNet(nlri) ==
  IF to_ipv4_mapped(nlri.address)
  THEN [addr |-> IpAddr(nlri.address), prefix_len |-> nlri.prefix_len - MappedBits]
  ELSE [addr |-> IpAddr(nlri.address), prefix_len |-> nlri.prefix_len]

---------------------------------------------------------------------------
(* The kernel's LPM trie. *)

Covers(nlri, octets) ==
  nlri.address \div Pow2[AddrBits - nlri.prefix_len]
    = octets \div Pow2[AddrBits - nlri.prefix_len]

Matches(keys, octets) == {k \in keys : Covers(k, octets)}

(* The key that a lookup of a full-length address finds. *)
LongestMatch(keys, octets) ==
  CHOOSE k \in Matches(keys, octets) :
    \A j \in Matches(keys, octets) : j.prefix_len <= k.prefix_len
============================================================================
