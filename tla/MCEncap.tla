------------------------------ MODULE MCEncap ------------------------------
(* An instance of Encap for TLC: addresses of 4 bits, of which 4..7 are the *)
(* mapped IPv4 addresses of 2 bits. An IPv4 default route and a more        *)
(* specific one come and go for one destination.                            *)
EXTENDS Encap, TLC

V4(bits, len) == [addr |-> [family |-> 4, bits |-> bits], prefix_len |-> len]

V4Nets == {V4(0, 0), V4(2, 1)}
OneHost == {6}
OneRemote == [s \in TcpSockets |-> 6]

SplitEntry == {<<Weighted(1, 2), Weighted(2, 2)>>}

CpuSymmetry == Permutations(Cpus)
============================================================================
