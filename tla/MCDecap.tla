------------------------------ MODULE MCDecap ------------------------------
(* An instance of Decap for TLC: an IPv4 nexthop beyond another interface,  *)
(* an IPv6 nexthop beyond the ingress interface, and one without a route.   *)
EXTENDS Decap

TwoRoutes ==
  [a \in {[family |-> 4, bits |-> 1], [family |-> 6, bits |-> 9]} |->
     IF a.family = 4 THEN "eth1" ELSE "eth0"]
ThreeNexthops == {5, 6, 9}

(* Around the TTL's limits, and around every carry of the checksum. *)
SomeTtls == {0, 1, 2, 3, 64, 128, 254, 255}
SomeWords ==
  {0, 1, 255, 256, 257, 511, 512, 767, 768, 32767, 32768, 64768, 65023, 65024, 65025,
   65278, 65279, 65280, 65281, 65534, 65535}
============================================================================
