---------------------------- MODULE DaemonProofs ----------------------------
(***************************************************************************)
(* Proofs about the life of the daemon, in either mode and for any number   *)
(* of starts, crashes and failed detachments, and about erez_decap, the     *)
(* program it attaches to an edge router, for every routing table, TTL and  *)
(* IPv4 header.                                                             *)
(***************************************************************************)
EXTENDS Daemon, Decap, TLAPS

---------------------------------------------------------------------------
(* The life of the daemon *)

Places == {"down", "attach", "select", "detach", "cancel", "drain", "return"}

(* Where main is decides what the token and its own hook look like: only a  *)
(* detachment that has failed nowhere leads to the cancellation.            *)
LifeInv ==
  /\ main \in Places /\ starts \in Nat
  /\ programs \in [Hooks -> Nat]
  /\ token \in BOOLEAN
  /\ LiveProgramIsOurs
  /\ token = TRUE /\ main # "down" => main \in {"drain", "return"}
  /\ main \in {"cancel", "drain"} \/ (token = TRUE /\ main = "return") => programs[Hook] = 0

LEMMA HookIsAHook == Hook \in Hooks
BY DEF Hook, Hooks

(* Errno::from_raw is given a negative number, so that is_not_attached      *)
(* never recognises an error: whatever is not a success has failed.         *)
LEMMA NoErrorIsForgiven ==
  ASSUME NEW ret \in [Hooks -> {0, -EPERM, -EINVAL, -ENOENT}], Failed(ret) = {}
  PROVE  \A h \in Hooks : ret[h] = 0
<1> SUFFICES ASSUME NEW h \in Hooks, ret[h] # 0
             PROVE  h \in Failed(ret)
  OBVIOUS
<1>1. ret[h] \in {-EPERM, -EINVAL, -ENOENT}
  OBVIOUS
<1>2. from_raw(ret[h]) = 0
  BY <1>1 DEF from_raw, EPERM, EINVAL, ENOENT
<1>3. ~ is_not_attached(ret[h])
  BY <1>2 DEF is_not_attached, EINVAL, ENOENT
<1> QED BY <1>3 DEF Failed

LEMMA InitLife == DaemonInit => LifeInv
<1> SUFFICES ASSUME DaemonInit PROVE LifeInv
  OBVIOUS
<1>1. main = "down" /\ starts = 0 /\ token = FALSE
  BY DEF DaemonInit
<1>2. programs \in [Hooks -> Nat]
  BY DEF DaemonInit
<1> QED BY <1>1, <1>2 DEF LifeInv, Places, LiveProgramIsOurs

LEMMA NextLife == LifeInv /\ [DaemonNext]_daemonVars => LifeInv'
<1> SUFFICES ASSUME LifeInv, [DaemonNext]_daemonVars
             PROVE  LifeInv'
  OBVIOUS
<1> USE HookIsAHook DEF LifeInv, Places, LiveProgramIsOurs
<1>1. CASE Start
  <2>1. main' = "attach" /\ programs' = programs
    BY <1>1 DEF Start
  <2>2. starts' \in Nat
    BY <1>1 DEF Start
  <2>3. token' = FALSE
    BY <1>1 DEF Start
  <2> QED BY <2>1, <2>2, <2>3
<1>2. CASE Attach
  BY <1>2 DEF Attach, Spawned
<1>3. CASE AttachFails
  <2>1. programs' \in [Hooks -> Nat]
    BY <1>3 DEF AttachFails
  <2> QED BY <1>3, <2>1 DEF AttachFails
<1>4. CASE Signal \/ Crash \/ Wake
  BY <1>4 DEF Signal, Crash, Wake
<1>5. CASE \E t \in Tasks : TaskEnds(t) \/ TaskStops(t)
  BY <1>5 DEF TaskEnds, TaskStops
<1>6. CASE Detach
  <2>1. PICK ret \in [Hooks -> {0, -EPERM, -EINVAL, -ENOENT}] :
          /\ programs' = [h \in Hooks |-> IF ret[h] = 0 THEN 0 ELSE programs[h]]
          /\ main' = IF Failed(ret) = {} THEN "cancel" ELSE "return"
    BY <1>6 DEF Detach
  <2>2. main' = "cancel" => programs'[Hook] = 0
    BY <2>1, NoErrorIsForgiven
  <2> QED BY <1>6, <2>1, <2>2 DEF Detach
<1>7. CASE Cancel
  BY <1>7 DEF Cancel
<1>8. CASE ThreadStops \/ Drained \/ DrainTimesOut \/ Exit
  BY <1>8 DEF ThreadStops, Drained, DrainTimesOut, Exit
<1>9. CASE UNCHANGED daemonVars
  BY <1>9 DEF daemonVars
<1> QED
  BY <1>1, <1>2, <1>3, <1>4, <1>5, <1>6, <1>7, <1>8, <1>9 DEF DaemonNext

LEMMA LifeInvariant == DaemonSpec => []LifeInv
BY InitLife, NextLife, PTL DEF DaemonSpec

(* The daemon that serves steers with its own maps, in whatever state its   *)
(* predecessors left the interface.                                         *)
THEOREM ServesWithItsOwnProgram == DaemonSpec => []LiveProgramIsOurs
<1>1. LifeInv => LiveProgramIsOurs
  BY DEF LifeInv
<1> QED BY <1>1, LifeInvariant, PTL

(* The tasks are told to stop only after the hook is free.                  *)
THEOREM CancelsDetached == DaemonSpec => []DetachedBeforeCancel
<1>1. LifeInv => DetachedBeforeCancel
  BY DEF LifeInv, DetachedBeforeCancel
<1> QED BY <1>1, LifeInvariant, PTL

---------------------------------------------------------------------------
(* erez_decap *)

(* Ones' complement addition of a TTL and the rest of a header. *)
LEMMA FoldOnce ==
  ASSUME NEW s \in Nat, s < 131072
  PROVE  Fold(s) = IF s < 65536 THEN s ELSE s - 65535
BY DEF Fold

(* The incremental update of the checksum, carry included, is right for     *)
(* every TTL and every header.                                              *)
LEMMA ChecksumFollowsTtl ==
  ASSUME NEW ttl \in Nat, 1 < ttl, ttl < 256, NEW others \in Nat, others < 65536
  PROVE  Add(Add((ttl - 1) * 256, others), checkAfterDecrement(Checksum(ttl, others))) = 65535
<1> DEFINE S == ttl * 256 + others
           A == IF S < 65536 THEN S ELSE S - 65535
           B == IF S - 256 < 65536 THEN S - 256 ELSE S - 256 - 65535
           check == 65535 - A
           after == IF check + 256 >= 65535 THEN (check + 257) % 65536 ELSE check + 256
<1>1. S \in Nat /\ 512 <= S /\ S <= 130815
  OBVIOUS
<1>2. Add(ttl * 256, others) = A
  <2> HIDE DEF S
  <2>1. S \in Nat /\ S < 131072 /\ Add(ttl * 256, others) = Fold(S)
    BY <1>1 DEF Add, S
  <2> QED BY <2>1, FoldOnce
<1>3. Add((ttl - 1) * 256, others) = B
  <2>1. (ttl - 1) * 256 + others = S - 256
    OBVIOUS
  <2> HIDE DEF S
  <2>2. S - 256 \in Nat /\ S - 256 < 131072
    BY <1>1
  <2> QED BY <2>1, <2>2, FoldOnce DEF Add
<1> HIDE DEF S
<1>4. Checksum(ttl, others) = check /\ check \in Nat /\ check < 65536
  BY <1>1, <1>2 DEF Checksum
<1>5. checkAfterDecrement(check) = after
  <2> HIDE DEF check
  <2> QED BY <1>4 DEF checkAfterDecrement
<1>6. B + after = 65535
  BY <1>1
<1> HIDE DEF A, B, check, after
<1>7. Add(B, after) = 65535
  BY <1>6 DEF Add, Fold
<1> QED BY <1>3, <1>4, <1>5, <1>7

---------------------------------------------------------------------------
(* The inductive invariant: until it returns, the program has changed only *)
(* the outer headers, and what it forwards is intact.                       *)

Words == {x \in Nat : x < 65536}

Packets ==
  [headers : {<<"eth", l3, l4, "inner">> : l3 \in {"ip6", "ip"}, l4 \in {"gre", "other"}}
               \cup {<<"eth", "inner">>},
   inner_l3 : {"ip", "ip6", "other"}, truncated : {"no", "outer", "inner"},
   daddr : Nexthops, ttl : {t \in Nat : t < 256}, others : Words, check : Words,
   mac : Nexthops \cup {OwnMac}]

Received == pkt \in Packets /\ pkt.check = Checksum(pkt.ttl, pkt.others) /\ verdict = "none"

DecapInv ==
  /\ pc \in {"parse", "decapsulate", "forward", "done"}
  /\ pc # "done" => Received
  /\ pc \in {"decapsulate", "forward"} => nexthop = pkt.daddr
  /\ pc = "forward" => pkt.headers = <<"eth", "inner">>
  /\ ForwardedIntact

LEMMA ChecksumRange ==
  ASSUME NEW ttl \in Nat, ttl < 256, NEW others \in Words
  PROVE  Checksum(ttl, others) \in Words
<1> DEFINE S == ttl * 256 + others
<1>1. S \in Nat /\ S <= 130815 /\ S < 131072
  BY DEF Words
<1> HIDE DEF S
<1>2. Add(ttl * 256, others) = IF S < 65536 THEN S ELSE S - 65535
  BY <1>1, FoldOnce DEF Add, S
<1> QED BY <1>1, <1>2 DEF Checksum, Words

LEMMA DecapInit == Init => DecapInv
<1> SUFFICES ASSUME Init PROVE DecapInv
  OBVIOUS
<1>1. PICK f \in Frames : pkt = Arrived(f)
  BY DEF Init
<1>2. /\ f.outer_l3 \in {"ip6", "ip"} /\ f.outer_l4 \in {"gre", "other"}
      /\ f.inner_l3 \in {"ip", "ip6", "other"} /\ f.truncated \in {"no", "outer", "inner"}
      /\ f.daddr \in Nexthops /\ f.ttl \in Nat /\ f.ttl < 256 /\ f.others \in Words
  BY DecapAssumption DEF Frames, Words
<1>3. Checksum(f.ttl, f.others) \in Words
  BY <1>2, ChecksumRange
<1>4. pkt \in Packets
  BY <1>1, <1>2, <1>3 DEF Arrived, Packets
<1>5. pkt.check = Checksum(pkt.ttl, pkt.others)
  BY <1>1 DEF Arrived
<1> QED BY <1>4, <1>5 DEF Init, DecapInv, Received, ForwardedIntact

LEMMA ParseInvariant == DecapInv /\ decap_pkt_parse => DecapInv'
<1> SUFFICES ASSUME DecapInv, decap_pkt_parse PROVE DecapInv'
  OBVIOUS
<1>1. pkt' = pkt /\ Received
  BY DEF decap_pkt_parse, DecapInv
<1>2. CASE Return("XDP_PASS")
  BY <1>2 DEF Return, DecapInv, ForwardedIntact
<1>3. CASE nexthop' = pkt.daddr /\ pc' = "decapsulate" /\ verdict' = verdict
  BY <1>1, <1>3 DEF DecapInv, Received, ForwardedIntact
<1> QED BY <1>2, <1>3 DEF decap_pkt_parse

LEMMA DecapsulateInvariant == DecapInv /\ decap_pkt_decapsulate_ip6_gre => DecapInv'
<1> SUFFICES ASSUME DecapInv, decap_pkt_decapsulate_ip6_gre PROVE DecapInv'
  OBVIOUS
<1>1. Received /\ nexthop = pkt.daddr /\ nexthop' = nexthop
  BY DEF decap_pkt_decapsulate_ip6_gre, DecapInv
<1>2. CASE Return("XDP_DROP")
  BY <1>2 DEF Return, DecapInv, ForwardedIntact
<1>3. CASE pkt' = [pkt EXCEPT !.headers = <<"eth", "inner">>] /\ pc' = "forward" /\ verdict' = verdict
  <2>1. pkt' \in Packets
    BY <1>1, <1>3 DEF Received, Packets
  <2>2. /\ pkt'.ttl = pkt.ttl /\ pkt'.others = pkt.others /\ pkt'.check = pkt.check
        /\ pkt'.daddr = pkt.daddr /\ pkt'.headers = <<"eth", "inner">>
    BY <1>1, <1>3 DEF Received, Packets
  <2> QED BY <1>1, <1>3, <2>1, <2>2 DEF DecapInv, Received, ForwardedIntact
<1> QED BY <1>2, <1>3 DEF decap_pkt_decapsulate_ip6_gre

LEMMA ForwardInvariant == DecapInv /\ decap_pkt_forward_to_nexthop => DecapInv'
<1> SUFFICES ASSUME DecapInv, decap_pkt_forward_to_nexthop PROVE DecapInv'
  OBVIOUS
<1>1. Received /\ nexthop = pkt.daddr /\ pkt.headers = <<"eth", "inner">>
  BY DEF decap_pkt_forward_to_nexthop, DecapInv
<1>2. pkt \in Packets /\ pkt.check = Checksum(pkt.ttl, pkt.others)
  BY <1>1 DEF Received
<1>3. CASE verdict' # "XDP_REDIRECT"
  <2>1. pc' = "done"
    BY DEF decap_pkt_forward_to_nexthop, Return
  <2> QED BY <1>3, <2>1 DEF DecapInv, ForwardedIntact
<1>4. CASE verdict' = "XDP_REDIRECT"
  <2>1. /\ DecrementsTtl(pkt)
        /\ pkt' = [decap_pkt_decrement_inner_ttl(pkt) EXCEPT !.mac = nexthop]
        /\ Routes[RouteOf(nexthop)] # Ingress
        /\ pc' = "done"
    BY <1>4 DEF decap_pkt_forward_to_nexthop, Return
  <2>2. /\ pkt.ttl \in Nat /\ 1 < pkt.ttl /\ pkt.ttl < 256
        /\ pkt.others \in Nat /\ pkt.others < 65536
    BY <1>2, <2>1 DEF Packets, Words, DecrementsTtl
  <2>3. /\ pkt'.ttl = pkt.ttl - 1 /\ pkt'.others = pkt.others /\ pkt'.mac = nexthop
        /\ pkt'.headers = pkt.headers /\ pkt'.daddr = pkt.daddr /\ pkt'.inner_l3 = pkt.inner_l3
        /\ pkt.inner_l3 = "ip" => pkt'.check = checkAfterDecrement(pkt.check)
    <3>1. CASE pkt.inner_l3 = "ip"
      <4>1. pkt' = [[pkt EXCEPT !.ttl = @ - 1, !.check = checkAfterDecrement(@)]
                      EXCEPT !.mac = nexthop]
        BY <2>1, <3>1 DEF decap_pkt_decrement_inner_ttl
      <4> QED BY <1>2, <4>1 DEF Packets
    <3>2. CASE pkt.inner_l3 # "ip"
      <4>1. pkt' = [[pkt EXCEPT !.ttl = @ - 1] EXCEPT !.mac = nexthop]
        BY <2>1, <3>2 DEF decap_pkt_decrement_inner_ttl
      <4> QED BY <1>2, <3>2, <4>1 DEF Packets
    <3> QED BY <3>1, <3>2
  <2>4. pkt.inner_l3 = "ip" => Verifies(pkt')
    BY <1>2, <2>2, <2>3, ChecksumFollowsTtl DEF Verifies
  <2>5. pkt'.ttl > 0
    BY <2>2, <2>3
  <2>6. Routes[IpAddr(pkt'.daddr)] # Ingress
    BY <1>1, <2>1, <2>3 DEF RouteOf
  <2> QED BY <1>1, <2>1, <2>3, <2>4, <2>5, <2>6 DEF DecapInv, ForwardedIntact
<1> QED BY <1>3, <1>4

(* The packets that erez_decap redirects have a TTL left and a checksum     *)
(* that the next router accepts, lost the tunnel's headers and go to the    *)
(* nexthop the metal chose, never back to the interface they came from.     *)
THEOREM ForwardsIntact == Spec => []ForwardedIntact
<1>1. DecapInv /\ [Next]_vars => DecapInv'
  <2> SUFFICES ASSUME DecapInv, [Next]_vars PROVE DecapInv'
    OBVIOUS
  <2>1. CASE UNCHANGED vars
    BY <2>1 DEF vars, DecapInv, Received, ForwardedIntact
  <2> QED BY <2>1, ParseInvariant, DecapsulateInvariant, ForwardInvariant DEF Next, Done
<1>2. DecapInv => ForwardedIntact
  BY DEF DecapInv
<1> QED BY <1>1, <1>2, DecapInit, PTL DEF Spec
=============================================================================
