---------------------------- MODULE EncapProofs ----------------------------
(***************************************************************************)
(* Proofs about the data plane, for every set of CPUs, sockets, routes and *)
(* destinations.                                                           *)
(***************************************************************************)
EXTENDS Encap, DescentProofs, WellFoundedInduction

(* A trie of prefixes with some that match has a longest match, and it is   *)
(* found.                                                                   *)
LEMMA LongestMatchMatches ==
  ASSUME NEW keys, \A k \in keys : k.prefix_len \in Nat /\ k.prefix_len <= AddrBits,
         NEW host, Matches(keys, host) # {}
  PROVE  /\ LongestMatch(keys, host) \in Matches(keys, host)
         /\ \A j \in Matches(keys, host) : j.prefix_len <= LongestMatch(keys, host).prefix_len
<1> DEFINE M == Matches(keys, host)
           T == {AddrBits - k.prefix_len : k \in M}
           Less == {ss \in Nat \X Nat : ss[1] < ss[2]}
<1>0. AddrBits \in Nat
  BY AbiAssumption
<1>1. M \subseteq keys
  BY DEF Matches
<1>2. T \subseteq Nat /\ T # {}
  BY <1>0, <1>1
<1>3. IsWellFoundedOn(Less, Nat)
  BY NatLessThanWellFounded DEF OpToRel
<1> HIDE DEF T, Less
<1>4. \E x \in T : \A y \in T : ~(<<y, x>> \in Less)
  BY <1>2, <1>3, WFMin
<1>5. PICK x \in T : \A y \in T : ~(<<y, x>> \in Less)
  BY <1>4
<1>6. \A y \in T : x <= y
  <2> SUFFICES ASSUME NEW y \in T, ~(x <= y) PROVE FALSE
    OBVIOUS
  <2>1. x \in Nat /\ y \in Nat
    BY <1>2
  <2>2. y < x
    BY <2>1
  <2>3. <<y, x>> \in Nat \X Nat /\ <<y, x>>[1] < <<y, x>>[2]
    BY <2>1, <2>2
  <2>4. <<y, x>> \in Less
    BY <2>3 DEF Less
  <2> QED BY <1>5, <2>4
<1>7. PICK k \in M : x = AddrBits - k.prefix_len
  BY DEF T
<1>8. \A j \in M : AddrBits - j.prefix_len \in T
  BY DEF T
<1>9. \A j \in M : j.prefix_len <= k.prefix_len
  BY <1>0, <1>1, <1>6, <1>7, <1>8
<1>10. \E m \in M : \A j \in M : j.prefix_len <= m.prefix_len
  BY <1>9
<1> QED BY <1>10 DEF LongestMatch

(* A non-empty set of at most four positions has a first one. *)
LEMMA FirstPosition ==
  ASSUME NEW S \in SUBSET (1..4), S # {}
  PROVE  \E k \in S : \A j \in S : k <= j
<1>0. \A j \in S : j \in {1, 2, 3, 4}
  OBVIOUS
<1>1. CASE 1 \in S
  BY <1>0, <1>1
<1>2. CASE 1 \notin S /\ 2 \in S
  BY <1>0, <1>2
<1>3. CASE 1 \notin S /\ 2 \notin S /\ 3 \in S
  BY <1>0, <1>3
<1>4. CASE 1 \notin S /\ 2 \notin S /\ 3 \notin S
  <2>1. \A j \in S : j = 4
    BY <1>0, <1>4
  <2>2. PICK j \in S : TRUE
    OBVIOUS
  <2> QED BY <2>1, <2>2
<1> QED BY <1>1, <1>2, <1>3, <1>4

(* The slot that a ticket falls in, and the sum of the weights up to it.    *)
UpTo(weighted, i) == Sum([k \in 1..i |-> weighted[k].weight])

(* fib_entry_select_nexthop refuses no entry that FibEntry::new made, and   *)
(* every ticket falls in the first slot whose sum exceeds it.               *)
LEMMA TicketFallsInSlot ==
  ASSUME NEW entry, entry.weighted \in Seq(Slot(Nat)), FibEntryOk(entry.weighted),
         NEW ticket \in 0..(WEIGHT_DENOMINATOR - 1)
  PROVE  \E i \in DOMAIN entry.weighted :
           /\ fib_entry_select_nexthop(entry, ticket) = entry.weighted[i].nexthop
           /\ ticket < UpTo(entry.weighted, i)
           /\ \A j \in 1..(i - 1) : ~(ticket < UpTo(entry.weighted, j))
<1> DEFINE W == entry.weighted
           n == Len(W)
           total(i) == Sum([k \in 1..i |-> W[k].weight])
           S == {i \in 1..n : ticket < total(i)}
           ok(i) == ticket < total(i) /\ \A j \in 1..(i - 1) : ~(ticket < total(j))
<1>1. n \in 1..MAX_NEXTHOPS /\ DOMAIN W = 1..n
  BY DEF FibEntryOk
<1>2. n \in 1..4 /\ n \in Nat
  <2> HIDE DEF n
  <2> QED BY <1>1, DescentAssumption
<1>3. total(n) = WEIGHT_DENOMINATOR
  <2>1. WeightsOf(W) = [k \in 1..n |-> W[k].weight]
    BY <1>1 DEF WeightsOf
  <2> QED BY <2>1 DEF FibEntryOk
<1>4. ~(n = 0 \/ n > MAX_NEXTHOPS) /\ ~(\E i \in 1..n : W[i].weight = 0)
  <2>1. \A i \in 1..n : W[i].weight # 0
    BY <1>1 DEF FibEntryOk
  <2> HIDE DEF n
  <2> QED BY <1>1, <1>2, <2>1, DescentAssumption
<1>5. fib_entry_select_nexthop(entry, ticket) = W[CHOOSE i \in 1..n : ok(i)].nexthop
  BY <1>3, <1>4 DEF fib_entry_select_nexthop
<1> HIDE DEF total, n
<1>6. ticket < total(n)
  BY <1>3, DescentAssumption
<1>7. S \in SUBSET (1..4) /\ S # {}
  BY <1>2, <1>6
<1>8. PICK k \in S : \A j \in S : k <= j
  <2> HIDE DEF S
  <2> QED BY <1>7, FirstPosition
<1>9. k \in 1..n /\ ok(k)
  <2>1. k \in 1..n /\ ticket < total(k)
    OBVIOUS
  <2>2. ASSUME NEW j \in 1..(k - 1), ticket < total(j) PROVE FALSE
    <3>1. j \in 1..n /\ j < k
      BY <1>2, <2>1
    <3>2. j \in S
      BY <2>2, <3>1
    <3> QED BY <1>8, <3>1, <3>2
  <2> QED BY <2>1, <2>2
<1> DEFINE c == CHOOSE i \in 1..n : ok(i)
<1>10. c \in 1..n /\ ok(c)
  BY <1>9
<1> QED BY <1>1, <1>5, <1>10 DEF UpTo, total

---------------------------------------------------------------------------
(* What the state is made of. *)

Keys == {CNlri(net) : net \in Nets}

Stored == [matched_nlri : Keys, nexthop : Nat]
Looking == [pc : {"lookup", "fib"}, sk : Sockets \cup {NoSocket}, host : Hosts]
Sending == [pc : {"store", "encap"}, sk : Sockets \cup {NoSocket}, host : Hosts,
            matched_nlri : Keys, nexthop : Nat]
CpuStates == {Idle} \cup Looking \cup Sending
Events == [sk : TcpSockets, matched_nlri : Keys, nexthop : Nat]

FibTyped(f) ==
  \A k \in DOMAIN f : /\ k \in Keys
                      /\ f[k].matched_nlri = k
                      /\ f[k].weighted \in Seq(Slot(Nat))
                      /\ FibEntryOk(f[k].weighted)

Types ==
  /\ FibTyped(fib)
  /\ sticky \in [Sockets -> Stored \cup {None}]
  /\ cpu \in [Cpus -> CpuStates]
  /\ rtt_cb \subseteq TcpSockets
  /\ ringbuf \in Seq(Events) /\ Len(ringbuf) <= RingCapacity
  /\ sent \in [TcpSockets -> SUBSET Nat]
  /\ unstored \subseteq TcpSockets

(* A key of the trie has at most the bits of an address. *)
LEMMA KeyLength == \A k \in Keys : k.prefix_len \in Nat /\ k.prefix_len <= AddrBits
<1> SUFFICES ASSUME NEW net \in Nets
             PROVE  CNlri(net).prefix_len \in Nat /\ CNlri(net).prefix_len <= AddrBits
  BY DEF Keys
<1>1. net \in IpNets
  BY EncapAssumption
<1>2. AddrBits \in Nat /\ V4Bits \in Nat /\ V4Bits <= AddrBits /\ MappedBits = AddrBits - V4Bits
  BY AbiAssumption DEF MappedBits
<1>3. CNlri(net).prefix_len
        = net.prefix_len + (IF net.addr.family = 4 THEN AddrBits - V4Bits ELSE 0)
  BY <1>2 DEF CNlri
<1>4. CASE \E a \in V4Addrs, l \in 0..V4Bits : net = [addr |-> a, prefix_len |-> l]
  <2>1. net.addr.family = 4 /\ net.prefix_len \in 0..V4Bits
    BY <1>4 DEF V4Addrs
  <2> QED BY <1>2, <1>3, <2>1
<1>5. CASE \E a \in V6Addrs, l \in 0..AddrBits : net = [addr |-> a, prefix_len |-> l]
  <2>1. net.addr.family = 6 /\ net.prefix_len \in 0..AddrBits
    BY <1>5 DEF V6Addrs
  <2> QED BY <1>2, <1>3, <2>1
<1> QED BY <1>1, <1>4, <1>5 DEF IpNets

(* An empty storage is no stored nexthop. *)
LEMMA NoneIsNoNexthop == None \notin Stored
<1> SUFFICES ASSUME None \in Stored PROVE FALSE
  OBVIOUS
<1>1. DOMAIN None = {"none"} /\ DOMAIN None = {"matched_nlri", "nexthop"}
  BY DEF None, Stored
<1>2. "matched_nlri" \in {"none"}
  BY <1>1
<1> QED BY <1>2

(* What a CPU is doing follows from its program counter. *)
LEMMA CpuStateByPc ==
  ASSUME NEW x \in CpuStates
  PROVE  /\ x.pc \in {"idle", "lookup", "fib", "store", "encap"}
         /\ x.pc = "idle" => x = Idle
         /\ x.pc \in {"lookup", "fib"} => x \in Looking
         /\ x.pc \in {"store", "encap"} => x \in Sending
<1>1. CASE x = Idle
  BY <1>1 DEF Idle
<1>2. CASE x \in Looking
  <2>1. x.pc \in {"lookup", "fib"}
    BY <1>2 DEF Looking
  <2> QED BY <1>2, <2>1
<1>3. CASE x \in Sending
  <2>1. x.pc \in {"store", "encap"}
    BY <1>3 DEF Sending
  <2> QED BY <1>3, <2>1
<1> QED BY <1>1, <1>2, <1>3 DEF CpuStates

(* A CPU that goes on keeps what it has. *)
LEMMA LookingGoesOn ==
  ASSUME NEW x \in Looking
  PROVE  [x EXCEPT !.pc = "fib"] = [pc |-> "fib", sk |-> x.sk, host |-> x.host]
BY DEF Looking

LEMMA SendingGoesOn ==
  ASSUME NEW x \in Sending
  PROVE  [x EXCEPT !.pc = "encap"]
           = [pc |-> "encap", sk |-> x.sk, host |-> x.host,
              matched_nlri |-> x.matched_nlri, nexthop |-> x.nexthop]
BY DEF Sending

---------------------------------------------------------------------------
(* The inductive invariant.                                                 *)

(* At most one CPU at a time sends for a TCP socket. *)
Alone ==
  \A c, d \in Cpus :
    /\ cpu[c].pc # "idle" /\ cpu[d].pc # "idle"
    /\ cpu[c].sk \in TcpSockets /\ cpu[d].sk = cpu[c].sk
    => c = d

(* A CPU that sends for a TCP socket sends to its peer. After the lookup    *)
(* missed, the storage stays empty until the CPU itself fills it; from then *)
(* on the packet and the storage agree, unless the storage failed.          *)
Fits(x, storage, failed) ==
  x.pc # "idle" /\ x.sk \in TcpSockets =>
    /\ x.host = Remote[x.sk]
    /\ x.pc \in {"fib", "store"} => storage[x.sk] = None
    /\ x.pc \in {"store", "encap"} => Covers(x.matched_nlri, x.host)
    /\ x.pc = "encap" /\ x.sk \notin failed =>
         storage[x.sk] # None /\ storage[x.sk].nexthop = x.nexthop

CpusFit == \A c \in Cpus : Fits(cpu[c], sticky, unstored)

(* A stored nexthop was chosen for a prefix of the peer. *)
StickyCovers ==
  \A s \in TcpSockets : sticky[s] # None => Covers(sticky[s].matched_nlri, Remote[s])

(* What was sent took the stored nexthop. *)
SentFollowsSticky ==
  \A s \in TcpSockets \ unstored : \A nh \in sent[s] :
    sticky[s] # None /\ sticky[s].nexthop = nh

(* An event that waits is about the nexthop its socket still has. *)
EventsFollowSticky ==
  \A i \in 1..Len(ringbuf) :
    LET s == ringbuf[i].sk IN
    /\ sticky[s] # None
    /\ ringbuf[i].matched_nlri = sticky[s].matched_nlri
    /\ ringbuf[i].nexthop = sticky[s].nexthop

EncapInv ==
  Types /\ Alone /\ CpusFit /\ StickyCovers /\ SentFollowsSticky /\ EventsFollowSticky

LEMMA WaitingEvents ==
  ASSUME EncapInv
  PROVE  \A i \in 1..Len(ringbuf) : ringbuf[i] \in Events /\ ringbuf[i].sk \in TcpSockets
<1> SUFFICES ASSUME NEW i \in 1..Len(ringbuf)
             PROVE  ringbuf[i] \in Events /\ ringbuf[i].sk \in TcpSockets
  OBVIOUS
<1>1. ringbuf \in Seq(Events)
  BY DEF EncapInv, Types
<1>2. ringbuf[i] \in Events
  BY <1>1
<1> QED BY <1>2 DEF Events

(* A step of one CPU, which changes the storage of no other CPU's socket. *)
LEMMA CpuStep ==
  ASSUME EncapInv, NEW c \in Cpus, NEW x \in CpuStates, cpu' = [cpu EXCEPT ![c] = x],
         x.pc # "idle" =>
           \/ cpu[c].pc # "idle" /\ x.sk = cpu[c].sk
           \/ x.sk \in TcpSockets => \A d \in Cpus : cpu[d].pc # "idle" => cpu[d].sk # x.sk,
         Fits(x, sticky', unstored'),
         \A s \in TcpSockets :
           ~(cpu[c].pc # "idle" /\ s = cpu[c].sk) =>
             sticky'[s] = sticky[s] /\ (s \in unstored' <=> s \in unstored)
  PROVE  cpu' \in [Cpus -> CpuStates] /\ Alone' /\ CpusFit'
<1>0. cpu \in [Cpus -> CpuStates]
  BY DEF EncapInv, Types
<1>1. cpu' \in [Cpus -> CpuStates]
  BY <1>0
<1>2. cpu'[c] = x /\ \A d \in Cpus \ {c} : cpu'[d] = cpu[d]
  BY <1>0
<1>3. Alone'
  BY <1>2 DEF Alone, EncapInv
<1>4. CpusFit'
  <2> SUFFICES ASSUME NEW d \in Cpus PROVE Fits(cpu'[d], sticky', unstored')
    BY DEF CpusFit
  <2>1. CASE d = c
    BY <1>2, <2>1
  <2>2. CASE d # c
    <3>1. cpu'[d] = cpu[d] /\ Fits(cpu[d], sticky, unstored)
      BY <1>2, <2>2 DEF EncapInv, CpusFit
    <3>2. ASSUME cpu[d].pc # "idle", cpu[d].sk \in TcpSockets
          PROVE  ~(cpu[c].pc # "idle" /\ cpu[d].sk = cpu[c].sk)
      BY <2>2, <3>2 DEF EncapInv, Alone
    <3> QED BY <3>1, <3>2 DEF Fits
  <2> QED BY <2>1, <2>2
<1> QED BY <1>1, <1>3, <1>4

LEMMA InitInvariant == Init => EncapInv
<1> SUFFICES ASSUME Init PROVE EncapInv
  OBVIOUS
<1>1. Types
  <2>1. FibTyped(fib)
    BY DEF Init, FibTyped
  <2>2. sticky \in [Sockets -> Stored \cup {None}] /\ cpu \in [Cpus -> CpuStates]
    BY DEF Init, CpuStates
  <2>3. ringbuf \in Seq(Events) /\ Len(ringbuf) <= RingCapacity
    BY EncapAssumption DEF Init
  <2> QED BY <2>1, <2>2, <2>3 DEF Init, Types
<1>2. \A c \in Cpus : cpu[c].pc = "idle"
  BY DEF Init, Idle
<1>3. Alone /\ CpusFit
  BY <1>2 DEF Alone, CpusFit, Fits
<1>4. StickyCovers /\ SentFollowsSticky
  <2>1. TcpSockets \subseteq Sockets
    BY DEF Sockets
  <2> QED BY <2>1 DEF Init, StickyCovers, SentFollowsSticky
<1>5. EventsFollowSticky
  BY DEF Init, EventsFollowSticky
<1> QED BY <1>1, <1>3, <1>4, <1>5 DEF EncapInv

(* The controller's writes: no socket and no CPU notices. *)
LEMMA FibStepInvariant ==
  ASSUME EncapInv, FibTyped(fib'),
         UNCHANGED <<sticky, rtt_cb, ringbuf, cpu, sent, unstored>>
  PROVE  EncapInv'
<1>1. Types'
  BY DEF EncapInv, Types
<1>2. Alone' /\ CpusFit'
  BY DEF EncapInv, Alone, CpusFit
<1>3. StickyCovers' /\ SentFollowsSticky' /\ EventsFollowSticky'
  BY DEF EncapInv, StickyCovers, SentFollowsSticky, EventsFollowSticky
<1> QED BY <1>1, <1>2, <1>3 DEF EncapInv

LEMMA FibInsertInvariant ==
  ASSUME EncapInv, NEW net \in Nets, NEW e \in Entries, FibInsert(net, e)
  PROVE  EncapInv'
<1>1. FibTyped(fib)
  BY DEF EncapInv, Types
<1>2. e \in Seq(Slot(Nat)) /\ FibEntryOk(e)
  BY EncapAssumption DEF Slot
<1>3. FibEntry(e) \in Seq(Slot(Nat)) /\ FibEntryOk(FibEntry(e))
  <2>1. \A nh \in Nat : nh \in Int
    OBVIOUS
  <2> QED BY <1>2, <2>1, FibEntryAccepted
<1> DEFINE key == CNlri(net)
           made == [matched_nlri |-> key, weighted |-> FibEntry(e)]
<1>4. key \in Keys
  BY DEF Keys
<1>5. fib' = [k \in DOMAIN fib \cup {key} |-> IF k = key THEN made ELSE fib[k]]
  BY DEF FibInsert
<1>6. made.matched_nlri = key /\ made.weighted = FibEntry(e)
  OBVIOUS
<1> HIDE DEF key, made
<1>7. ASSUME NEW k \in DOMAIN fib'
      PROVE  /\ k \in Keys /\ fib'[k].matched_nlri = k
             /\ fib'[k].weighted \in Seq(Slot(Nat)) /\ FibEntryOk(fib'[k].weighted)
  <2>1. CASE k = key
    <3>1. fib'[k] = made
      BY <1>5, <2>1
    <3> QED BY <1>3, <1>4, <1>6, <2>1, <3>1
  <2>2. CASE k # key
    <3>1. k \in DOMAIN fib /\ fib'[k] = fib[k]
      BY <1>5, <2>2
    <3> QED BY <1>1, <3>1 DEF FibTyped
  <2> QED BY <2>1, <2>2
<1>8. FibTyped(fib')
  BY <1>7 DEF FibTyped
<1> QED BY <1>8, FibStepInvariant DEF FibInsert

LEMMA FibDeleteInvariant ==
  ASSUME EncapInv, NEW net \in Nets, FibDelete(net)
  PROVE  EncapInv'
<1>1. FibTyped(fib)
  BY DEF EncapInv, Types
<1>2. DOMAIN fib' \subseteq DOMAIN fib /\ \A k \in DOMAIN fib' : fib'[k] = fib[k]
  BY DEF FibDelete
<1>3. FibTyped(fib')
  BY <1>1, <1>2 DEF FibTyped
<1> QED BY <1>3, FibStepInvariant DEF FibDelete

(* A CPU's step that leaves the maps and the histories alone. *)
LEMMA CpuOnlyInvariant ==
  ASSUME EncapInv, NEW c \in Cpus, NEW x \in CpuStates, cpu' = [cpu EXCEPT ![c] = x],
         x.pc # "idle" =>
           \/ cpu[c].pc # "idle" /\ x.sk = cpu[c].sk
           \/ x.sk \in TcpSockets => \A d \in Cpus : cpu[d].pc # "idle" => cpu[d].sk # x.sk,
         Fits(x, sticky, unstored),
         UNCHANGED <<fib, sticky, rtt_cb, ringbuf, sent, unstored>>
  PROVE  EncapInv'
<1>1. Fits(x, sticky', unstored')
  BY DEF Fits
<1>2. cpu' \in [Cpus -> CpuStates] /\ Alone' /\ CpusFit'
  BY <1>1, CpuStep
<1>3. Types'
  BY <1>2 DEF EncapInv, Types
<1>4. StickyCovers' /\ SentFollowsSticky' /\ EventsFollowSticky'
  BY DEF EncapInv, StickyCovers, SentFollowsSticky, EventsFollowSticky
<1> QED BY <1>2, <1>3, <1>4 DEF EncapInv

LEMMA BeginInvariant ==
  ASSUME EncapInv, NEW c \in Cpus, NEW sk \in Sockets \cup {NoSocket}, NEW host \in Hosts,
         NEW l3, NEW l4, Begin(c, sk, host, l3, l4)
  PROVE  EncapInv'
<1> DEFINE x == [pc |-> "lookup", sk |-> sk, host |-> host]
<1>1. x \in CpuStates /\ x.pc = "lookup" /\ x.sk = sk /\ x.host = host
  BY DEF CpuStates, Looking
<1>2. cpu' = [cpu EXCEPT ![c] = x] /\ UNCHANGED <<fib, sticky, rtt_cb, ringbuf, sent, unstored>>
  BY DEF Begin, maps
<1>3. x.sk \in TcpSockets =>
        x.host = Remote[x.sk] /\ \A d \in Cpus : cpu[d].pc # "idle" => cpu[d].sk # x.sk
  BY <1>1 DEF Begin
<1> HIDE DEF x
<1>4. Fits(x, sticky, unstored)
  BY <1>1, <1>3 DEF Fits
<1> QED BY <1>1, <1>2, <1>3, <1>4, CpuOnlyInvariant

LEMMA StickyLookupInvariant ==
  ASSUME EncapInv, NEW c \in Cpus, StickyLookup(c)
  PROVE  EncapInv'
<1> DEFINE sk == cpu[c].sk
           miss == [pc |-> "fib", sk |-> sk, host |-> cpu[c].host]
           hit == [pc |-> "encap", sk |-> sk, host |-> cpu[c].host,
                   matched_nlri |-> sticky[sk].matched_nlri, nexthop |-> sticky[sk].nexthop]
<1>0. cpu \in [Cpus -> CpuStates] /\ cpu[c] \in CpuStates /\ cpu[c].pc = "lookup"
      /\ Fits(cpu[c], sticky, unstored)
  BY DEF EncapInv, Types, StickyLookup, CpusFit
<1>1. cpu[c] \in Looking
  BY <1>0, CpuStateByPc
<1>2. sk \in Sockets \cup {NoSocket} /\ cpu[c].host \in Hosts
  BY <1>1 DEF Looking
<1>3. UNCHANGED <<fib, sticky, rtt_cb, ringbuf, sent, unstored>>
  BY DEF StickyLookup, maps
<1>4. CASE sk # NoSocket /\ sticky[sk] # None
  <2>1. cpu' = [cpu EXCEPT ![c] = hit]
    BY <1>4 DEF StickyLookup, Fib
  <2>2. sticky[sk] \in Stored
    BY <1>2, <1>4 DEF EncapInv, Types
  <2>3. hit \in CpuStates
    BY <1>2, <2>2 DEF CpuStates, Sending, Stored
  <2>4. /\ hit.pc = "encap" /\ hit.sk = sk /\ hit.host = cpu[c].host
        /\ hit.matched_nlri = sticky[sk].matched_nlri /\ hit.nexthop = sticky[sk].nexthop
    OBVIOUS
  <2>5. sk \in TcpSockets => /\ cpu[c].host = Remote[sk]
                             /\ Covers(sticky[sk].matched_nlri, Remote[sk])
    BY <1>0, <1>4 DEF Fits, EncapInv, StickyCovers
  <2> HIDE DEF hit, sk
  <2>6. Fits(hit, sticky, unstored)
    BY <1>4, <2>4, <2>5 DEF Fits
  <2>7. hit.sk = cpu[c].sk /\ cpu[c].pc # "idle"
    BY <1>0, <2>4 DEF sk
  <2> QED BY <1>3, <2>1, <2>3, <2>6, <2>7, CpuOnlyInvariant
<1>5. CASE ~(sk # NoSocket /\ sticky[sk] # None)
  <2>1. cpu' = [cpu EXCEPT ![c] = miss]
    <3>1. cpu' = [cpu EXCEPT ![c] = [cpu[c] EXCEPT !.pc = "fib"]]
      BY <1>5 DEF StickyLookup
    <3> QED BY <1>1, <3>1, LookingGoesOn
  <2>2. miss \in CpuStates
    BY <1>2 DEF CpuStates, Looking
  <2>3. miss.pc = "fib" /\ miss.sk = sk /\ miss.host = cpu[c].host
    OBVIOUS
  <2>4. sk \in TcpSockets => cpu[c].host = Remote[sk] /\ sticky[sk] = None
    <3>1. sk \in TcpSockets => sk # NoSocket
      BY EncapAssumption DEF Sockets
    <3> QED BY <1>0, <1>5, <3>1 DEF Fits
  <2> HIDE DEF miss, sk
  <2>5. Fits(miss, sticky, unstored)
    BY <2>3, <2>4 DEF Fits
  <2>6. miss.sk = cpu[c].sk /\ cpu[c].pc # "idle"
    BY <1>0, <2>3 DEF sk
  <2> QED BY <1>3, <2>1, <2>2, <2>5, <2>6, CpuOnlyInvariant
<1> QED BY <1>4, <1>5

LEMMA FibLookupInvariant ==
  ASSUME EncapInv, NEW c \in Cpus, FibLookup(c)
  PROVE  EncapInv'
<1> DEFINE host == cpu[c].host
           keys == DOMAIN fib
           found == LongestMatch(keys, host)
<1>0. cpu \in [Cpus -> CpuStates] /\ cpu[c] \in CpuStates /\ cpu[c].pc = "fib"
      /\ Fits(cpu[c], sticky, unstored) /\ FibTyped(fib)
  BY DEF EncapInv, Types, FibLookup, CpusFit
<1>1. cpu[c] \in Looking
  BY <1>0, CpuStateByPc
<1>2. cpu[c].sk \in Sockets \cup {NoSocket} /\ host \in Hosts
  BY <1>1 DEF Looking
<1>3. UNCHANGED <<fib, sticky, rtt_cb, ringbuf, sent, unstored>>
  BY DEF FibLookup, maps
<1>4. CASE cpu' = [cpu EXCEPT ![c] = Idle]
  <2>1. Idle \in CpuStates /\ Idle.pc = "idle"
    BY DEF CpuStates, Idle
  <2>2. Fits(Idle, sticky, unstored)
    BY <2>1 DEF Fits
  <2> QED BY <1>3, <1>4, <2>1, <2>2, CpuOnlyInvariant
<1>5. CASE cpu' # [cpu EXCEPT ![c] = Idle]
  <2>1. Matches(keys, host) # {}
    BY <1>5 DEF FibLookup
  <2>2. PICK ticket \in 0..(WEIGHT_DENOMINATOR - 1) :
          cpu' = [cpu EXCEPT ![c] =
                    IF fib_entry_select_nexthop(fib[found], ticket) = Refused THEN Idle
                    ELSE Fib(c, fib[found].matched_nlri,
                             fib_entry_select_nexthop(fib[found], ticket), "store")]
    BY <2>1 DEF FibLookup
  <2> DEFINE nexthop == fib_entry_select_nexthop(fib[found], ticket)
             x == [pc |-> "store", sk |-> cpu[c].sk, host |-> host,
                   matched_nlri |-> found, nexthop |-> nexthop]
  <2>3. found \in keys /\ Covers(found, host)
    <3>1. \A k \in keys : k.prefix_len \in Nat /\ k.prefix_len <= AddrBits
      BY <1>0, KeyLength DEF FibTyped
    <3>2. found \in Matches(keys, host)
      BY <2>1, <3>1, LongestMatchMatches
    <3> QED BY <3>2 DEF Matches
  <2>4. /\ found \in Keys /\ fib[found].matched_nlri = found
        /\ fib[found].weighted \in Seq(Slot(Nat)) /\ FibEntryOk(fib[found].weighted)
    BY <1>0, <2>3 DEF FibTyped
  <2>5. nexthop \in Nat
    <3>1. PICK i \in DOMAIN fib[found].weighted : nexthop = fib[found].weighted[i].nexthop
      BY <2>4, TicketFallsInSlot
    <3>2. fib[found].weighted[i] \in Slot(Nat)
      BY <2>4
    <3> QED BY <3>1, <3>2 DEF Slot
  <2>6. cpu' = [cpu EXCEPT ![c] = x]
    <3>1. nexthop # Refused
      <4> HIDE DEF nexthop
      <4> QED BY <2>5 DEF Refused
    <3> QED BY <2>2, <2>4, <3>1 DEF Fib
  <2>7. x \in CpuStates
    BY <1>2, <2>4, <2>5 DEF CpuStates, Sending
  <2>8. /\ x.pc = "store" /\ x.sk = cpu[c].sk /\ x.host = host
        /\ x.matched_nlri = found
    OBVIOUS
  <2> HIDE DEF x, found
  <2>9. Fits(x, sticky, unstored)
    BY <1>0, <2>3, <2>8 DEF Fits
  <2>10. x.sk = cpu[c].sk /\ cpu[c].pc # "idle"
    BY <1>0, <2>8
  <2> QED BY <1>3, <2>6, <2>7, <2>9, <2>10, CpuOnlyInvariant
<1> QED BY <1>4, <1>5

(* A CPU stores the nexthop it chose, or leaves the one that is there. *)
LEMMA StickyStoreInvariant ==
  ASSUME EncapInv, NEW c \in Cpus, StickyStore(c)
  PROVE  EncapInv'
<1> DEFINE sk == cpu[c].sk
           mine == [matched_nlri |-> cpu[c].matched_nlri, nexthop |-> cpu[c].nexthop]
           x == [pc |-> "encap", sk |-> sk, host |-> cpu[c].host,
                 matched_nlri |-> cpu[c].matched_nlri, nexthop |-> cpu[c].nexthop]
<1>0. cpu \in [Cpus -> CpuStates] /\ cpu[c] \in CpuStates /\ cpu[c].pc = "store"
      /\ Fits(cpu[c], sticky, unstored) /\ sticky \in [Sockets -> Stored \cup {None}]
  BY DEF EncapInv, Types, StickyStore, CpusFit
<1>1. cpu[c] \in Sending
  BY <1>0, CpuStateByPc
<1>2. sk \in Sockets \cup {NoSocket} /\ mine \in Stored /\ x \in CpuStates
  BY <1>1 DEF Sending, Stored, CpuStates
<1>3. UNCHANGED <<fib, rtt_cb, ringbuf, sent, unstored>>
  BY DEF StickyStore
<1>4. cpu' = [cpu EXCEPT ![c] = x]
  <2>1. cpu' = [cpu EXCEPT ![c] = [cpu[c] EXCEPT !.pc = "encap"]]
    BY DEF StickyStore
  <2> QED BY <1>1, <2>1, SendingGoesOn
<1>5. sticky' = IF sk = NoSocket \/ sticky[sk] # None THEN sticky
                ELSE [sticky EXCEPT ![sk] = mine]
  BY DEF StickyStore
<1>6. /\ x.pc = "encap" /\ x.sk = sk /\ x.host = cpu[c].host
      /\ x.matched_nlri = cpu[c].matched_nlri /\ x.nexthop = cpu[c].nexthop
      /\ mine.matched_nlri = cpu[c].matched_nlri /\ mine.nexthop = cpu[c].nexthop
  OBVIOUS
<1>7. mine # None
  BY <1>2, NoneIsNoNexthop
<1> HIDE DEF mine, x
<1>8. sticky' \in [Sockets -> Stored \cup {None}]
  BY <1>0, <1>2, <1>5
<1>9. \A s \in Sockets : 
        \/ sticky'[s] = sticky[s]
        \/ s = sk /\ sticky[s] = None /\ sticky'[s] = mine
  BY <1>0, <1>2, <1>5
<1>10. TcpSockets \subseteq Sockets
  BY DEF Sockets
<1>11. sk \in TcpSockets =>
         /\ sticky[sk] = None /\ sticky'[sk] = mine
         /\ cpu[c].host = Remote[sk] /\ Covers(cpu[c].matched_nlri, Remote[sk])
  <2> SUFFICES ASSUME sk \in TcpSockets
               PROVE  /\ sticky[sk] = None /\ sticky'[sk] = mine
                      /\ cpu[c].host = Remote[sk] /\ Covers(cpu[c].matched_nlri, Remote[sk])
    OBVIOUS
  <2>1. sticky[sk] = None /\ cpu[c].host = Remote[sk] /\ Covers(cpu[c].matched_nlri, cpu[c].host)
    BY <1>0 DEF Fits
  <2>2. sk # NoSocket /\ sk \in Sockets
    BY <1>10, EncapAssumption
  <2> QED BY <1>0, <1>5, <2>1, <2>2
<1>12. Fits(x, sticky', unstored')
  BY <1>6, <1>7, <1>11 DEF Fits
<1>13. cpu' \in [Cpus -> CpuStates] /\ Alone' /\ CpusFit'
  <2>1. x.sk = cpu[c].sk /\ cpu[c].pc # "idle"
    BY <1>0, <1>6
  <2>2. \A s \in TcpSockets :
          ~(cpu[c].pc # "idle" /\ s = cpu[c].sk) =>
            sticky'[s] = sticky[s] /\ (s \in unstored' <=> s \in unstored)
    BY <1>3, <1>9, <1>10, <2>1
  <2> QED BY <1>2, <1>4, <1>12, <2>1, <2>2, CpuStep
<1>14. Types'
  BY <1>3, <1>8, <1>13 DEF EncapInv, Types
<1>15. StickyCovers'
  BY <1>6, <1>9, <1>10, <1>11 DEF EncapInv, StickyCovers
<1>16. SentFollowsSticky'
  BY <1>3, <1>9, <1>10 DEF EncapInv, SentFollowsSticky
<1>17. EventsFollowSticky'
  <2>1. \A i \in 1..Len(ringbuf) : ringbuf[i].sk \in Sockets
    BY <1>10, WaitingEvents
  <2> QED BY <1>3, <1>9, <2>1 DEF EncapInv, EventsFollowSticky
<1> QED BY <1>13, <1>14, <1>15, <1>16, <1>17 DEF EncapInv

LEMMA StickyStoreFailsInvariant ==
  ASSUME EncapInv, NEW c \in Cpus, StickyStoreFails(c)
  PROVE  EncapInv'
<1> DEFINE sk == cpu[c].sk
           x == [pc |-> "encap", sk |-> sk, host |-> cpu[c].host,
                 matched_nlri |-> cpu[c].matched_nlri, nexthop |-> cpu[c].nexthop]
<1>0. cpu \in [Cpus -> CpuStates] /\ cpu[c] \in CpuStates /\ cpu[c].pc = "store"
      /\ Fits(cpu[c], sticky, unstored)
  BY DEF EncapInv, Types, StickyStoreFails, CpusFit
<1>1. cpu[c] \in Sending
  BY <1>0, CpuStateByPc
<1>2. x \in CpuStates
  BY <1>1 DEF Sending, CpuStates
<1>3. UNCHANGED <<fib, sticky, rtt_cb, ringbuf, sent>>
  BY DEF StickyStoreFails, maps
<1>4. cpu' = [cpu EXCEPT ![c] = x]
  <2>1. cpu' = [cpu EXCEPT ![c] = [cpu[c] EXCEPT !.pc = "encap"]]
    BY DEF StickyStoreFails
  <2> QED BY <1>1, <2>1, SendingGoesOn
<1>5. unstored' = unstored \cup ({sk} \cap TcpSockets)
  BY DEF StickyStoreFails
<1>6. /\ x.pc = "encap" /\ x.sk = sk /\ x.host = cpu[c].host
      /\ x.matched_nlri = cpu[c].matched_nlri
  OBVIOUS
<1> HIDE DEF x
<1>7. Fits(x, sticky', unstored')
  BY <1>0, <1>5, <1>6 DEF Fits
<1>8. cpu' \in [Cpus -> CpuStates] /\ Alone' /\ CpusFit'
  <2>1. x.sk = cpu[c].sk /\ cpu[c].pc # "idle"
    BY <1>0, <1>6
  <2>2. \A s \in TcpSockets :
          ~(cpu[c].pc # "idle" /\ s = cpu[c].sk) =>
            sticky'[s] = sticky[s] /\ (s \in unstored' <=> s \in unstored)
    BY <1>3, <1>5, <2>1
  <2> QED BY <1>2, <1>4, <1>7, <2>1, <2>2, CpuStep
<1>9. Types'
  BY <1>3, <1>5, <1>8 DEF EncapInv, Types
<1>10. StickyCovers' /\ SentFollowsSticky' /\ EventsFollowSticky'
  BY <1>3, <1>5 DEF EncapInv, StickyCovers, SentFollowsSticky, EventsFollowSticky
<1> QED BY <1>8, <1>9, <1>10 DEF EncapInv

LEMMA EncapsulateInvariant ==
  ASSUME EncapInv, NEW c \in Cpus, Encapsulate(c)
  PROVE  EncapInv'
<1> DEFINE sk == cpu[c].sk
<1>0. cpu \in [Cpus -> CpuStates] /\ cpu[c] \in CpuStates /\ cpu[c].pc = "encap"
      /\ Fits(cpu[c], sticky, unstored)
  BY DEF EncapInv, Types, Encapsulate, CpusFit
<1>1. cpu[c] \in Sending
  BY <1>0, CpuStateByPc
<1>2. cpu[c].nexthop \in Nat
  BY <1>1 DEF Sending
<1>3. UNCHANGED <<fib, sticky, rtt_cb, ringbuf, unstored>>
  BY DEF Encapsulate, maps
<1>4. cpu' = [cpu EXCEPT ![c] = Idle]
  BY DEF Encapsulate
<1>5. cpu' \in [Cpus -> CpuStates] /\ Alone' /\ CpusFit'
  <2>1. Idle \in CpuStates /\ Idle.pc = "idle"
    BY DEF CpuStates, Idle
  <2>2. Fits(Idle, sticky', unstored')
    BY <2>1 DEF Fits
  <2>3. \A s \in TcpSockets : sticky'[s] = sticky[s] /\ (s \in unstored' <=> s \in unstored)
    BY <1>3
  <2> QED BY <1>4, <2>1, <2>2, <2>3, CpuStep
<1>6. sent \in [TcpSockets -> SUBSET Nat]
  BY DEF EncapInv, Types
<1>7. \/ sent' = [s \in TcpSockets |-> IF s = sk THEN sent[s] \cup {cpu[c].nexthop} ELSE sent[s]]
      \/ sent' = sent
  BY DEF Encapsulate
<1>8. sent' \in [TcpSockets -> SUBSET Nat]
  BY <1>2, <1>6, <1>7
<1>9. \A s \in TcpSockets : \A nh \in sent'[s] :
        \/ nh \in sent[s]
        \/ s = sk /\ nh = cpu[c].nexthop
  BY <1>6, <1>7
<1>10. Types'
  BY <1>3, <1>5, <1>8 DEF EncapInv, Types
<1>11. SentFollowsSticky'
  <2> SUFFICES ASSUME NEW s \in TcpSockets \ unstored, NEW nh \in sent'[s]
               PROVE  sticky[s] # None /\ sticky[s].nexthop = nh
    BY <1>3 DEF SentFollowsSticky
  <2>1. CASE nh \in sent[s]
    BY <2>1 DEF EncapInv, SentFollowsSticky
  <2>2. CASE s = sk /\ nh = cpu[c].nexthop
    BY <1>0, <2>2 DEF Fits
  <2> QED BY <1>9, <2>1, <2>2
<1>12. StickyCovers' /\ EventsFollowSticky'
  BY <1>3 DEF EncapInv, StickyCovers, EventsFollowSticky
<1> QED BY <1>5, <1>10, <1>11, <1>12 DEF EncapInv

LEMMA EstablishedInvariant ==
  ASSUME EncapInv, NEW s \in TcpSockets, Established(s)
  PROVE  EncapInv'
<1>1. UNCHANGED <<fib, sticky, ringbuf, cpu, sent, unstored>> /\ rtt_cb' = rtt_cb \cup {s}
  BY DEF Established
<1>2. Types'
  BY <1>1 DEF EncapInv, Types
<1>3. Alone' /\ CpusFit'
  BY <1>1 DEF EncapInv, Alone, CpusFit
<1>4. StickyCovers' /\ SentFollowsSticky' /\ EventsFollowSticky'
  BY <1>1 DEF EncapInv, StickyCovers, SentFollowsSticky, EventsFollowSticky
<1> QED BY <1>2, <1>3, <1>4 DEF EncapInv

LEMMA EmitInvariant ==
  ASSUME EncapInv, NEW s \in TcpSockets, emit_tcp_rtt_event(s)
  PROVE  EncapInv'
<1> DEFINE e == [sk |-> s, matched_nlri |-> sticky[s].matched_nlri, nexthop |-> sticky[s].nexthop]
<1>1. UNCHANGED <<fib, sticky, rtt_cb, cpu, sent, unstored>> /\ ringbuf' = Append(ringbuf, e)
      /\ sticky[s] # None /\ Len(ringbuf) < RingCapacity
  BY DEF emit_tcp_rtt_event
<1>2. ringbuf \in Seq(Events) /\ RingCapacity \in Nat
  BY EncapAssumption DEF EncapInv, Types
<1>3. e \in Events
  <2>1. sticky[s] \in Stored
    BY <1>1 DEF EncapInv, Types, Sockets
  <2> QED BY <2>1 DEF Stored, Events
<1>4. e.sk = s /\ e.matched_nlri = sticky[s].matched_nlri /\ e.nexthop = sticky[s].nexthop
  OBVIOUS
<1> HIDE DEF e
<1>5. /\ ringbuf' \in Seq(Events) /\ Len(ringbuf') = Len(ringbuf) + 1
      /\ Len(ringbuf) \in Nat
      /\ \A i \in 1..Len(ringbuf) : ringbuf'[i] = ringbuf[i]
      /\ ringbuf'[Len(ringbuf) + 1] = e
  BY <1>1, <1>2, <1>3
<1>6. Types'
  <2>1. Len(ringbuf') <= RingCapacity
    BY <1>1, <1>2, <1>5
  <2> QED BY <1>1, <1>5, <2>1 DEF EncapInv, Types
<1>7. Alone' /\ CpusFit'
  BY <1>1 DEF EncapInv, Alone, CpusFit
<1>8. StickyCovers' /\ SentFollowsSticky'
  BY <1>1 DEF EncapInv, StickyCovers, SentFollowsSticky
<1>9. EventsFollowSticky'
  <2> SUFFICES ASSUME NEW i \in 1..Len(ringbuf')
               PROVE  /\ sticky[ringbuf'[i].sk] # None
                      /\ ringbuf'[i].matched_nlri = sticky[ringbuf'[i].sk].matched_nlri
                      /\ ringbuf'[i].nexthop = sticky[ringbuf'[i].sk].nexthop
    BY <1>1 DEF EventsFollowSticky
  <2>1. CASE i \in 1..Len(ringbuf)
    BY <1>5, <2>1 DEF EncapInv, EventsFollowSticky
  <2>2. CASE i = Len(ringbuf) + 1
    BY <1>1, <1>4, <1>5, <2>2
  <2> QED BY <1>5, <2>1, <2>2
<1> QED BY <1>6, <1>7, <1>8, <1>9 DEF EncapInv

LEMMA ConsumeInvariant ==
  ASSUME EncapInv, Consume
  PROVE  EncapInv'
<1>1. UNCHANGED <<fib, sticky, rtt_cb, cpu, sent, unstored>> /\ ringbuf' = Tail(ringbuf)
      /\ ringbuf # <<>>
  BY DEF Consume
<1>2. ringbuf \in Seq(Events) /\ RingCapacity \in Nat /\ Len(ringbuf) <= RingCapacity
  BY EncapAssumption DEF EncapInv, Types
<1>3. /\ ringbuf' \in Seq(Events) /\ Len(ringbuf') = Len(ringbuf) - 1
      /\ Len(ringbuf) \in Nat
      /\ \A i \in 1..Len(ringbuf') : ringbuf'[i] = ringbuf[i + 1]
  BY <1>1, <1>2
<1>4. Types'
  <2>1. Len(ringbuf') <= RingCapacity
    BY <1>2, <1>3
  <2> QED BY <1>1, <1>3, <2>1 DEF EncapInv, Types
<1>5. Alone' /\ CpusFit'
  BY <1>1 DEF EncapInv, Alone, CpusFit
<1>6. StickyCovers' /\ SentFollowsSticky'
  BY <1>1 DEF EncapInv, StickyCovers, SentFollowsSticky
<1>7. EventsFollowSticky'
  <2> SUFFICES ASSUME NEW i \in 1..Len(ringbuf')
               PROVE  /\ sticky[ringbuf'[i].sk] # None
                      /\ ringbuf'[i].matched_nlri = sticky[ringbuf'[i].sk].matched_nlri
                      /\ ringbuf'[i].nexthop = sticky[ringbuf'[i].sk].nexthop
    BY <1>1 DEF EventsFollowSticky
  <2>1. i + 1 \in 1..Len(ringbuf) /\ ringbuf'[i] = ringbuf[i + 1]
    BY <1>3
  <2> QED BY <2>1 DEF EncapInv, EventsFollowSticky
<1> QED BY <1>4, <1>5, <1>6, <1>7 DEF EncapInv

LEMMA CloseInvariant ==
  ASSUME EncapInv, NEW s \in Sockets, Close(s)
  PROVE  EncapInv'
<1>1. /\ UNCHANGED <<fib, ringbuf, cpu>>
      /\ sticky' = [sticky EXCEPT ![s] = None] /\ rtt_cb' = rtt_cb \ {s}
      /\ sent' = [t \in TcpSockets |-> IF t = s THEN {} ELSE sent[t]]
      /\ unstored' = unstored \ {s}
  BY DEF Close
<1>2. sticky \in [Sockets -> Stored \cup {None}] /\ sent \in [TcpSockets -> SUBSET Nat]
  BY DEF EncapInv, Types
<1>3. sticky' \in [Sockets -> Stored \cup {None}] /\ sticky'[s] = None
      /\ \A t \in Sockets : t # s => sticky'[t] = sticky[t]
  BY <1>1, <1>2
<1>4. sent' \in [TcpSockets -> SUBSET Nat]
      /\ \A t \in TcpSockets : sent'[t] = IF t = s THEN {} ELSE sent[t]
  BY <1>1, <1>2
<1>5. TcpSockets \subseteq Sockets
  BY DEF Sockets
<1>6. Types'
  BY <1>1, <1>3, <1>4 DEF EncapInv, Types
<1>7. Alone'
  BY <1>1 DEF EncapInv, Alone
<1>8. CpusFit'
  <2> SUFFICES ASSUME NEW c \in Cpus PROVE Fits(cpu[c], sticky', unstored')
    BY <1>1 DEF CpusFit
  <2>1. Fits(cpu[c], sticky, unstored)
    BY DEF EncapInv, CpusFit
  <2>2. cpu[c].pc # "idle" => cpu[c].sk # s
    BY DEF Close
  <2> QED BY <1>1, <1>3, <1>5, <2>1, <2>2 DEF Fits
<1>9. StickyCovers'
  BY <1>3, <1>5 DEF EncapInv, StickyCovers
<1>10. SentFollowsSticky'
  BY <1>1, <1>3, <1>4, <1>5 DEF EncapInv, SentFollowsSticky
<1>11. EventsFollowSticky'
  <2>1. ringbuf \in Seq(Events)
    BY DEF EncapInv, Types
  <2>2. DOMAIN ringbuf = 1..Len(ringbuf)
    BY <2>1
  <2>3. \A i \in 1..Len(ringbuf) : ringbuf[i].sk \in Sockets /\ ringbuf[i].sk # s
    BY <1>5, <2>2, WaitingEvents DEF Close
  <2> QED BY <1>1, <1>3, <2>3 DEF EncapInv, EventsFollowSticky
<1> QED BY <1>6, <1>7, <1>8, <1>9, <1>10, <1>11 DEF EncapInv

LEMMA NextInvariant == EncapInv /\ [Next]_vars => EncapInv'
<1> SUFFICES ASSUME EncapInv, [Next]_vars PROVE EncapInv'
  OBVIOUS
<1>1. CASE \E net \in Nets, e \in Entries : FibInsert(net, e)
  BY <1>1, FibInsertInvariant
<1>2. CASE \E net \in Nets : FibDelete(net)
  BY <1>2, FibDeleteInvariant
<1>3. CASE \E c \in Cpus, sk \in Sockets \cup {NoSocket}, host \in Hosts,
              l3 \in {"ip", "ip6", "arp"}, l4 \in {"tcp", "udp", "icmp", "icmp6"} :
             Begin(c, sk, host, l3, l4)
  BY <1>3, BeginInvariant
<1>4. CASE \E c \in Cpus : StickyLookup(c)
  BY <1>4, StickyLookupInvariant
<1>5. CASE \E c \in Cpus : FibLookup(c)
  BY <1>5, FibLookupInvariant
<1>6. CASE \E c \in Cpus : StickyStore(c)
  BY <1>6, StickyStoreInvariant
<1>7. CASE \E c \in Cpus : StickyStoreFails(c)
  BY <1>7, StickyStoreFailsInvariant
<1>8. CASE \E c \in Cpus : Encapsulate(c)
  BY <1>8, EncapsulateInvariant
<1>9. CASE \E s \in TcpSockets : Established(s)
  BY <1>9, EstablishedInvariant
<1>10. CASE \E s \in TcpSockets : emit_tcp_rtt_event(s)
  BY <1>10, EmitInvariant
<1>11. CASE Consume
  BY <1>11, ConsumeInvariant
<1>12. CASE \E s \in Sockets : Close(s)
  BY <1>12, CloseInvariant
<1>13. CASE UNCHANGED vars
  <2>1. UNCHANGED <<fib, sticky, rtt_cb, ringbuf, cpu, sent, unstored>>
    BY <1>13 DEF vars, maps
  <2>2. FibTyped(fib')
    BY <2>1 DEF EncapInv, Types
  <2> QED BY <2>1, <2>2, FibStepInvariant
<1> QED BY <1>1, <1>2, <1>3, <1>4, <1>5, <1>6, <1>7, <1>8, <1>9, <1>10, <1>11, <1>12,
           <1>13 DEF Next

LEMMA EncapInvariant == Spec => []EncapInv
BY InitInvariant, NextInvariant, PTL DEF Spec

---------------------------------------------------------------------------
(* The theorems. *)

(* The maps, the program counters and the ring buffer keep their types, the *)
(* ring buffer its bound, and every entry of e_fib is one that              *)
(* fib_entry_select_nexthop takes.                                          *)
THEOREM EncapTypeCorrect == Spec => []TypeOK
<1>1. EncapInv => TypeOK
  <2> SUFFICES ASSUME EncapInv PROVE TypeOK
    OBVIOUS
  <2>1. \A k \in DOMAIN fib : /\ fib[k].matched_nlri = k
                              /\ k \in {CNlri(net) : net \in Nets}
                              /\ FibEntryOk(fib[k].weighted)
    BY DEF EncapInv, Types, FibTyped, Keys
  <2>2. DOMAIN sticky = Sockets /\ DOMAIN sent = TcpSockets /\ DOMAIN cpu = Cpus
    BY DEF EncapInv, Types
  <2>3. \A c \in Cpus : cpu[c].pc \in {"idle", "lookup", "fib", "store", "encap"}
    BY CpuStateByPc DEF EncapInv, Types
  <2> QED BY <2>1, <2>2, <2>3 DEF EncapInv, Types, TypeOK
<1> QED BY <1>1, EncapInvariant, PTL

(* Whatever the controller does to e_fib and however the CPUs interleave,   *)
(* the packets of a TCP socket take one nexthop, chosen for a prefix of its *)
(* peer: socket_sticky_nexthop_lookup finds what socket_sticky_nexthop_store *)
(* left, unless the kernel had no memory for it.                            *)
THEOREM SocketsKeepTheirNexthop == Spec => []TcpStaysOnOneNexthop
<1>1. EncapInv => TcpStaysOnOneNexthop
  <2> SUFFICES ASSUME EncapInv PROVE TcpStaysOnOneNexthop
    OBVIOUS
  <2>1. ASSUME NEW s \in TcpSockets \ unstored PROVE Cardinality(sent[s]) <= 1
    <3>1. CASE sent[s] = {}
      BY <3>1, FS_EmptySet
    <3>2. CASE sent[s] # {}
      <4>1. PICK nh \in sent[s] : TRUE
        BY <3>2
      <4>2. sent[s] = {nh}
        BY <4>1 DEF EncapInv, SentFollowsSticky
      <4>3. Cardinality({nh}) = 1
        BY FS_Singleton
      <4> QED BY <4>2, <4>3
    <3> QED BY <3>1, <3>2
  <2>2. ASSUME NEW c \in Cpus, cpu[c].pc \in {"store", "encap"}, cpu[c].sk \in TcpSockets
        PROVE  Covers(cpu[c].matched_nlri, cpu[c].host)
    <3>1. Fits(cpu[c], sticky, unstored)
      BY DEF EncapInv, CpusFit
    <3> QED BY <2>2, <3>1 DEF Fits
  <2> QED BY <2>1, <2>2 DEF TcpStaysOnOneNexthop
<1> QED BY <1>1, EncapInvariant, PTL

(* An event in the ring buffer that emit_tcp_rtt_event wrote names the      *)
(* nexthop its socket's packets took and a prefix of its peer.              *)
THEOREM RttIsOfThePathTaken == Spec => []RttNamesItsPath
<1>1. EncapInv => RttNamesItsPath
  <2> SUFFICES ASSUME EncapInv, NEW i \in DOMAIN ringbuf
               PROVE  /\ ringbuf[i].sk \notin unstored =>
                           sent[ringbuf[i].sk] \subseteq {ringbuf[i].nexthop}
                      /\ Covers(ringbuf[i].matched_nlri, Remote[ringbuf[i].sk])
    BY DEF RttNamesItsPath
  <2>1. ringbuf \in Seq(Events)
    BY DEF EncapInv, Types
  <2>2. i \in 1..Len(ringbuf)
    BY <2>1
  <2> DEFINE s == ringbuf[i].sk
  <2>3. s \in TcpSockets
    BY <2>2, WaitingEvents
  <2>4. sticky[s] # None /\ ringbuf[i].matched_nlri = sticky[s].matched_nlri
        /\ ringbuf[i].nexthop = sticky[s].nexthop
    BY <2>2 DEF EncapInv, EventsFollowSticky
  <2> HIDE DEF s
  <2>5. Covers(ringbuf[i].matched_nlri, Remote[s])
    BY <2>3, <2>4 DEF EncapInv, StickyCovers
  <2>6. s \notin unstored => \A nh \in sent[s] : nh = ringbuf[i].nexthop
    BY <2>3, <2>4 DEF EncapInv, SentFollowsSticky
  <2> QED BY <2>5, <2>6 DEF s
<1> QED BY <1>1, EncapInvariant, PTL

(* No step replaces a stored nexthop: two CPUs that miss at the same time   *)
(* and both store leave the first one's, and only the socket's end clears it. *)
THEOREM StoredNexthopStays == Spec => FirstNexthopStays
<1> DEFINE A == \A s \in Sockets :
                  sticky[s] # None => \/ sticky'[s] = sticky[s]
                                      \/ sticky'[s] = None /\ (s \in TcpSockets => sent'[s] = {})
<1>1. EncapInv /\ [Next]_vars => [A]_vars
  <2> SUFFICES ASSUME EncapInv, Next PROVE A
    OBVIOUS
  <2>0. sticky \in [Sockets -> Stored \cup {None}] /\ sent \in [TcpSockets -> SUBSET Nat]
    BY DEF EncapInv, Types
  <2>1. CASE \E c \in Cpus : StickyStore(c)
    <3>1. PICK c \in Cpus : StickyStore(c)
      BY <2>1
    <3>2. sticky' = IF cpu[c].sk = NoSocket \/ sticky[cpu[c].sk] # None THEN sticky
                    ELSE [sticky EXCEPT ![cpu[c].sk] =
                            [matched_nlri |-> cpu[c].matched_nlri, nexthop |-> cpu[c].nexthop]]
      BY <3>1 DEF StickyStore
    <3>3. \A s \in Sockets : sticky[s] # None => sticky'[s] = sticky[s]
      BY <2>0, <3>2
    <3> QED BY <3>3
  <2>2. CASE \E s \in Sockets : Close(s)
    <3>1. PICK s \in Sockets : Close(s)
      BY <2>2
    <3>2. sticky' = [sticky EXCEPT ![s] = None]
          /\ sent' = [t \in TcpSockets |-> IF t = s THEN {} ELSE sent[t]]
      BY <3>1 DEF Close
    <3>3. sticky'[s] = None /\ \A t \in Sockets : t # s => sticky'[t] = sticky[t]
      BY <2>0, <3>2
    <3>4. s \in TcpSockets => sent'[s] = {}
      BY <3>2
    <3> QED BY <3>3, <3>4
  <2>3. CASE \/ \E net \in Nets, e \in Entries : FibInsert(net, e)
             \/ \E net \in Nets : FibDelete(net)
             \/ \E c \in Cpus, sk \in Sockets \cup {NoSocket}, host \in Hosts,
                   l3 \in {"ip", "ip6", "arp"}, l4 \in {"tcp", "udp", "icmp", "icmp6"} :
                  Begin(c, sk, host, l3, l4)
             \/ \E c \in Cpus : StickyLookup(c)
             \/ \E c \in Cpus : FibLookup(c)
             \/ \E c \in Cpus : StickyStoreFails(c)
             \/ \E c \in Cpus : Encapsulate(c)
             \/ \E s \in TcpSockets : Established(s)
             \/ \E s \in TcpSockets : emit_tcp_rtt_event(s)
             \/ Consume
    <3>1. UNCHANGED sticky
      BY <2>3 DEF FibInsert, FibDelete, Begin, StickyLookup, FibLookup, StickyStoreFails,
                  Encapsulate, Established, emit_tcp_rtt_event, Consume, maps
    <3> QED BY <3>1
  <2> QED BY <2>1, <2>2, <2>3 DEF Next
<1>2. [][A]_vars <=> FirstNexthopStays
  BY DEF FirstNexthopStays
<1> QED BY <1>1, <1>2, EncapInvariant, PTL DEF Spec

---------------------------------------------------------------------------
(* The tickets, counted. *)

(* The sums of the weights of an entry, one slot after the other. *)
LEMMA TicketBounds ==
  ASSUME NEW W \in Seq(Slot(Nat)), FibEntryOk(W)
  PROVE  /\ Len(W) \in 1..4 /\ DOMAIN W = 1..Len(W)
         /\ \A i \in 1..Len(W) : W[i].weight \in Nat /\ W[i].nexthop \in Nat
         /\ UpTo(W, 1) = W[1].weight
         /\ \A i \in 2..Len(W) : UpTo(W, i) = UpTo(W, i - 1) + W[i].weight
         /\ \A i \in 1..Len(W) : UpTo(W, i) \in Nat
         /\ UpTo(W, Len(W)) = WEIGHT_DENOMINATOR
<1> DEFINE n == Len(W)
           v == [i \in 1..n |-> W[i].weight]
<1>1. DOMAIN W = 1..n /\ n \in 1..MAX_NEXTHOPS
  BY DEF FibEntryOk
<1>2. n \in 1..4
  <2> HIDE DEF n
  <2> QED BY <1>1, DescentAssumption
<1>3. \A i \in 1..n : W[i].weight \in Nat /\ W[i].nexthop \in Nat
  <2>1. \A i \in 1..n : W[i] \in Slot(Nat)
    BY <1>1
  <2> QED BY <2>1 DEF Slot
<1>4. DOMAIN v = 1..n /\ \A i \in 1..n : v[i] = W[i].weight /\ v[i] \in Nat
  BY <1>3
<1>5. ASSUME NEW i \in 1..n PROVE UpTo(W, i) = Sum([k \in 1..i |-> v[k]])
  <2>1. [k \in 1..i |-> W[k].weight] = [k \in 1..i |-> v[k]]
    <3>1. \A k \in 1..i : k \in 1..n
      BY <1>2
    <3> QED BY <1>4, <3>1
  <2> QED BY <2>1 DEF UpTo
<1>6. UpTo(W, n) = WEIGHT_DENOMINATOR
  <2>1. WeightsOf(W) = [k \in 1..n |-> W[k].weight]
    BY <1>1 DEF WeightsOf
  <2> QED BY <2>1 DEF FibEntryOk, UpTo
<1> HIDE DEF n, v
<1>7. /\ UpTo(W, 1) = v[1]
      /\ n >= 2 => UpTo(W, 2) = v[1] + v[2]
      /\ n >= 3 => UpTo(W, 3) = v[1] + v[2] + v[3]
      /\ n = 4 => UpTo(W, 4) = v[1] + v[2] + v[3] + v[4]
  <2>1. \A i \in 1..n : v[i] \in Int
    BY <1>4
  <2>2. /\ Sum([i \in 1..1 |-> v[i]]) = v[1]
        /\ n >= 2 => Sum([i \in 1..2 |-> v[i]]) = v[1] + v[2]
        /\ n >= 3 => Sum([i \in 1..3 |-> v[i]]) = v[1] + v[2] + v[3]
        /\ n = 4 => Sum([i \in 1..4 |-> v[i]]) = v[1] + v[2] + v[3] + v[4]
    BY <1>2, <1>4, <2>1, PrefixSums
  <2>3. UpTo(W, 1) = Sum([k \in 1..1 |-> v[k]])
    <3>1. 1 \in 1..n
      BY <1>2
    <3> QED BY <1>5, <3>1, Zenon
  <2>4. n >= 2 => UpTo(W, 2) = Sum([k \in 1..2 |-> v[k]])
    <3>1. n >= 2 => 2 \in 1..n
      BY <1>2
    <3> QED BY <1>5, <3>1, Zenon
  <2>5. n >= 3 => UpTo(W, 3) = Sum([k \in 1..3 |-> v[k]])
    <3>1. n >= 3 => 3 \in 1..n
      BY <1>2
    <3> QED BY <1>5, <3>1, Zenon
  <2>6. n = 4 => UpTo(W, 4) = Sum([k \in 1..4 |-> v[k]])
    <3>1. n = 4 => 4 \in 1..n
      BY <1>2
    <3> QED BY <1>5, <3>1, Zenon
  <2> QED BY <2>2, <2>3, <2>4, <2>5, <2>6
<1>8. v[1] \in Nat /\ (n >= 2 => v[2] \in Nat) /\ (n >= 3 => v[3] \in Nat)
      /\ (n = 4 => v[4] \in Nat)
  BY <1>2, <1>4
<1>9. \A i \in 1..n : UpTo(W, i) \in Nat
  BY <1>2, <1>7, <1>8, SMTT(30)
<1>10. \A i \in 2..n : UpTo(W, i) = UpTo(W, i - 1) + v[i]
  BY <1>2, <1>7, <1>8, SMTT(30)
<1>11. \A i \in 2..n : UpTo(W, i) = UpTo(W, i - 1) + W[i].weight
  BY <1>2, <1>4, <1>10, SMTT(30)
<1>12. UpTo(W, 1) = W[1].weight
  BY <1>2, <1>4, <1>7
<1> QED BY <1>1, <1>2, <1>3, <1>6, <1>9, <1>11, <1>12 DEF n

(* A ticket between the sums before and after a slot chooses the slot. *)
LEMMA TicketOfSlot ==
  ASSUME NEW entry, entry.weighted \in Seq(Slot(Nat)), FibEntryOk(entry.weighted),
         NEW i \in 1..Len(entry.weighted), NEW ticket \in Nat,
         ticket < UpTo(entry.weighted, i),
         i > 1 => UpTo(entry.weighted, i - 1) <= ticket
  PROVE  /\ ticket \in 0..(WEIGHT_DENOMINATOR - 1)
         /\ fib_entry_select_nexthop(entry, ticket) = entry.weighted[i].nexthop
<1> DEFINE W == entry.weighted
           n == Len(W)
           a(k) == UpTo(W, k)
<1>1. /\ n \in 1..4 /\ DOMAIN W = 1..n
      /\ \A k \in 1..n : W[k].weight \in Nat
      /\ \A k \in 2..n : a(k) = a(k - 1) + W[k].weight
      /\ \A k \in 1..n : a(k) \in Nat
      /\ a(n) = WEIGHT_DENOMINATOR
  BY TicketBounds
<1> HIDE DEF a, n
<1>2. ASSUME NEW k \in 2..n PROVE a(k - 1) <= a(k)
  <2>1. k \in 1..n /\ k - 1 \in 1..n
    BY <1>1
  <2>2. a(k - 1) \in Nat /\ W[k].weight \in Nat /\ a(k) = a(k - 1) + W[k].weight
    BY <1>1, <2>1
  <2> QED BY <2>2
<1>3. \A j, k \in 1..n : j <= k => a(j) <= a(k)
  <2>1. n >= 2 => a(1) <= a(2)
    BY <1>1, <1>2
  <2>2. n >= 3 => a(2) <= a(3)
    BY <1>1, <1>2
  <2>3. n = 4 => a(3) <= a(4)
    BY <1>1, <1>2
  <2>4. a(1) \in Nat /\ (n >= 2 => a(2) \in Nat) /\ (n >= 3 => a(3) \in Nat)
        /\ (n = 4 => a(4) \in Nat)
    BY <1>1
  <2>5. SUFFICES ASSUME NEW j \in 1..n, NEW k \in 1..n, j <= k PROVE a(j) <= a(k)
    OBVIOUS
  <2>6. j \in {1, 2, 3, 4} /\ k \in {1, 2, 3, 4} /\ k <= n /\ n \in Nat /\ n <= 4
    BY <1>1
  <2>7. CASE j = k
    BY <1>1, <2>7
  <2>8. CASE j = 1 /\ k = 2
    BY <2>1, <2>6, <2>8
  <2>9. CASE j = 1 /\ k = 3
    BY <2>1, <2>2, <2>4, <2>6, <2>9
  <2>10. CASE j = 1 /\ k = 4
    BY <2>1, <2>2, <2>3, <2>4, <2>6, <2>10
  <2>11. CASE j = 2 /\ k = 3
    BY <2>2, <2>6, <2>11
  <2>12. CASE j = 2 /\ k = 4
    BY <2>2, <2>3, <2>4, <2>6, <2>12
  <2>13. CASE j = 3 /\ k = 4
    BY <1>1, <2>3, <2>6, <2>13
  <2> QED BY <2>5, <2>6, <2>7, <2>8, <2>9, <2>10, <2>11, <2>12, <2>13
<1>4. i \in 1..n /\ ticket < a(i) /\ (i > 1 => a(i - 1) <= ticket)
  BY DEF a, n
<1>5. ticket \in 0..(WEIGHT_DENOMINATOR - 1)
  <2>1. a(i) <= a(n) /\ a(i) \in Nat
    BY <1>1, <1>3, <1>4
  <2> QED BY <1>1, <1>4, <2>1, DescentAssumption
<1>6. PICK k \in DOMAIN W : /\ fib_entry_select_nexthop(entry, ticket) = W[k].nexthop
                            /\ ticket < a(k)
                            /\ \A j \in 1..(k - 1) : ~(ticket < a(j))
  BY <1>5, TicketFallsInSlot DEF a
<1>7. k \in 1..n
  BY <1>1
<1>8. ~(k < i)
  <2> SUFFICES ASSUME k < i PROVE FALSE
    OBVIOUS
  <2>1. i > 1 /\ i - 1 \in 1..n /\ k <= i - 1
    BY <1>1, <1>4, <1>7
  <2>2. a(k) <= a(i - 1) /\ a(k) \in Nat /\ a(i - 1) \in Nat
    BY <1>1, <1>3, <1>7, <2>1
  <2> QED BY <1>4, <1>6, <2>1, <2>2
<1>9. ~(i < k)
  <2> SUFFICES ASSUME i < k PROVE FALSE
    OBVIOUS
  <2>1. i \in 1..(k - 1)
    BY <1>1, <1>4, <1>7
  <2> QED BY <1>4, <1>6, <2>1
<1>10. i = k
  BY <1>1, <1>4, <1>7, <1>8, <1>9
<1> QED BY <1>5, <1>6, <1>10

(* How many numbers below a bound a function takes to nh. *)
Below(f, k, nh) == {t \in 0..(k - 1) : f[t] = nh}

(* What a slot of weight m with nexthop x gives nh, and what every slot of *)
(* a list does.                                                             *)
Share(x, m, nh) == IF x = nh THEN m ELSE 0
Shares(weighted, n, nh) == [i \in 1..n |-> Share(weighted[i].nexthop, weighted[i].weight, nh)]

(* A function takes every number of an interval to x. *)
TakenTo(f, a, b, x) == \A t \in a..(b - 1) : f[t] = x

LEMMA CountSlot ==
  ASSUME NEW f, NEW nh, NEW x, NEW a \in Nat, NEW b \in Nat, a <= b,
         TakenTo(f, a, b, x)
  PROVE  /\ Cardinality(Below(f, a, nh)) \in Nat
         /\ Cardinality(Below(f, b, nh))
              = Cardinality(Below(f, a, nh)) + Share(x, b - a, nh)
<1> DEFINE P == Below(f, a, nh)
           I == a..(b - 1)
<1>1. IsFiniteSet(P)
  <2>1. P \in SUBSET (0..(a - 1))
    BY DEF Below
  <2>2. IsFiniteSet(0..(a - 1))
    BY FS_Interval
  <2> QED BY <2>1, <2>2, FS_Subset
<1>2. Cardinality(P) \in Nat
  BY <1>1, FS_CardinalityType
<1>3. CASE x = nh
  <2>1. Below(f, b, nh) = P \cup I
    BY <1>3 DEF Below, TakenTo
  <2>2. P \cap I = {}
    BY DEF Below
  <2>3. IsFiniteSet(I) /\ Cardinality(I) = b - a
    <3>1. a \in Int /\ b - 1 \in Int
      OBVIOUS
    <3>2. IsFiniteSet(I) /\ Cardinality(I) = IF a > b - 1 THEN 0 ELSE (b - 1) - a + 1
      BY <3>1, FS_Interval
    <3> QED BY <3>2
  <2>4. Cardinality(P \cup I) = Cardinality(P) + Cardinality(I) - Cardinality(P \cap I)
    BY <1>1, <2>3, FS_Union
  <2>5. Cardinality(P \cap I) = 0
    BY <2>2, FS_EmptySet
  <2> HIDE DEF P, I
  <2> QED BY <1>2, <1>3, <2>1, <2>3, <2>4, <2>5 DEF P, Share
<1>4. CASE x # nh
  <2>1. Below(f, b, nh) = P
    BY <1>4 DEF Below, TakenTo
  <2> QED BY <1>2, <1>4, <2>1 DEF Share
<1> QED BY <1>3, <1>4

(* As many tickets choose a nexthop as its slots have weight. *)
LEMMA TicketsCounted ==
  ASSUME NEW entry, entry.weighted \in Seq(Slot(Nat)), FibEntryOk(entry.weighted),
         NEW f, \A t \in 0..(WEIGHT_DENOMINATOR - 1) : f[t] = fib_entry_select_nexthop(entry, t),
         NEW nh
  PROVE  Cardinality(Below(f, WEIGHT_DENOMINATOR, nh))
           = Sum(Shares(entry.weighted, Len(entry.weighted), nh))
<1> DEFINE W == entry.weighted
           n == Len(W)
           a(k) == UpTo(W, k)
           g == Shares(W, n, nh)
           C(k) == Cardinality(Below(f, k, nh))
<1>1. /\ n \in 1..4 /\ DOMAIN W = 1..n
      /\ \A k \in 1..n : W[k].weight \in Nat
      /\ a(1) = W[1].weight
      /\ \A k \in 2..n : a(k) = a(k - 1) + W[k].weight
      /\ \A k \in 1..n : a(k) \in Nat
      /\ a(n) = WEIGHT_DENOMINATOR
  BY TicketBounds
<1>2. ASSUME NEW i \in 1..n, NEW t \in Nat, t < a(i), i > 1 => a(i - 1) <= t
      PROVE  f[t] = W[i].nexthop
  BY <1>2, TicketOfSlot
<1>3. DOMAIN g = 1..n /\ \A i \in 1..n : g[i] = Share(W[i].nexthop, W[i].weight, nh)
  BY DEF Shares
<1> HIDE DEF a, n, g, W, C
<1>4. ASSUME NEW i \in 1..n PROVE g[i] \in Nat
  <2>1. W[i].weight \in Nat /\ g[i] = Share(W[i].nexthop, W[i].weight, nh)
    BY <1>1, <1>3
  <2> QED BY <2>1 DEF Share
<1>5. C(0) = 0
  <2>1. Below(f, 0, nh) = {}
    BY DEF Below
  <2> QED BY <2>1, FS_EmptySet DEF C
<1>6. C(a(1)) = g[1]
  <2>1. 1 \in 1..n /\ a(1) \in Nat
    BY <1>1
  <2>2. \A t \in 0..(a(1) - 1) : f[t] = W[1].nexthop
    <3> SUFFICES ASSUME NEW t \in 0..(a(1) - 1) PROVE f[t] = W[1].nexthop
      OBVIOUS
    <3>1. t \in Nat /\ t < a(1)
      BY <2>1
    <3> QED BY <1>2, <2>1, <3>1
  <2> DEFINE x == W[1].nexthop
             b == a(1)
  <2>3. b \in Nat /\ b = W[1].weight /\ g[1] = Share(x, W[1].weight, nh)
    BY <1>1, <1>3, <2>1
  <2>4. 0 \in Nat /\ 0 <= b /\ TakenTo(f, 0, b, x)
    BY <2>2, <2>3 DEF TakenTo
  <2> HIDE DEF x, b
  <2>5. Cardinality(Below(f, b, nh))
          = Cardinality(Below(f, 0, nh)) + Share(x, b - 0, nh)
    BY <2>3, <2>4, CountSlot
  <2>6. b - 0 = W[1].weight /\ g[1] \in Nat
    BY <1>4, <2>1, <2>3
  <2>7. C(b) = C(0) + g[1]
    BY <2>3, <2>5, <2>6 DEF C
  <2>8. C(b) = g[1]
    BY <1>5, <2>6, <2>7
  <2> QED BY <2>8 DEF b
<1>7. ASSUME NEW i \in 2..n PROVE C(a(i - 1)) \in Nat /\ C(a(i)) = C(a(i - 1)) + g[i]
  <2>1. i \in 1..n /\ i - 1 \in 1..n /\ i > 1 /\ a(i) \in Nat /\ a(i - 1) \in Nat
    BY <1>1
  <2> DEFINE x == W[i].nexthop
             b == a(i)
             c == a(i - 1)
  <2>2. /\ b \in Nat /\ c \in Nat /\ b = c + W[i].weight /\ W[i].weight \in Nat
        /\ g[i] = Share(x, W[i].weight, nh)
    BY <1>1, <1>3, <2>1
  <2>3. TakenTo(f, c, b, x)
    <3> SUFFICES ASSUME NEW t \in c..(b - 1) PROVE f[t] = W[i].nexthop
      BY DEF TakenTo
    <3>1. t \in Nat /\ t < a(i) /\ a(i - 1) <= t
      BY <2>1
    <3> QED BY <1>2, <2>1, <3>1
  <2> HIDE DEF x, b, c
  <2>4. c <= b
    BY <2>2
  <2>5. /\ Cardinality(Below(f, c, nh)) \in Nat
        /\ Cardinality(Below(f, b, nh))
             = Cardinality(Below(f, c, nh)) + Share(x, b - c, nh)
    <3>1. b \in Nat /\ c \in Nat
      BY <2>2
    <3> QED BY <2>3, <2>4, <3>1, CountSlot, SMTT(30)
  <2>6. b - c = W[i].weight
    BY <2>2
  <2>7. C(c) \in Nat /\ C(b) = C(c) + g[i]
    BY <2>2, <2>5, <2>6 DEF C
  <2> QED BY <2>7 DEF b, c
<1>8. Sum([i \in 1..n |-> g[i]]) = Sum(g)
  <2>1. [i \in 1..n |-> g[i]] = g
    <3>1. g = [i \in 1..n |-> Share(W[i].nexthop, W[i].weight, nh)]
      BY DEF g, Shares
    <3> QED BY <1>3, <3>1
  <2> QED BY <2>1
<1>9. \A i \in 1..n : g[i] \in Int
  BY <1>4
<1>10. /\ Sum([i \in 1..1 |-> g[i]]) = g[1]
       /\ n >= 2 => Sum([i \in 1..2 |-> g[i]]) = g[1] + g[2]
       /\ n >= 3 => Sum([i \in 1..3 |-> g[i]]) = g[1] + g[2] + g[3]
       /\ n = 4 => Sum([i \in 1..4 |-> g[i]]) = g[1] + g[2] + g[3] + g[4]
  BY <1>1, <1>3, <1>9, PrefixSums
<1>11. 1 \in 1..n /\ n \in Nat
  BY <1>1
<1>12. n >= 2 => C(a(2)) = C(a(1)) + g[2]
  BY <1>7, <1>11
<1>13. n >= 3 => C(a(3)) = C(a(2)) + g[3]
  BY <1>7, <1>11
<1>14. n >= 4 => C(a(4)) = C(a(3)) + g[4]
  BY <1>7, <1>11
<1>15. C(a(n)) = Sum(g)
  <2>1. CASE n = 1
    BY <1>6, <1>8, <1>10, <2>1
  <2>2. CASE n = 2
    BY <1>6, <1>8, <1>10, <1>12, <2>2
  <2>3. CASE n = 3
    BY <1>6, <1>8, <1>10, <1>12, <1>13, <2>3
  <2>4. CASE n = 4
    BY <1>6, <1>8, <1>10, <1>12, <1>13, <1>14, <2>4
  <2> QED BY <1>1, <2>1, <2>2, <2>3, <2>4
<1> QED BY <1>1, <1>15 DEF C, g, W, n

(* Sorting the slots changes no share. *)
LEMMA TicketShare ==
  ASSUME NEW n \in 1..MAX_NEXTHOPS,
         NEW w \in [1..n -> [nexthop : 1..MAX_NEXTHOPS, weight : 1..WEIGHT_DENOMINATOR]],
         FibEntryOk(w), NEW nh, NEW entry, entry.weighted = FibEntry(w),
         NEW f, \A t \in 0..(WEIGHT_DENOMINATOR - 1) : f[t] = fib_entry_select_nexthop(entry, t)
  PROVE  Cardinality(Below(f, WEIGHT_DENOMINATOR, nh)) = Sum(Shares(w, n, nh))
<1> DEFINE W == entry.weighted
           h == Shares(w, n, nh)
           g == Shares(W, n, nh)
<1>0. n \in 1..4
  BY DescentAssumption
<1>1. \A i \in 1..n : w[i] \in Slot(Nat)
  <2> SUFFICES ASSUME NEW i \in 1..n PROVE w[i] \in Slot(Nat)
    OBVIOUS
  <2>1. w[i] \in [nexthop : 1..MAX_NEXTHOPS, weight : 1..WEIGHT_DENOMINATOR]
    OBVIOUS
  <2>2. 1..MAX_NEXTHOPS \subseteq Nat /\ 1..WEIGHT_DENOMINATOR \subseteq Nat
    OBVIOUS
  <2> QED BY <2>1, <2>2 DEF Slot
<1>2. w \in Seq(Slot(Nat)) /\ DOMAIN w = 1..n
  BY <1>0, <1>1
<1>3. W = FibEntry(w) /\ FibEntry(w) \in Seq(Slot(Nat)) /\ FibEntryOk(FibEntry(w))
  <2>1. \A x \in Nat : x \in Int
    OBVIOUS
  <2> QED BY <1>2, <2>1, FibEntryAccepted
<1>4. \A i \in 1..n : w[i].nexthop \in Int /\ w[i].weight \in Nat
  BY <1>1 DEF Slot
<1>5. PICK p \in [1..n -> 1..n] : IsInjective(p) /\ FibEntry(w) = [k \in 1..n |-> w[p[k]]]
  <2>1. n \in Nat /\ \A i \in 1..n : w[i].nexthop \in Int
    BY <1>0, <1>4
  <2> QED BY <1>2, <2>1, FibEntrySorted, Zenon
<1>6. Len(W) = n /\ \A i \in 1..n : W[i] = w[p[i]]
  BY <1>0, <1>3, <1>5
<1>9. Cardinality(Below(f, WEIGHT_DENOMINATOR, nh)) = Sum(g)
  <2>1. W \in Seq(Slot(Nat)) /\ FibEntryOk(W)
    BY <1>3
  <2>2. Cardinality(Below(f, WEIGHT_DENOMINATOR, nh)) = Sum(Shares(W, Len(W), nh))
    BY <2>1, TicketsCounted
  <2> QED BY <1>6, <2>2
<1>10. g = [k \in 1..n |-> h[p[k]]]
  BY <1>6 DEF Shares
<1>11. DOMAIN h = 1..n /\ \A i \in 1..n : h[i] \in Int
  BY <1>4 DEF Shares, Share
<1> HIDE DEF h, g
<1>12. Sum([k \in 1..n |-> h[p[k]]]) = Sum(h)
  BY <1>0, <1>5, <1>11, SumPermuted
<1> QED BY <1>9, <1>10, <1>12 DEF h

(* fib_entry_select_nexthop is fair: over the tickets that                  *)
(* bpf_get_prandom_u32 can draw, every nexthop of an entry is chosen as     *)
(* often as the weights FibEntry::new was given say, and none is refused.   *)
THEOREM TicketsAreFair == Spec => []TicketsFollowWeights
<1>1. TicketsFollowWeights
  <2> SUFFICES ASSUME
        NEW n \in 1..MAX_NEXTHOPS,
        NEW w \in [1..n -> [nexthop : 1..MAX_NEXTHOPS, weight : 1..WEIGHT_DENOMINATOR]],
        FibEntryOk(w), NEW nh \in NexthopsOf(w)
      PROVE
        LET choice == [t \in 0..(WEIGHT_DENOMINATOR - 1) |->
                         fib_entry_select_nexthop([weighted |-> FibEntry(w)], t)]
        IN  Cardinality({t \in DOMAIN choice : choice[t] = nh})
              = Sum([i \in 1..n |-> IF w[i].nexthop = nh THEN w[i].weight ELSE 0])
    BY Zenon DEF TicketsFollowWeights
  <2> DEFINE entry == [weighted |-> FibEntry(w)]
             choice == [t \in 0..(WEIGHT_DENOMINATOR - 1) |-> fib_entry_select_nexthop(entry, t)]
             of == {t \in DOMAIN choice : choice[t] = nh}
             shares == [i \in 1..n |-> IF w[i].nexthop = nh THEN w[i].weight ELSE 0]
  <2>1. entry.weighted = FibEntry(w)
        /\ \A t \in 0..(WEIGHT_DENOMINATOR - 1) : choice[t] = fib_entry_select_nexthop(entry, t)
    OBVIOUS
  <2>2. of = Below(choice, WEIGHT_DENOMINATOR, nh)
    BY DEF Below
  <2>3. shares = Shares(w, n, nh)
    BY DEF Shares, Share
  <2>4. Cardinality(of) = Sum(shares)
    <3> HIDE DEF entry, choice, of, shares
    <3> QED BY <2>1, <2>2, <2>3, TicketShare
  <2> QED BY <2>4
<1> QED BY <1>1, PTL

---------------------------------------------------------------------------
(* Induction up to n, over a set of the numbers that have a property. *)
LEMMA InductUpTo ==
  ASSUME NEW n \in Nat, NEW G, 0 \in G, \A i \in 1..n : i - 1 \in G => i \in G
  PROVE  \A i \in 0..n : i \in G
<1> DEFINE T == {i \in 0..n : i \notin G}
           Less == {ss \in Nat \X Nat : ss[1] < ss[2]}
<1> SUFFICES ASSUME T # {} PROVE FALSE
  OBVIOUS
<1>1. T \subseteq Nat
  OBVIOUS
<1>2. IsWellFoundedOn(Less, Nat)
  BY NatLessThanWellFounded DEF OpToRel
<1>3. \A y \in T : y \in 0..n /\ y \notin G
  OBVIOUS
<1>4. \A i \in 0..n : i \notin G => i \in T
  OBVIOUS
<1> HIDE DEF T, Less
<1>5. PICK x \in T : \A y \in T : ~(<<y, x>> \in Less)
  BY <1>1, <1>2, WFMin
<1>6. x \in 1..n
  BY <1>3
<1>7. x - 1 \notin G
  BY <1>3, <1>6
<1>8. x - 1 \in T
  BY <1>4, <1>6, <1>7
<1>9. <<x - 1, x>> \in Less
  <2>1. x \in Nat /\ x - 1 \in Nat /\ x - 1 < x
    BY <1>6
  <2>2. <<x - 1, x>> \in Nat \X Nat /\ <<x - 1, x>>[1] < <<x - 1, x>>[2]
    BY <2>1
  <2> QED BY <2>2 DEF Less
<1> QED BY <1>5, <1>8, <1>9

---------------------------------------------------------------------------
(* Powers of two, and division by them. *)

(* The equation of Pow2, up to n. *)
Doubles(f, n) ==
  /\ DOMAIN f = 0..n
  /\ f[0] = 1
  /\ \A i \in 1..n : f[i] = 2 * f[i - 1]

LEMMA DoublesExists ==
  ASSUME NEW n \in Nat
  PROVE  \E f : Doubles(f, n)
<1> DEFINE G == {m \in Nat : \E f : Doubles(f, m)}
<1>1. 0 \in G
  <2> DEFINE f == [i \in 0..0 |-> 1]
  <2>1. Doubles(f, 0)
    BY DEF Doubles
  <2> QED BY <2>1
<1>2. ASSUME NEW i \in 1..n, i - 1 \in G PROVE i \in G
  <2>1. PICK f : Doubles(f, i - 1)
    BY <1>2
  <2> DEFINE g == [j \in 0..i |-> IF j = i THEN 2 * f[i - 1] ELSE f[j]]
  <2>2. DOMAIN f = 0..(i - 1) /\ f[0] = 1 /\ \A j \in 1..(i - 1) : f[j] = 2 * f[j - 1]
    BY <2>1 DEF Doubles
  <2>3. DOMAIN g = 0..i /\ g[i] = 2 * f[i - 1] /\ \A j \in 0..(i - 1) : g[j] = f[j]
    OBVIOUS
  <2> HIDE DEF g
  <2>4. g[0] = 1
    BY <2>2, <2>3
  <2>5. ASSUME NEW j \in 1..i PROVE g[j] = 2 * g[j - 1]
    <3>1. CASE j = i
      <4>1. g[i - 1] = f[i - 1]
        BY <2>3
      <4> QED BY <2>3, <3>1, <4>1
    <3>2. CASE j # i
      <4>1. j \in 1..(i - 1) /\ j \in 0..(i - 1) /\ j - 1 \in 0..(i - 1)
        BY <3>2
      <4>2. g[j] = f[j] /\ g[j - 1] = f[j - 1]
        BY <2>3, <4>1
      <4>3. f[j] = 2 * f[j - 1]
        BY <2>2, <4>1
      <4> QED BY <4>2, <4>3
    <3> QED BY <3>1, <3>2
  <2>6. Doubles(g, i)
    BY <2>3, <2>4, <2>5 DEF Doubles
  <2> QED BY <2>6
<1> HIDE DEF G
<1>3. \A i \in 0..n : i \in G
  BY <1>1, <1>2, InductUpTo
<1>4. n \in G
  BY <1>3
<1> QED BY <1>4 DEF G

LEMMA Pow2Doubles == Doubles(Pow2, AddrBits)
<1> DEFINE n == AddrBits
           body(f) == [k \in 0..n |-> IF k = 0 THEN 1 ELSE 2 * f[k - 1]]
           F == CHOOSE f : f = body(f)
<1>0. n \in Nat
  BY AbiAssumption
<1>1. PICK f : Doubles(f, n)
  BY <1>0, DoublesExists
<1>2. \E g : g = body(g)
  <2> DEFINE g == [i \in 0..n |-> f[i]]
  <2>0. DOMAIN g = 0..n /\ \A i \in 0..n : g[i] = f[i]
    OBVIOUS
  <2>1. ASSUME NEW i \in 0..n
        PROVE  g[i] = IF i = 0 THEN 1 ELSE 2 * g[i - 1]
    <3>1. CASE i = 0
      BY <1>1, <2>0, <3>1 DEF Doubles
    <3>2. CASE i # 0
      <4>1. i \in 1..n /\ i - 1 \in 0..n
        BY <1>0, <3>2
      <4>2. g[i] = f[i] /\ g[i - 1] = f[i - 1]
        BY <2>0, <4>1
      <4>3. f[i] = 2 * f[i - 1]
        BY <1>1, <4>1 DEF Doubles
      <4> QED BY <3>2, <4>2, <4>3
    <3> QED BY <3>1, <3>2
  <2>2. g = body(g)
    <3>1. body(g) = [i \in 0..n |-> g[i]]
      BY <2>1
    <3> QED BY <3>1
  <2> QED BY <2>2
<1>3. F = body(F)
  <2> HIDE DEF body
  <2> QED BY <1>2
<1>4. Pow2 = F
  BY DEF Pow2
<1> HIDE DEF F
<1>5. Doubles(F, n)
  <2> DEFINE b == body(F)
  <2>1. DOMAIN b = 0..n /\ b[0] = 1 /\ \A i \in 1..n : b[i] = 2 * F[i - 1]
    BY <1>0
  <2>2. F = b
    BY <1>3
  <2> HIDE DEF b
  <2> QED BY <2>1, <2>2 DEF Doubles
<1> QED BY <1>4, <1>5

LEMMA Pow2Type ==
  ASSUME NEW k \in 0..AddrBits PROVE Pow2[k] \in Nat \ {0}
<1> DEFINE G == {i \in Nat : i <= AddrBits => Pow2[i] \in Nat \ {0}}
<1>0. AddrBits \in Nat
  BY AbiAssumption
<1>1. 0 \in G
  BY Pow2Doubles DEF Doubles
<1>2. ASSUME NEW i \in 1..AddrBits, i - 1 \in G PROVE i \in G
  <2>1. Pow2[i - 1] \in Nat \ {0} /\ Pow2[i] = 2 * Pow2[i - 1]
    BY <1>0, <1>2, Pow2Doubles DEF Doubles
  <2>2. Pow2[i] \in Nat \ {0}
    BY <2>1
  <2> QED BY <2>2
<1> HIDE DEF G
<1>3. k \in G
  BY <1>0, <1>1, <1>2, InductUpTo
<1> QED BY <1>0, <1>3 DEF G

LEMMA Pow2Splits ==
  ASSUME NEW i \in Nat, NEW k \in Nat, i + k <= AddrBits
  PROVE  Pow2[i + k] = Pow2[i] * Pow2[k]
<1> DEFINE G == {j \in Nat : i + j <= AddrBits => Pow2[i + j] = Pow2[i] * Pow2[j]}
<1>0. AddrBits \in Nat /\ Pow2[i] \in Nat
  BY AbiAssumption, Pow2Type
<1>1. 0 \in G
  <2>1. Pow2[0] = 1 /\ i + 0 = i
    BY Pow2Doubles DEF Doubles
  <2>2. Pow2[i] * 1 = Pow2[i]
    BY <1>0
  <2> QED BY <2>1, <2>2
<1>2. ASSUME NEW j \in 1..k, j - 1 \in G PROVE j \in G
  <2>1. i + j \in 1..AddrBits /\ j \in 1..AddrBits /\ i + j - 1 = i + (j - 1)
        /\ i + (j - 1) <= AddrBits /\ j - 1 \in 0..AddrBits /\ j - 1 \in Nat /\ j \in Nat
    BY <1>0
  <2>2. Pow2[i + j] = 2 * Pow2[i + (j - 1)] /\ Pow2[j] = 2 * Pow2[j - 1]
    BY <2>1, Pow2Doubles DEF Doubles
  <2>3. Pow2[i + (j - 1)] = Pow2[i] * Pow2[j - 1]
    BY <1>2, <2>1
  <2> DEFINE a == Pow2[i]
             b == Pow2[j - 1]
  <2>4. a \in Nat /\ b \in Nat
    BY <1>0, <2>1, Pow2Type
  <2>5. Pow2[i + j] = 2 * (a * b) /\ Pow2[j] = 2 * b
    BY <2>2, <2>3
  <2> HIDE DEF a, b
  <2>6. 2 * (a * b) = a * (2 * b)
    BY <2>4
  <2>7. Pow2[i + j] = a * Pow2[j]
    BY <2>5, <2>6
  <2> QED BY <2>1, <2>7 DEF a
<1> HIDE DEF G
<1>3. k \in G
  BY <1>1, <1>2, InductUpTo
<1> QED BY <1>3 DEF G

(* Quotient and remainder are unique. *)
LEMMA DivIsUnique ==
  ASSUME NEW m \in Nat \ {0}, NEW q \in Nat, NEW r \in Nat, r < m
  PROVE  (m * q + r) \div m = q /\ (m * q + r) % m = r
<1> DEFINE x == m * q + r
           p == x \div m
           s == x % m
<1>1. x \in Nat
  OBVIOUS
<1>2. x = m * q + r
  OBVIOUS
<1> HIDE DEF x
<1>3. p \in Int /\ s \in Int /\ x = m * p + s /\ 0 <= s /\ s < m
  BY <1>1
<1> HIDE DEF p, s
<1>4. ~(p < q)
  <2> SUFFICES ASSUME p + 1 <= q PROVE FALSE
    BY <1>3
  <2>1. m * (p + 1) <= m * q
    BY <1>3
  <2>2. m * (p + 1) = m * p + m
    BY <1>3
  <2> DEFINE mp == m * p
             mq == m * q
  <2>3. mp \in Int /\ mq \in Int /\ mp + m <= mq /\ x = mp + s /\ x = mq + r
    BY <1>2, <1>3, <2>1, <2>2
  <2> HIDE DEF mp, mq
  <2> QED BY <1>3, <2>3
<1>5. ~(q < p)
  <2> SUFFICES ASSUME q + 1 <= p PROVE FALSE
    BY <1>3
  <2>1. m * (q + 1) <= m * p
    BY <1>3
  <2>2. m * (q + 1) = m * q + m
    OBVIOUS
  <2> DEFINE mp == m * p
             mq == m * q
  <2>3. mp \in Int /\ mq \in Int /\ mq + m <= mp /\ x = mp + s /\ x = mq + r
    BY <1>2, <1>3, <2>1, <2>2
  <2> HIDE DEF mp, mq
  <2> QED BY <1>3, <2>3
<1>6. p = q
  BY <1>3, <1>4, <1>5
<1>7. s = r
  <2> DEFINE mq == m * q
  <2>1. mq \in Int /\ x = mq + r /\ x = mq + s
    BY <1>2, <1>3, <1>6
  <2> HIDE DEF mq
  <2> QED BY <1>3, <2>1
<1> QED BY <1>6, <1>7 DEF p, s, x

(* A quotient by a product is a quotient of a quotient. *)
LEMMA DivTwice ==
  ASSUME NEW c \in Nat \ {0}, NEW d \in Nat \ {0}, NEW x \in Nat
  PROVE  x \div (c * d) = (x \div c) \div d
<1> DEFINE q == x \div c
           r == x % c
<1>1. q \in Nat /\ r \in Nat /\ r < c /\ x = c * q + r
  OBVIOUS
<1> HIDE DEF q, r
<1> DEFINE Q == q \div d
           R == q % d
<1>2. Q \in Nat /\ R \in Nat /\ R < d /\ q = d * Q + R
  BY <1>1
<1> HIDE DEF Q, R
<1> DEFINE m == c * d
           s == c * R + r
<1>3. m \in Nat \ {0} /\ s \in Nat
  BY <1>1, <1>2
<1>4. s < m
  <2>1. R + 1 <= d /\ c \in Nat
    BY <1>2
  <2>2. c * (R + 1) <= c * d
    BY <1>2, <2>1
  <2>3. c * (R + 1) = c * R + c
    BY <1>2
  <2> DEFINE t == c * R
  <2>4. t \in Int /\ t + c <= m
    BY <1>2, <2>2, <2>3
  <2>5. s = t + r
    OBVIOUS
  <2> HIDE DEF t, m, s
  <2> QED BY <1>1, <1>3, <2>4, <2>5
<1>5. x = m * Q + s
  <2>1. c * q = c * (d * Q + R)
    BY <1>2
  <2>2. c * (d * Q + R) = c * (d * Q) + c * R
    BY <1>2
  <2>3. c * (d * Q) = (c * d) * Q
    BY <1>2
  <2>4. x = ((c * d) * Q + c * R) + r
    BY <1>1, <2>1, <2>2, <2>3
  <2> DEFINE u == (c * d) * Q
             t == c * R
  <2>5. u \in Int /\ t \in Int
    BY <1>2
  <2>6. x = (u + t) + r
    BY <2>4
  <2> HIDE DEF u, t
  <2>7. x = u + (t + r)
    BY <1>1, <2>5, <2>6
  <2> QED BY <2>7 DEF u, t
<1> HIDE DEF m, s
<1>6. x \div m = Q
  BY <1>2, <1>3, <1>4, <1>5, DivIsUnique
<1> QED BY <1>6 DEF m, Q, q

(* Addresses that agree in their first bits agree in fewer of them. *)
LEMMA ShorterAgrees ==
  ASSUME NEW x \in Nat, NEW y \in Nat, NEW i \in Nat, NEW k \in Nat, i <= k, k <= AddrBits,
         x \div Pow2[i] = y \div Pow2[i]
  PROVE  x \div Pow2[k] = y \div Pow2[k]
<1>1. k - i \in Nat /\ i + (k - i) = k /\ i \in 0..AddrBits /\ k - i \in 0..AddrBits
  BY AbiAssumption
<1> DEFINE c == Pow2[i]
           d == Pow2[k - i]
<1>2. c \in Nat \ {0} /\ d \in Nat \ {0}
  BY <1>1, Pow2Type
<1>3. Pow2[k] = c * d
  BY <1>1, Pow2Splits
<1>4. x \div c = y \div c
  OBVIOUS
<1> HIDE DEF c, d
<1>5. x \div (c * d) = (x \div c) \div d /\ y \div (c * d) = (y \div c) \div d
  BY <1>2, DivTwice
<1> QED BY <1>3, <1>4, <1>5

(* Zeros at the end of an address are zeros of what is in front of fewer. *)
LEMMA QuotientIsEven ==
  ASSUME NEW x \in Nat, NEW i \in Nat, NEW k \in Nat, i < k, k <= AddrBits,
         x % Pow2[k] = 0
  PROVE  (x \div Pow2[i]) % 2 = 0
<1>1. /\ k - i - 1 \in Nat /\ i + (k - i) = k /\ i \in 0..AddrBits /\ k \in 0..AddrBits
      /\ k - i \in 1..AddrBits /\ k - i \in Nat /\ (k - i) - 1 \in 0..AddrBits
  BY AbiAssumption
<1> DEFINE c == Pow2[i]
           d == Pow2[(k - i) - 1]
           m == Pow2[k]
           q == x \div m
<1>2. c \in Nat \ {0} /\ d \in Nat \ {0} /\ m \in Nat \ {0}
  BY <1>1, Pow2Type
<1>3. m = c * (2 * d)
  <2>1. Pow2[k - i] = 2 * d
    BY <1>1, Pow2Doubles DEF Doubles
  <2>2. Pow2[k] = c * Pow2[k - i]
    BY <1>1, Pow2Splits
  <2> QED BY <2>1, <2>2
<1>4. x % m = 0
  OBVIOUS
<1> HIDE DEF c, d, m
<1>5. q \in Nat /\ x = m * q
  <2>1. x = m * (x \div m) + (x % m)
    BY <1>2
  <2> QED BY <1>2, <1>4, <2>1
<1> HIDE DEF q
<1> DEFINE h == d * q
<1>6. h \in Nat /\ m * q = c * (2 * h) + 0
  <2>1. h \in Nat
    BY <1>2, <1>5
  <2>2. (c * (2 * d)) * q = c * (2 * (d * q))
    <3>1. (c * (2 * d)) * q = c * ((2 * d) * q)
      <4> DEFINE e == 2 * d
      <4>1. e \in Nat
        BY <1>2
      <4> HIDE DEF e
      <4>2. (c * e) * q = c * (e * q)
        BY <1>2, <1>5, <4>1
      <4> QED BY <4>2 DEF e
    <3>2. (2 * d) * q = 2 * (d * q)
      BY <1>2, <1>5
    <3> QED BY <3>1, <3>2
  <2>3. m * q = c * (2 * h)
    BY <1>3, <2>2
  <2>4. c * (2 * h) \in Nat
    <3> HIDE DEF h
    <3> QED BY <1>2, <2>1
  <2> QED BY <2>1, <2>3, <2>4
<1> HIDE DEF h
<1>7. x \div c = 2 * h
  <2>1. 2 * h \in Nat /\ 0 < c /\ x = c * (2 * h) + 0
    BY <1>2, <1>5, <1>6
  <2> QED BY <1>2, <2>1, DivIsUnique
<1>8. (2 * h) % 2 = 0
  BY <1>6
<1> QED BY <1>7, <1>8 DEF c

---------------------------------------------------------------------------
(* The trie that both families share. *)

(* What a prefix is made of. *)
LEMMA PrefixParts ==
  ASSUME NEW net \in IpNets
  PROVE  /\ net.addr.family \in {4, 6} /\ net.addr.bits \in Nat
         /\ net.addr.family = 4 => /\ net.addr.bits < Pow2[V4Bits]
                                   /\ net.prefix_len \in 0..V4Bits
         /\ net.addr.family = 6 => net.prefix_len \in 0..AddrBits
         /\ net = [addr |-> [family |-> net.addr.family, bits |-> net.addr.bits],
                   prefix_len |-> net.prefix_len]
<1>0. AddrBits \in Nat /\ V4Bits \in 0..AddrBits
  BY AbiAssumption
<1>1. Pow2[V4Bits] \in Nat /\ Pow2[AddrBits] \in Nat
  BY <1>0, Pow2Type
<1>2. CASE \E a \in V4Addrs, l \in 0..V4Bits : net = [addr |-> a, prefix_len |-> l]
  <2>1. PICK a \in V4Addrs, l \in 0..V4Bits : net = [addr |-> a, prefix_len |-> l]
    BY <1>2
  <2>2. a.family = 4 /\ a.bits \in 0..(Pow2[V4Bits] - 1)
        /\ a = [family |-> a.family, bits |-> a.bits]
    BY DEF V4Addrs
  <2>3. a.bits \in Nat /\ a.bits < Pow2[V4Bits]
    BY <1>1, <2>2
  <2> QED BY <2>1, <2>2, <2>3
<1>3. CASE \E a \in V6Addrs, l \in 0..AddrBits : net = [addr |-> a, prefix_len |-> l]
  <2>1. PICK a \in V6Addrs, l \in 0..AddrBits : net = [addr |-> a, prefix_len |-> l]
    BY <1>3
  <2>2. a.family = 6 /\ a.bits \in 0..(Pow2[AddrBits] - 1)
        /\ a = [family |-> a.family, bits |-> a.bits]
    BY DEF V6Addrs
  <2>3. a.bits \in Nat
    BY <1>1, <2>2
  <2> QED BY <2>1, <2>2, <2>3
<1> QED BY <1>2, <1>3 DEF IpNets

(* A mapped address in its two parts. *)
LEMMA MappedParts ==
  ASSUME NEW bits \in Nat, bits < Pow2[V4Bits]
  PROVE  LET x == MappedPrefix * Pow2[V4Bits] + bits
         IN  x \in Nat /\ x \div Pow2[V4Bits] = MappedPrefix /\ x % Pow2[V4Bits] = bits
<1> DEFINE p == Pow2[V4Bits]
           M == MappedPrefix
<1>1. p \in Nat \ {0}
  BY AbiAssumption, Pow2Type
<1>2. M \in Nat
  <2>1. MappedBits \in 0..AddrBits
    BY AbiAssumption DEF MappedBits
  <2>2. Pow2[MappedBits] \in Nat
    BY <2>1, Pow2Type
  <2> QED BY <2>2, AbiAssumption
<1>3. bits < p
  OBVIOUS
<1> HIDE DEF p, M
<1>4. M * p = p * M /\ p * M + bits \in Nat
  BY <1>1, <1>2
<1>5. (p * M + bits) \div p = M /\ (p * M + bits) % p = bits
  BY <1>1, <1>2, <1>3, DivIsUnique
<1>6. M * p + bits \in Nat /\ (M * p + bits) \div p = M /\ (M * p + bits) % p = bits
  BY <1>4, <1>5
<1> QED BY <1>6 DEF p, M

(* CNlri::from and IpNet::try_from are inverse. *)
LEMMA RoundTrip ==
  ASSUME NEW net \in Prefixes
  PROVE  /\ IpNet(CNlri(net)) = net
         /\ CNlri(net).prefix_len \in 0..AddrBits /\ CNlri(net).address \in Nat
         /\ net.addr.family = 6 => ~ to_ipv4_mapped(CNlri(net).address)
         /\ net.addr.family = 4 => to_ipv4_mapped(CNlri(net).address)
<1>0. net \in IpNets /\ Canonical(net)
      /\ (net.addr.family = 6 => ~(to_ipv4_mapped(net.addr.bits) /\ net.prefix_len >= MappedBits))
  BY DEF Prefixes
<1> DEFINE f == net.addr.family
           b == net.addr.bits
           l == net.prefix_len
           k == CNlri(net)
<1>1. /\ f \in {4, 6} /\ b \in Nat
      /\ f = 4 => b < Pow2[V4Bits] /\ l \in 0..V4Bits
      /\ f = 6 => l \in 0..AddrBits
      /\ net = [addr |-> [family |-> f, bits |-> b], prefix_len |-> l]
  BY <1>0, PrefixParts
<1>2. AddrBits \in Nat /\ V4Bits \in Nat /\ V4Bits < AddrBits /\ MappedBits = AddrBits - V4Bits
  BY AbiAssumption DEF MappedBits
<1>3. CASE f = 4
  <2>1. k.prefix_len = l + MappedBits /\ k.address = MappedPrefix * Pow2[V4Bits] + b
    BY <1>3 DEF CNlri, CIpv6Addr
  <2>2. /\ k.address \in Nat /\ to_ipv4_mapped(k.address)
        /\ k.address % Pow2[V4Bits] = b
    BY <1>1, <1>3, <2>1, MappedParts DEF to_ipv4_mapped
  <2>3. IpNet(k) = [addr |-> [family |-> 4, bits |-> b], prefix_len |-> k.prefix_len - MappedBits]
    BY <2>2 DEF IpNet, IpAddr
  <2>4. k.prefix_len - MappedBits = l /\ k.prefix_len \in 0..AddrBits
    BY <1>1, <1>2, <1>3, <2>1
  <2>5. IpNet(k) = net
    BY <1>1, <1>3, <2>3, <2>4
  <2> QED BY <1>3, <2>2, <2>4, <2>5
<1>4. CASE f = 6
  <2>1. k.prefix_len = l /\ k.address = b
    <3>1. l + 0 = l
      BY <1>1, <1>2, <1>4
    <3> QED BY <1>4, <3>1 DEF CNlri, CIpv6Addr
  <2>2. ~ to_ipv4_mapped(b)
    <3> SUFFICES ASSUME to_ipv4_mapped(b) PROVE FALSE
      OBVIOUS
    <3>1. l < MappedBits
      BY <1>0, <1>1, <1>2, <1>4
    <3>2. b % Pow2[AddrBits - l] = 0
      BY <1>0, <1>4 DEF Canonical, Width
    <3>3. AddrBits - l \in Nat /\ V4Bits < AddrBits - l /\ AddrBits - l <= AddrBits
      BY <1>1, <1>2, <1>4, <3>1
    <3>4. (b \div Pow2[V4Bits]) % 2 = 0
      BY <1>1, <1>2, <3>2, <3>3, QuotientIsEven
    <3> QED BY <3>4, AbiAssumption DEF to_ipv4_mapped
  <2>3. IpNet(k) = [addr |-> [family |-> 6, bits |-> b], prefix_len |-> l]
    BY <2>1, <2>2 DEF IpNet, IpAddr
  <2> QED BY <1>1, <1>4, <2>1, <2>2, <2>3
<1> QED BY <1>1, <1>3, <1>4

(* A key of at least the mapping prefix's length has the family of what it  *)
(* covers.                                                                  *)
LEMMA CoversItsFamily ==
  ASSUME NEW net \in Prefixes, NEW host \in Nat, Covers(CNlri(net), host),
         CNlri(net).prefix_len >= MappedBits
  PROVE  to_ipv4_mapped(CNlri(net).address) <=> to_ipv4_mapped(host)
<1> DEFINE k == CNlri(net)
<1>1. k.prefix_len \in 0..AddrBits /\ k.address \in Nat
  BY RoundTrip
<1>2. AddrBits \in Nat /\ V4Bits \in Nat /\ V4Bits < AddrBits /\ MappedBits = AddrBits - V4Bits
  BY AbiAssumption DEF MappedBits
<1>3. k.address \div Pow2[AddrBits - k.prefix_len] = host \div Pow2[AddrBits - k.prefix_len]
  BY DEF Covers
<1> HIDE DEF k
<1>4. k.prefix_len >= MappedBits
  BY DEF k
<1>5. AddrBits - k.prefix_len \in Nat /\ AddrBits - k.prefix_len <= V4Bits /\ V4Bits <= AddrBits
  BY <1>1, <1>2, <1>4
<1>6. k.address \div Pow2[V4Bits] = host \div Pow2[V4Bits]
  BY <1>1, <1>2, <1>3, <1>5, ShorterAgrees
<1> QED BY <1>6 DEF to_ipv4_mapped, k

(* The longest match of a trie of any prefixes is in the destination's      *)
(* family, if a prefix of that family matches.                              *)
LEMMA LongestIsOwn ==
  ASSUME NEW nets, \A net \in nets : net \in Prefixes, NEW host \in Nat,
         NEW best \in nets, NEW own \in nets,
         Covers(CNlri(best), host), Covers(CNlri(own), host),
         CNlri(own).prefix_len <= CNlri(best).prefix_len,
         own.addr.family = IpAddr(host).family
  PROVE  best.addr.family = own.addr.family /\ own.prefix_len <= best.prefix_len
<1>0. best \in Prefixes /\ own \in Prefixes /\ best \in IpNets /\ own \in IpNets
  BY DEF Prefixes
<1>1. AddrBits \in Nat /\ V4Bits \in Nat /\ V4Bits < AddrBits /\ MappedBits = AddrBits - V4Bits
  BY AbiAssumption DEF MappedBits
<1>2. /\ best.addr.family \in {4, 6} /\ own.addr.family \in {4, 6}
      /\ best.prefix_len \in Nat /\ own.prefix_len \in Nat
  BY <1>0, <1>1, PrefixParts
<1>3. \A net \in {best, own} :
        /\ net.addr.family = 4 => CNlri(net).prefix_len = net.prefix_len + MappedBits
        /\ net.addr.family = 6 => CNlri(net).prefix_len = net.prefix_len
  BY <1>2 DEF CNlri
<1>4. CASE own.addr.family = 4
  <2>1. to_ipv4_mapped(host)
    BY <1>4 DEF IpAddr
  <2>2. CNlri(best).prefix_len >= MappedBits
    BY <1>0, <1>1, <1>2, <1>3, <1>4, RoundTrip
  <2>3. to_ipv4_mapped(CNlri(best).address)
    BY <1>0, <2>1, <2>2, CoversItsFamily
  <2>4. best.addr.family = 4
    BY <1>0, <1>2, <2>3, RoundTrip
  <2> QED BY <1>1, <1>2, <1>3, <1>4, <2>4
<1>5. CASE own.addr.family = 6
  <2>1. ~ to_ipv4_mapped(host)
    BY <1>5 DEF IpAddr
  <2>2. best.addr.family = 6
    <3> SUFFICES ASSUME best.addr.family = 4 PROVE FALSE
      BY <1>2
    <3>1. CNlri(best).prefix_len >= MappedBits
      BY <1>1, <1>2, <1>3
    <3>2. to_ipv4_mapped(CNlri(best).address)
      BY <1>0, RoundTrip
    <3> QED BY <1>0, <2>1, <3>1, <3>2, CoversItsFamily
  <2> QED BY <1>1, <1>2, <1>3, <1>5, <2>2
<1> QED BY <1>2, <1>4, <1>5

(* A lookup in the trie that both families share stays in the family of the *)
(* destination: an IPv4 destination is routed by the longest IPv4 prefix    *)
(* that covers it, an IPv6 destination by the longest IPv6 prefix, for      *)
(* addresses of every width (bpf_abi.rs, CNlri::from).                      *)
THEOREM LookupsKeepTheirFamily == Spec => []LookupStaysInFamily
<1>1. LookupStaysInFamily
  <2> SUFFICES ASSUME NEW a \in Prefixes, NEW b \in Prefixes, NEW c \in Prefixes,
                      NEW host \in 0..(Pow2[AddrBits] - 1),
                      {net \in {a, b, c} : /\ net.addr.family = IpAddr(host).family
                                           /\ Covers(CNlri(net), host)} # {}
               PROVE  LET own == {net \in {a, b, c} : /\ net.addr.family = IpAddr(host).family
                                                      /\ Covers(CNlri(net), host)}
                          net == IpNet(LongestMatch({CNlri(a), CNlri(b), CNlri(c)}, host))
                      IN  /\ net \in own
                          /\ \A other \in own : other.prefix_len <= net.prefix_len
    BY DEF LookupStaysInFamily
  <2> DEFINE nets == {a, b, c}
             own == {net \in nets : /\ net.addr.family = IpAddr(host).family
                                    /\ Covers(CNlri(net), host)}
             keys == {CNlri(a), CNlri(b), CNlri(c)}
             found == LongestMatch(keys, host)
  <2>1. host \in Nat
    <3>1. Pow2[AddrBits] \in Nat
      BY AbiAssumption, Pow2Type
    <3> QED BY <3>1
  <2>2. \A key \in keys : key.prefix_len \in Nat /\ key.prefix_len <= AddrBits
    BY RoundTrip, AbiAssumption
  <2>3. \A net \in own : /\ CNlri(net) \in Matches(keys, host)
                         /\ net \in nets /\ net.addr.family = IpAddr(host).family
                         /\ Covers(CNlri(net), host)
    BY DEF Matches
  <2>4. /\ found \in Matches(keys, host)
        /\ \A key \in Matches(keys, host) : key.prefix_len <= found.prefix_len
    <3>1. Matches(keys, host) # {}
      BY <2>3
    <3> HIDE DEF keys
    <3> QED BY <2>2, <3>1, LongestMatchMatches
  <2>5. PICK best \in nets : found = CNlri(best) /\ Covers(CNlri(best), host)
    BY <2>4 DEF Matches
  <2>6. IpNet(found) = best
    BY <2>5, RoundTrip
  <2>7. \A net \in nets : net \in Prefixes
    OBVIOUS
  <2> HIDE DEF nets, keys, found
  <2>8. ASSUME NEW net \in own
        PROVE  best.addr.family = net.addr.family /\ net.prefix_len <= best.prefix_len
    <3>1. CNlri(net).prefix_len <= CNlri(best).prefix_len
      BY <2>3, <2>4, <2>5
    <3>2. net \in nets /\ net.addr.family = IpAddr(host).family /\ Covers(CNlri(net), host)
      BY <2>3
    <3> HIDE DEF own
    <3> QED BY <2>1, <2>5, <2>7, <3>1, <3>2, LongestIsOwn
  <2>9. own # {}
    BY DEF nets
  <2>10. best \in own
    <3>1. PICK net \in own : TRUE
      BY <2>9
    <3>2. best.addr.family = IpAddr(host).family
      BY <2>3, <2>8, <3>1
    <3> QED BY <2>5, <3>2
  <2> QED BY <2>6, <2>8, <2>10 DEF nets, keys, found
<1> QED BY <1>1, PTL
============================================================================
