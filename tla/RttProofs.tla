----------------------------- MODULE RttProofs -----------------------------
(***************************************************************************)
(* Proofs about the RTT aggregator, for every number of readers, NLRIs and  *)
(* nexthops, every window and every length of a behaviour.                  *)
(***************************************************************************)
EXTENDS RttAggregation, WellFoundedInduction, FiniteSetTheorems, TLAPS

(* Induction up to n, over a set of the numbers that have a property. *)
LEMMA InductUpTo ==
  ASSUME NEW n \in Nat, NEW G, 0 \in G, \A i \in 1..n : i - 1 \in G => i \in G
  PROVE  \A i \in 0..n : i \in G
<1> DEFINE T == {i \in 0..n : i \notin G}
           Less == {ss \in Nat \X Nat : ss[1] < ss[2]}
<1> SUFFICES ASSUME T # {} PROVE FALSE
  OBVIOUS
<1>1. T \subseteq Nat
  OBVIOUS
<1>2. IsWellFoundedOn(Less, Nat)
  BY NatLessThanWellFounded DEF OpToRel
<1>3. \A y \in T : y \in 0..n /\ y \notin G
  OBVIOUS
<1>4. \A i \in 0..n : i \notin G => i \in T
  OBVIOUS
<1> HIDE DEF T, Less
<1>5. PICK x \in T : \A y \in T : ~(<<y, x>> \in Less)
  BY <1>1, <1>2, WFMin
<1>6. x \in 1..n
  BY <1>3
<1>7. x - 1 \notin G
  BY <1>3, <1>6
<1>8. x - 1 \in T
  BY <1>4, <1>6, <1>7
<1>9. <<x - 1, x>> \in Less
  <2>1. x \in Nat /\ x - 1 \in Nat /\ x - 1 < x
    BY <1>6
  <2>2. <<x - 1, x>> \in Nat \X Nat /\ <<x - 1, x>>[1] < <<x - 1, x>>[2]
    BY <2>1
  <2> QED BY <2>2 DEF Less
<1> QED BY <1>5, <1>8, <1>9

---------------------------------------------------------------------------
(* retain. *)

(* The equation that the samples kept so far satisfy. *)
Kept(f, s, t, n) ==
  /\ DOMAIN f = 0..n
  /\ f[0] = <<>>
  /\ \A i \in 1..n : f[i] = IF Fresh(s[i], t) THEN Append(f[i - 1], s[i]) ELSE f[i - 1]

(* The equation has a solution. *)
LEMMA KeptExists ==
  ASSUME NEW s, NEW t, NEW n \in Nat
  PROVE  \E f : Kept(f, s, t, n)
<1> DEFINE G == {m \in Nat : \E f : Kept(f, s, t, m)}
<1>1. 0 \in G
  <2> DEFINE f == [i \in 0..0 |-> <<>>]
  <2>1. Kept(f, s, t, 0)
    BY DEF Kept
  <2> QED BY <2>1
<1>2. ASSUME NEW i \in 1..n, i - 1 \in G PROVE i \in G
  <2>1. PICK f : Kept(f, s, t, i - 1)
    BY <1>2
  <2> DEFINE next == IF Fresh(s[i], t) THEN Append(f[i - 1], s[i]) ELSE f[i - 1]
             g == [j \in 0..i |-> IF j = i THEN next ELSE f[j]]
  <2>2. DOMAIN f = 0..(i - 1) /\ f[0] = <<>>
        /\ \A j \in 1..(i - 1) :
             f[j] = IF Fresh(s[j], t) THEN Append(f[j - 1], s[j]) ELSE f[j - 1]
    BY <2>1 DEF Kept
  <2>3. DOMAIN g = 0..i /\ g[i] = next /\ \A j \in 0..(i - 1) : g[j] = f[j]
    OBVIOUS
  <2> HIDE DEF g
  <2>4. g[0] = <<>>
    BY <2>2, <2>3
  <2>5. ASSUME NEW j \in 1..i
        PROVE  g[j] = IF Fresh(s[j], t) THEN Append(g[j - 1], s[j]) ELSE g[j - 1]
    <3>1. CASE j = i
      <4>1. g[i - 1] = f[i - 1]
        BY <2>3
      <4> QED BY <2>3, <3>1, <4>1
    <3>2. CASE j # i
      <4>1. j \in 1..(i - 1) /\ j \in 0..(i - 1) /\ j - 1 \in 0..(i - 1)
        BY <3>2
      <4>2. g[j] = f[j] /\ g[j - 1] = f[j - 1]
        BY <2>3, <4>1
      <4>3. f[j] = IF Fresh(s[j], t) THEN Append(f[j - 1], s[j]) ELSE f[j - 1]
        BY <2>2, <4>1
      <4> QED BY <4>2, <4>3
    <3> QED BY <3>1, <3>2
  <2>6. Kept(g, s, t, i)
    BY <2>3, <2>4, <2>5 DEF Kept
  <2> QED BY <2>6
<1> HIDE DEF G
<1>3. \A i \in 0..n : i \in G
  BY <1>1, <1>2, InductUpTo
<1>4. n \in G
  BY <1>3
<1> QED BY <1>4 DEF G

(* retain takes the last value of a solution. *)
LEMMA RetainIsKept ==
  ASSUME NEW s, NEW t, Len(s) \in Nat
  PROVE  \E f : Kept(f, s, t, Len(s)) /\ retain(s, t) = f[Len(s)]
<1> DEFINE n == Len(s)
           body(f) == [i \in 0..n |->
                         IF i = 0 THEN <<>>
                         ELSE IF Fresh(s[i], t) THEN Append(f[i - 1], s[i]) ELSE f[i - 1]]
           F == CHOOSE f : f = body(f)
<1>1. PICK f : Kept(f, s, t, n)
  BY KeptExists
<1>2. \E g : g = body(g)
  <2> DEFINE g == [i \in 0..n |-> f[i]]
  <2>0. DOMAIN g = 0..n /\ \A i \in 0..n : g[i] = f[i]
    OBVIOUS
  <2>1. ASSUME NEW i \in 0..n
        PROVE  g[i] = IF i = 0 THEN <<>>
                      ELSE IF Fresh(s[i], t) THEN Append(g[i - 1], s[i]) ELSE g[i - 1]
    <3>1. CASE i = 0
      BY <1>1, <2>0, <3>1 DEF Kept
    <3>2. CASE i # 0
      <4>1. i \in 1..n /\ i - 1 \in 0..n
        BY <3>2
      <4>2. g[i] = f[i] /\ g[i - 1] = f[i - 1]
        BY <2>0, <4>1
      <4>3. f[i] = IF Fresh(s[i], t) THEN Append(f[i - 1], s[i]) ELSE f[i - 1]
        BY <1>1, <4>1 DEF Kept
      <4> QED BY <3>2, <4>2, <4>3
    <3> QED BY <3>1, <3>2
  <2>2. g = body(g)
    <3>1. body(g) = [i \in 0..n |-> g[i]]
      BY <2>1
    <3> QED BY <3>1
  <2> QED BY <2>2
<1>3. F = body(F)
  <2> HIDE DEF body
  <2> QED BY <1>2
<1>4. retain(s, t) = F[n]
  BY DEF retain
<1> HIDE DEF F
<1>5. Kept(F, s, t, n)
  <2> DEFINE b == body(F)
  <2>1. DOMAIN b = 0..n /\ b[0] = <<>>
        /\ \A i \in 1..n : b[i] = IF Fresh(s[i], t) THEN Append(F[i - 1], s[i]) ELSE F[i - 1]
    OBVIOUS
  <2>2. F = b
    BY <1>3
  <2> HIDE DEF b
  <2> QED BY <2>1, <2>2 DEF Kept
<1> QED BY <1>4, <1>5

(* No two samples of a list have the same id. *)
DistinctIds(s) == \A k, l \in 1..Len(s) : k # l => s[k].id # s[l].id

(* retain keeps the fresh samples, all of them and each once. *)
LEMMA RetainProperties ==
  ASSUME NEW S, NEW s \in Seq(S), NEW t
  PROVE  /\ retain(s, t) \in Seq(S)
         /\ \A k \in 1..Len(retain(s, t)) :
              \E j \in 1..Len(s) : retain(s, t)[k] = s[j] /\ Fresh(s[j], t)
         /\ \A j \in 1..Len(s) :
              Fresh(s[j], t) => \E k \in 1..Len(retain(s, t)) : retain(s, t)[k] = s[j]
         /\ DistinctIds(s) => DistinctIds(retain(s, t))
<1> DEFINE n == Len(s)
<1>1. n \in Nat /\ \A i \in 1..n : s[i] \in S
  OBVIOUS
<1>2. PICK f : Kept(f, s, t, n) /\ retain(s, t) = f[n]
  BY <1>1, RetainIsKept
<1> HIDE DEF n
<1> DEFINE A(i) == \A k \in 1..Len(f[i]) : \E j \in 1..i : f[i][k] = s[j] /\ Fresh(s[j], t)
           B(i) == \A j \in 1..i : Fresh(s[j], t) => \E k \in 1..Len(f[i]) : f[i][k] = s[j]
           C(i) == DistinctIds(s) => DistinctIds(f[i])
           G == {i \in 0..n : f[i] \in Seq(S) /\ A(i) /\ B(i) /\ C(i)}
<1> HIDE DEF A, B, C
<1>7. \A i \in 0..n : i \in G <=> (f[i] \in Seq(S) /\ A(i) /\ B(i) /\ C(i))
  OBVIOUS
<1> HIDE DEF G
<1>3. 0 \in G
  <2>1. f[0] = <<>>
    BY <1>2 DEF Kept
  <2>2. f[0] \in Seq(S) /\ Len(f[0]) = 0
    BY <2>1
  <2>3. A(0) /\ B(0)
    BY <2>2 DEF A, B
  <2>4. C(0)
    BY <2>2 DEF DistinctIds, C
  <2>5. 0 \in 0..n
    BY <1>1
  <2> QED BY <1>7, <2>2, <2>3, <2>4, <2>5
<1>4. ASSUME NEW i \in 1..n, i - 1 \in G PROVE i \in G
  <2> DEFINE old == f[i - 1]
             new == f[i]
             m == Len(old)
  <2>0. old \in Seq(S) /\ A(i - 1) /\ B(i - 1) /\ C(i - 1) /\ m \in Nat
    <3>1. i - 1 \in 0..n
      BY <1>1
    <3>2. f[i - 1] \in Seq(S) /\ A(i - 1) /\ B(i - 1) /\ C(i - 1)
      BY <1>4, <1>7, <3>1
    <3> QED BY <3>2
  <2>9. i \in 0..n
    BY <1>1
  <2>1. s[i] \in S /\ new = IF Fresh(s[i], t) THEN Append(old, s[i]) ELSE old
    BY <1>1, <1>2 DEF Kept
  <2>2. \A j \in 1..(i - 1) : j \in 1..i /\ j # i
    BY <1>1
  <2>3. CASE ~Fresh(s[i], t)
    <3>1. new = old
      BY <2>1, <2>3
    <3>2. A(i)
      BY <2>0, <2>2, <3>1 DEF A
    <3>3. B(i)
      <4> SUFFICES ASSUME NEW j \in 1..i, Fresh(s[j], t)
                   PROVE  \E k \in 1..Len(new) : new[k] = s[j]
        BY DEF B
      <4>1. j \in 1..(i - 1)
        BY <1>1, <2>3
      <4> QED BY <2>0, <3>1, <4>1 DEF B
    <3>4. C(i)
      BY <2>0, <3>1 DEF C
    <3> QED BY <1>7, <2>0, <2>9, <3>1, <3>2, <3>3, <3>4
  <2>4. CASE Fresh(s[i], t)
    <3>1. new \in Seq(S) /\ Len(new) = m + 1 /\ new[m + 1] = s[i]
          /\ \A k \in 1..m : new[k] = old[k]
      BY <2>0, <2>1, <2>4
    <3>2. A(i)
      <4> SUFFICES ASSUME NEW k \in 1..Len(new)
                   PROVE  \E j \in 1..i : new[k] = s[j] /\ Fresh(s[j], t)
        BY DEF A
      <4>1. CASE k \in 1..m
        <5>1. PICK j \in 1..(i - 1) : old[k] = s[j] /\ Fresh(s[j], t)
          BY <2>0, <4>1 DEF A
        <5> QED BY <2>2, <3>1, <4>1, <5>1
      <4>2. CASE k = m + 1
        <5>1. i \in 1..i
          BY <1>1
        <5> QED BY <2>4, <3>1, <4>2, <5>1
      <4> QED BY <2>0, <3>1, <4>1, <4>2
    <3>3. B(i)
      <4> SUFFICES ASSUME NEW j \in 1..i, Fresh(s[j], t)
                   PROVE  \E k \in 1..Len(new) : new[k] = s[j]
        BY DEF B
      <4>1. CASE j \in 1..(i - 1)
        <5>1. PICK k \in 1..m : old[k] = s[j]
          BY <2>0, <4>1 DEF B
        <5>2. k \in 1..Len(new)
          BY <2>0, <3>1
        <5> QED BY <3>1, <5>1, <5>2
      <4>2. CASE j = i
        <5>1. m + 1 \in 1..Len(new)
          BY <2>0, <3>1
        <5> QED BY <3>1, <4>2, <5>1
      <4> QED BY <1>1, <4>1, <4>2
    <3>4. C(i)
      <4> SUFFICES ASSUME DistinctIds(s) PROVE DistinctIds(new)
        BY DEF C
      <4>1. \A k \in 1..m : old[k].id # s[i].id
        <5> SUFFICES ASSUME NEW k \in 1..m PROVE old[k].id # s[i].id
          OBVIOUS
        <5>1. PICK j \in 1..(i - 1) : old[k] = s[j]
          BY <2>0 DEF A
        <5>2. j \in 1..n /\ i \in 1..n /\ j # i
          BY <1>1, <2>2
        <5> QED BY <5>1, <5>2 DEF DistinctIds, n
      <4>2. \A k, l \in 1..m : k # l => old[k].id # old[l].id
        BY <2>0 DEF DistinctIds, C
      <4> SUFFICES ASSUME NEW k \in 1..Len(new), NEW l \in 1..Len(new), k # l
                   PROVE  new[k].id # new[l].id
        BY DEF DistinctIds
      <4>3. k \in 1..m \/ k = m + 1
        BY <2>0, <3>1
      <4>4. l \in 1..m \/ l = m + 1
        BY <2>0, <3>1
      <4> HIDE DEF old, new, m
      <4> QED BY <3>1, <4>1, <4>2, <4>3, <4>4
    <3> QED BY <1>7, <2>9, <3>1, <3>2, <3>3, <3>4
  <2> QED BY <2>3, <2>4
<1>5. n \in G
  <2>1. \A i \in 0..n : i \in G
    BY <1>1, <1>3, <1>4, InductUpTo
  <2> QED BY <1>1, <2>1
<1>6. f[n] \in Seq(S) /\ A(n) /\ B(n) /\ C(n)
  BY <1>1, <1>5, <1>7
<1> QED BY <1>2, <1>6 DEF n, A, B, C

LEMMA RetainEmpty == \A t : retain(<<>>, t) = <<>>
<1> SUFFICES ASSUME NEW t PROVE retain(<<>>, t) = <<>>
  OBVIOUS
<1>1. Len(<<>>) = 0 /\ Len(<<>>) \in Nat
  OBVIOUS
<1>2. PICK f : Kept(f, <<>>, t, Len(<<>>)) /\ retain(<<>>, t) = f[Len(<<>>)]
  BY <1>1, RetainIsKept
<1> QED BY <1>1, <1>2 DEF Kept

---------------------------------------------------------------------------
(* The table of samples. *)

Samples == [id : 1..MaxEvents, ts_ns : Nat]

TableTyped(table) ==
  /\ DOMAIN table \subseteq Nlris
  /\ \A n \in DOMAIN table :
       /\ DOMAIN table[n] \subseteq Nexthops
       /\ DOMAIN table[n] # {}
       /\ \A nh \in DOMAIN table[n] : table[n][nh] \in Seq(Samples) /\ table[n][nh] # <<>>

LEMMA SamplesOfTyped ==
  ASSUME NEW table, TableTyped(table), NEW n, NEW nh
  PROVE  SamplesOf(table, n, nh) \in Seq(Samples)
<1>1. <<>> \in Seq(Samples)
  OBVIOUS
<1> QED BY <1>1 DEF SamplesOf, TableTyped

(* prune leaves of every list what retain leaves, and of no list an empty one. *)
LEMMA PruneRetains ==
  ASSUME NEW table, TableTyped(table), NEW t
  PROVE  /\ TableTyped(prune(table, t))
         /\ \A n, nh : SamplesOf(prune(table, t), n, nh) = retain(SamplesOf(table, n, nh), t)
<1> DEFINE left(n, nh) == retain(table[n][nh], t)
           kept(n) == {nh \in DOMAIN table[n] : left(n, nh) # <<>>}
           rows == {m \in DOMAIN table : kept(m) # {}}
           p == [n \in rows |-> [nh \in kept(n) |-> left(n, nh)]]
<1>1. prune(table, t) = p
  BY DEF prune
<1>2. DOMAIN p = rows
      /\ \A n \in rows : DOMAIN p[n] = kept(n) /\ \A nh \in kept(n) : p[n][nh] = left(n, nh)
  OBVIOUS
<1>3. ASSUME NEW n \in DOMAIN table, NEW nh \in DOMAIN table[n]
      PROVE  left(n, nh) \in Seq(Samples)
  <2>1. table[n][nh] \in Seq(Samples)
    BY DEF TableTyped
  <2> QED BY <2>1, RetainProperties
<1>4. \A n \in rows : n \in DOMAIN table /\ kept(n) # {}
  OBVIOUS
<1>5. \A n \in DOMAIN table : n \notin rows => kept(n) = {}
  OBVIOUS
<1>6. \A n : \A nh : nh \in kept(n) <=> nh \in DOMAIN table[n] /\ left(n, nh) # <<>>
  OBVIOUS
<1> HIDE DEF p, rows, kept
<1>7. TableTyped(p)
  <2>1. DOMAIN p \subseteq Nlris
    BY <1>2, <1>4 DEF TableTyped
  <2>2. ASSUME NEW n \in DOMAIN p
        PROVE  /\ DOMAIN p[n] \subseteq Nexthops /\ DOMAIN p[n] # {}
               /\ \A nh \in DOMAIN p[n] : p[n][nh] \in Seq(Samples) /\ p[n][nh] # <<>>
    <3>1. n \in rows /\ n \in DOMAIN table /\ DOMAIN p[n] = kept(n) /\ kept(n) # {}
      BY <1>2, <1>4
    <3>2. kept(n) \subseteq Nexthops
      BY <1>6, <3>1 DEF TableTyped
    <3>3. \A nh \in kept(n) : p[n][nh] = left(n, nh) /\ nh \in DOMAIN table[n] /\ left(n, nh) # <<>>
      BY <1>2, <1>6, <3>1
    <3>4. \A nh \in kept(n) : p[n][nh] \in Seq(Samples) /\ p[n][nh] # <<>>
      BY <1>3, <3>1, <3>3
    <3> QED BY <3>1, <3>2, <3>4
  <2> QED BY <2>1, <2>2 DEF TableTyped
<1>8. ASSUME NEW n, NEW nh PROVE SamplesOf(p, n, nh) = retain(SamplesOf(table, n, nh), t)
  <2>1. CASE n \notin DOMAIN table \/ nh \notin DOMAIN table[n]
    <3>1. SamplesOf(table, n, nh) = <<>>
      BY <2>1 DEF SamplesOf
    <3>2. ~(n \in DOMAIN p /\ nh \in DOMAIN p[n])
      BY <1>2, <1>4, <1>6, <2>1
    <3>3. SamplesOf(p, n, nh) = <<>>
      BY <3>2 DEF SamplesOf
    <3> QED BY <3>1, <3>3, RetainEmpty
  <2>2. CASE n \in DOMAIN table /\ nh \in DOMAIN table[n]
    <3>1. SamplesOf(table, n, nh) = table[n][nh]
      BY <2>2 DEF SamplesOf
    <3>2. CASE left(n, nh) # <<>>
      <4>1. nh \in kept(n)
        BY <1>6, <2>2, <3>2
      <4>2. n \in rows
        BY <1>5, <2>2, <4>1
      <4>3. n \in DOMAIN p /\ nh \in DOMAIN p[n] /\ p[n][nh] = left(n, nh)
        BY <1>2, <4>1, <4>2
      <4> QED BY <3>1, <4>3 DEF SamplesOf
    <3>3. CASE left(n, nh) = <<>>
      <4>1. ~(n \in DOMAIN p /\ nh \in DOMAIN p[n])
        BY <1>2, <1>6, <3>3
      <4> QED BY <3>1, <3>3, <4>1 DEF SamplesOf
    <3> QED BY <3>2, <3>3
  <2> QED BY <2>1, <2>2
<1> QED BY <1>1, <1>7, <1>8

(* push_back adds one sample to one list. *)
LEMMA PushBackAppends ==
  ASSUME NEW table, TableTyped(table), NEW n \in Nlris, NEW nh \in Nexthops, NEW x \in Samples
  PROVE  /\ TableTyped(push_back(table, n, nh, x))
         /\ SamplesOf(push_back(table, n, nh, x), n, nh) = Append(SamplesOf(table, n, nh), x)
         /\ \A m, h : ~(m = n /\ h = nh) =>
              SamplesOf(push_back(table, n, nh, x), m, h) = SamplesOf(table, m, h)
<1> DEFINE old == IF n \in DOMAIN table THEN table[n] ELSE Empty
           list == Append(SamplesOf(table, n, nh), x)
           row == [h \in DOMAIN old \cup {nh} |-> IF h = nh THEN list ELSE old[h]]
           p == [m \in DOMAIN table \cup {n} |-> IF m # n THEN table[m] ELSE row]
<1>1. push_back(table, n, nh, x) = p
  BY DEF push_back
<1>2. list \in Seq(Samples) /\ list # <<>>
  <2>1. SamplesOf(table, n, nh) \in Seq(Samples)
    BY SamplesOfTyped
  <2> DEFINE w == SamplesOf(table, n, nh)
  <2> HIDE DEF w
  <2>2. Append(w, x) \in Seq(Samples) /\ Len(Append(w, x)) = Len(w) + 1 /\ Len(w) \in Nat
    BY <2>1 DEF w
  <2>3. Append(w, x) # <<>>
    <3>1. Len(<<>>) = 0
      OBVIOUS
    <3> QED BY <2>2, <3>1
  <2> QED BY <2>2, <2>3 DEF w
<1>3. /\ n \in DOMAIN table => DOMAIN old = DOMAIN table[n] /\ \A h : old[h] = table[n][h]
      /\ n \notin DOMAIN table => DOMAIN old = {}
  BY DEF Empty
<1> HIDE DEF old, list
<1>4. DOMAIN row = DOMAIN old \cup {nh} /\ row[nh] = list
      /\ \A h \in DOMAIN old : h # nh => row[h] = old[h]
  OBVIOUS
<1> HIDE DEF row
<1>5. DOMAIN p = DOMAIN table \cup {n} /\ p[n] = row
      /\ \A m \in DOMAIN table : m # n => p[m] = table[m]
  OBVIOUS
<1> HIDE DEF p
<1>6. DOMAIN old \subseteq Nexthops
      /\ \A h \in DOMAIN old : old[h] \in Seq(Samples) /\ old[h] # <<>>
  BY <1>3 DEF TableTyped
<1>7. /\ DOMAIN row \subseteq Nexthops /\ DOMAIN row # {}
      /\ \A h \in DOMAIN row : row[h] \in Seq(Samples) /\ row[h] # <<>>
  BY <1>2, <1>4, <1>6
<1>8. TableTyped(p)
  <2>1. DOMAIN p \subseteq Nlris
    BY <1>5 DEF TableTyped
  <2>2. ASSUME NEW m \in DOMAIN p
        PROVE  /\ DOMAIN p[m] \subseteq Nexthops /\ DOMAIN p[m] # {}
               /\ \A h \in DOMAIN p[m] : p[m][h] \in Seq(Samples) /\ p[m][h] # <<>>
    <3>1. CASE m = n
      BY <1>5, <1>7, <3>1
    <3>2. CASE m # n
      <4>1. m \in DOMAIN table /\ p[m] = table[m]
        BY <1>5, <3>2
      <4> QED BY <4>1 DEF TableTyped
    <3> QED BY <3>1, <3>2
  <2> QED BY <2>1, <2>2 DEF TableTyped
<1>9. SamplesOf(p, n, nh) = list
  BY <1>4, <1>5 DEF SamplesOf
<1>10. ASSUME NEW m, NEW h, ~(m = n /\ h = nh) PROVE SamplesOf(p, m, h) = SamplesOf(table, m, h)
  <2>1. CASE m # n
    <3>1. m \in DOMAIN p <=> m \in DOMAIN table
      BY <1>5, <2>1
    <3>2. m \in DOMAIN table => p[m] = table[m]
      BY <1>5, <2>1
    <3> QED BY <3>1, <3>2 DEF SamplesOf
  <2>2. CASE m = n
    <3>1. h # nh /\ m \in DOMAIN p /\ p[m] = row
      BY <1>5, <1>10, <2>2
    <3>2. h \in DOMAIN row <=> n \in DOMAIN table /\ h \in DOMAIN table[n]
      BY <1>3, <1>4, <3>1
    <3>3. h \in DOMAIN row => row[h] = table[n][h]
      BY <1>3, <1>4, <3>1, <3>2
    <3> QED BY <2>2, <3>1, <3>2, <3>3 DEF SamplesOf
  <2> QED BY <2>1, <2>2
<1> QED BY <1>1, <1>8, <1>9, <1>10 DEF list

---------------------------------------------------------------------------
(* from_samples. *)

(* The srtt_us of a sample. *)
SrttAt(s, i) == Srtt[s[i].id]

(* The equation that the sum of the first samples satisfies. *)
Sums(f, s, n) ==
  /\ DOMAIN f = 0..n
  /\ f[0] = 0
  /\ \A i \in 1..n : f[i] = f[i - 1] + SrttAt(s, i)

(* The equation has a solution. *)
LEMMA SumsExists ==
  ASSUME NEW s, NEW n \in Nat
  PROVE  \E f : Sums(f, s, n)
<1> DEFINE G == {m \in Nat : \E f : Sums(f, s, m)}
<1>1. 0 \in G
  <2> DEFINE f == [i \in 0..0 |-> 0]
  <2>1. Sums(f, s, 0)
    BY DEF Sums
  <2> QED BY <2>1
<1>2. ASSUME NEW i \in 1..n, i - 1 \in G PROVE i \in G
  <2>1. PICK f : Sums(f, s, i - 1)
    BY <1>2
  <2> DEFINE next == f[i - 1] + SrttAt(s, i)
             g == [j \in 0..i |-> IF j = i THEN next ELSE f[j]]
  <2>2. DOMAIN f = 0..(i - 1) /\ f[0] = 0
        /\ \A j \in 1..(i - 1) : f[j] = f[j - 1] + SrttAt(s, j)
    BY <2>1 DEF Sums
  <2>3. DOMAIN g = 0..i /\ g[i] = next /\ \A j \in 0..(i - 1) : g[j] = f[j]
    OBVIOUS
  <2> HIDE DEF g
  <2>4. g[0] = 0
    BY <2>2, <2>3
  <2>5. ASSUME NEW j \in 1..i
        PROVE  g[j] = g[j - 1] + SrttAt(s, j)
    <3>1. CASE j = i
      <4>1. g[i - 1] = f[i - 1]
        BY <2>3
      <4> QED BY <2>3, <3>1, <4>1
    <3>2. CASE j # i
      <4>1. j \in 1..(i - 1) /\ j \in 0..(i - 1) /\ j - 1 \in 0..(i - 1)
        BY <3>2
      <4>2. g[j] = f[j] /\ g[j - 1] = f[j - 1]
        BY <2>3, <4>1
      <4>3. f[j] = f[j - 1] + SrttAt(s, j)
        BY <2>2, <4>1
      <4> QED BY <4>2, <4>3
    <3> QED BY <3>1, <3>2
  <2>6. Sums(g, s, i)
    BY <2>3, <2>4, <2>5 DEF Sums
  <2> QED BY <2>6
<1> HIDE DEF G
<1>3. \A i \in 0..n : i \in G
  BY <1>1, <1>2, InductUpTo
<1>4. n \in G
  BY <1>3
<1> QED BY <1>4 DEF G

(* from_samples divides the last value of a solution. *)
LEMMA AverageIsOfTheSum ==
  ASSUME NEW s, Len(s) \in Nat, s # <<>>
  PROVE  \E f : /\ Sums(f, s, Len(s))
                /\ from_samples(s).avg_srtt_us = f[Len(s)] \div Len(s)
<1> DEFINE n == Len(s)
           body(f) == [i \in 0..n |-> IF i = 0 THEN 0 ELSE f[i - 1] + Srtt[s[i].id]]
           F == CHOOSE f : f = body(f)
<1>1. PICK f : Sums(f, s, n)
  BY SumsExists
<1>2. \E g : g = body(g)
  <2> DEFINE g == [i \in 0..n |-> f[i]]
  <2>0. DOMAIN g = 0..n /\ \A i \in 0..n : g[i] = f[i]
    OBVIOUS
  <2>1. ASSUME NEW i \in 0..n
        PROVE  g[i] = IF i = 0 THEN 0 ELSE g[i - 1] + Srtt[s[i].id]
    <3>1. CASE i = 0
      BY <1>1, <2>0, <3>1 DEF Sums
    <3>2. CASE i # 0
      <4>1. i \in 1..n /\ i - 1 \in 0..n
        BY <3>2
      <4>2. g[i] = f[i] /\ g[i - 1] = f[i - 1]
        BY <2>0, <4>1
      <4>3. f[i] = f[i - 1] + Srtt[s[i].id]
        BY <1>1, <4>1 DEF Sums, SrttAt
      <4> QED BY <3>2, <4>2, <4>3
    <3> QED BY <3>1, <3>2
  <2>2. g = body(g)
    <3>1. body(g) = [i \in 0..n |-> g[i]]
      BY <2>1
    <3> QED BY <3>1
  <2> QED BY <2>2
<1>3. F = body(F)
  <2> HIDE DEF body
  <2> QED BY <1>2
<1>4. from_samples(s).avg_srtt_us = F[n] \div n
  BY DEF from_samples
<1> HIDE DEF F
<1>5. Sums(F, s, n)
  <2> DEFINE b == body(F)
  <2>1. DOMAIN b = 0..n /\ b[0] = 0
        /\ \A i \in 1..n : b[i] = F[i - 1] + Srtt[s[i].id]
    OBVIOUS
  <2>2. F = b
    BY <1>3
  <2> HIDE DEF b
  <2> QED BY <2>1, <2>2 DEF Sums, SrttAt
<1> QED BY <1>4, <1>5

LEMMA SrttIsNatural ==
  ASSUME NEW s \in Seq(Samples), NEW i \in 1..Len(s)
  PROVE  SrttAt(s, i) \in Nat
<1>1. s[i] \in Samples
  OBVIOUS
<1>2. s[i].id \in 1..MaxEvents
  BY <1>1 DEF Samples
<1> QED BY <1>2, RttAssumption DEF SrttAt

(* A list that is not empty has a smallest and a largest srtt_us. *)
LEMMA Extremes ==
  ASSUME NEW s \in Seq(Samples), s # <<>>
  PROVE  /\ \E k \in 1..Len(s) : \A i \in 1..Len(s) : SrttAt(s, k) <= SrttAt(s, i)
         /\ \E k \in 1..Len(s) : \A i \in 1..Len(s) : SrttAt(s, i) <= SrttAt(s, k)
<1> DEFINE n == Len(s)
           v(i) == SrttAt(s, i)
<1>1. n \in Nat /\ n >= 1 /\ \A i \in 1..n : v(i) \in Nat
  <2>1. n \in Nat /\ n >= 1
    OBVIOUS
  <2> QED BY <2>1, SrttIsNatural
<1> DEFINE G == {m \in 0..n : m = 0 \/
                   /\ \E k \in 1..m : \A i \in 1..m : v(k) <= v(i)
                   /\ \E k \in 1..m : \A i \in 1..m : v(i) <= v(k)}
<1> HIDE DEF n, v
<1>2. \A m \in 0..n : m \in G <=> m = 0 \/
                   /\ \E k \in 1..m : \A i \in 1..m : v(k) <= v(i)
                   /\ \E k \in 1..m : \A i \in 1..m : v(i) <= v(k)
  OBVIOUS
<1> HIDE DEF G
<1>3. 0 \in G
  BY <1>1, <1>2
<1>4. ASSUME NEW m \in 1..n, m - 1 \in G PROVE m \in G
  <2>1. m \in 0..n /\ m - 1 \in 0..n /\ m \in 1..m
    BY <1>1
  <2>2. CASE m = 1
    <3>1. v(1) <= v(1) /\ 1 \in 1..m /\ \A i \in 1..m : i = 1
      BY <1>1, <2>2
    <3> QED BY <1>2, <2>1, <3>1
  <2>3. CASE m # 1
    <3>1. m - 1 # 0
      BY <2>3
    <3>2. PICK a \in 1..(m - 1) : \A i \in 1..(m - 1) : v(a) <= v(i)
      BY <1>2, <1>4, <2>1, <3>1
    <3>3. PICK b \in 1..(m - 1) : \A i \in 1..(m - 1) : v(i) <= v(b)
      BY <1>2, <1>4, <2>1, <3>1
    <3>4. /\ a \in 1..m /\ b \in 1..m /\ v(a) \in Nat /\ v(b) \in Nat /\ v(m) \in Nat
          /\ \A i \in 1..m : v(i) \in Nat /\ (i = m \/ i \in 1..(m - 1))
      BY <1>1
    <3>5. \E k \in 1..m : \A i \in 1..m : v(k) <= v(i)
      <4>1. CASE v(a) <= v(m)
        BY <3>2, <3>4, <4>1
      <4>2. CASE v(m) <= v(a)
        <5>1. ASSUME NEW i \in 1..m PROVE v(m) <= v(i)
          BY <3>2, <3>4, <4>2
        <5> QED BY <2>1, <5>1
      <4> QED BY <3>4, <4>1, <4>2
    <3>6. \E k \in 1..m : \A i \in 1..m : v(i) <= v(k)
      <4>1. CASE v(m) <= v(b)
        BY <3>3, <3>4, <4>1
      <4>2. CASE v(b) <= v(m)
        <5>1. ASSUME NEW i \in 1..m PROVE v(i) <= v(m)
          BY <3>3, <3>4, <4>2
        <5> QED BY <2>1, <5>1
      <4> QED BY <3>4, <4>1, <4>2
    <3> QED BY <1>2, <2>1, <3>5, <3>6
  <2> QED BY <2>2, <2>3
<1>5. n \in G
  <2>1. \A m \in 0..n : m \in G
    BY <1>1, <1>3, <1>4, InductUpTo
  <2> QED BY <1>1, <2>1
<1>6. /\ \E k \in 1..n : \A i \in 1..n : v(k) <= v(i)
      /\ \E k \in 1..n : \A i \in 1..n : v(i) <= v(k)
  <2>1. n \in 0..n /\ n # 0
    BY <1>1
  <2> QED BY <1>2, <1>5, <2>1, Zenon
<1> QED BY <1>6 DEF n, v

(* An average lies between the bounds of what it is the average of. *)
LEMMA AverageBetween ==
  ASSUME NEW n \in Nat, n >= 1, NEW lo \in Nat, NEW hi \in Nat, NEW sum \in Nat,
         n * lo <= sum, sum <= n * hi
  PROVE  lo <= sum \div n /\ sum \div n <= hi /\ sum \div n \in Nat
<1> DEFINE q == sum \div n
           r == sum % n
<1>1. q \in Int /\ r \in Int /\ sum = n * q + r /\ 0 <= r /\ r < n
  OBVIOUS
<1> HIDE DEF q, r
<1>2. lo <= q
  <2> SUFFICES ASSUME q + 1 <= lo PROVE FALSE
    BY <1>1
  <2>1. n * (q + 1) <= n * lo
    BY <1>1
  <2>2. n * (q + 1) = n * q + n
    BY <1>1
  <2> QED BY <1>1, <2>1, <2>2
<1>3. q <= hi
  <2> SUFFICES ASSUME hi + 1 <= q PROVE FALSE
    BY <1>1
  <2>1. n * (hi + 1) <= n * q
    BY <1>1
  <2>2. n * (hi + 1) = n * hi + n
    BY <1>1
  <2> QED BY <1>1, <2>1, <2>2
<1>4. q \in Nat
  BY <1>1, <1>2
<1> QED BY <1>2, <1>3, <1>4 DEF q

(* The average of a window is at most its maximum and at least the smallest *)
(* of its samples.                                                          *)
LEMMA FromSamples ==
  ASSUME NEW s \in Seq(Samples), s # <<>>
  PROVE  /\ from_samples(s).samples = Len(s)
         /\ from_samples(s).avg_srtt_us <= from_samples(s).max_srtt_us
         /\ \E k \in 1..Len(s) : Srtt[s[k].id] <= from_samples(s).avg_srtt_us
<1> DEFINE n == Len(s)
           v(i) == SrttAt(s, i)
<1>1. n \in Nat /\ n >= 1 /\ DOMAIN s = 1..n
  OBVIOUS
<1>2. \A i \in 1..n : v(i) \in Nat
  BY SrttIsNatural
<1>3. PICK a \in 1..n : \A i \in 1..n : v(a) <= v(i)
  BY Extremes
<1>4. PICK b \in 1..n : \A i \in 1..n : v(i) <= v(b)
  BY Extremes
<1>5. PICK f : Sums(f, s, n) /\ from_samples(s).avg_srtt_us = f[n] \div n
  BY <1>1, AverageIsOfTheSum
<1>6. from_samples(s).samples = n
  BY DEF from_samples
<1>7. from_samples(s).max_srtt_us = v(b)
  <2> DEFINE srtts == {Srtt[s[i].id] : i \in DOMAIN s}
             top == CHOOSE x \in srtts : \A y \in srtts : y <= x
  <2>1. from_samples(s).max_srtt_us = top
    BY DEF from_samples
  <2>2. /\ \A i \in 1..n : v(i) \in srtts
        /\ \A y \in srtts : \E i \in 1..n : y = v(i)
    BY <1>1 DEF SrttAt
  <2> HIDE DEF srtts, n, v
  <2>3. v(b) \in srtts /\ \A y \in srtts : y <= v(b)
    BY <1>4, <2>2
  <2>4. top \in srtts /\ \A y \in srtts : y <= top
    BY <2>3
  <2> HIDE DEF top
  <2>5. top <= v(b) /\ v(b) <= top
    BY <2>3, <2>4
  <2>6. top \in Nat /\ v(b) \in Nat
    BY <1>2, <2>2, <2>4
  <2> QED BY <2>1, <2>5, <2>6
<1> DEFINE lo == v(a)
           hi == v(b)
           G == {i \in 0..n : f[i] \in Nat /\ i * lo <= f[i] /\ f[i] <= i * hi}
<1>8. lo \in Nat /\ hi \in Nat /\ \A i \in 1..n : lo <= v(i) /\ v(i) <= hi
  BY <1>2, <1>3, <1>4
<1>9. f[0] = 0 /\ \A i \in 1..n : f[i] = f[i - 1] + v(i)
  BY <1>5 DEF Sums
<1> HIDE DEF n, v, lo, hi
<1>10. 0 \in G
  <2>1. 0 * lo = 0 /\ 0 * hi = 0 /\ 0 \in 0..n
    BY <1>1, <1>8
  <2> QED BY <1>9, <2>1
<1>11. ASSUME NEW i \in 1..n, i - 1 \in G PROVE i \in G
  <2> DEFINE x == f[i - 1]
             y == v(i)
  <2>1. x \in Nat /\ (i - 1) * lo <= x /\ x <= (i - 1) * hi
    BY <1>11
  <2>2. y \in Nat /\ lo <= y /\ y <= hi /\ f[i] = x + y
    BY <1>2, <1>8, <1>9
  <2> HIDE DEF x, y
  <2>3. (i - 1) * lo = i * lo - lo /\ (i - 1) * hi = i * hi - hi
    BY <1>1, <1>8
  <2>4. i * lo \in Nat /\ i * hi \in Nat
    BY <1>1, <1>8
  <2> DEFINE il == i * lo
             ih == i * hi
  <2>5. il \in Nat /\ ih \in Nat /\ il - lo <= x /\ x <= ih - hi
    BY <2>1, <2>3, <2>4
  <2> HIDE DEF il, ih
  <2>6. x + y \in Nat /\ il <= x + y /\ x + y <= ih
    BY <1>8, <2>1, <2>2, <2>5
  <2>7. i \in 0..n
    BY <1>1
  <2> QED BY <2>2, <2>6, <2>7 DEF il, ih
<1>12. n \in G
  <2> HIDE DEF G
  <2>1. \A i \in 0..n : i \in G
    BY <1>1, <1>10, <1>11, InductUpTo
  <2> QED BY <1>1, <2>1
<1>13. f[n] \in Nat /\ n * lo <= f[n] /\ f[n] <= n * hi
  BY <1>12
<1>14. lo <= f[n] \div n /\ f[n] \div n <= hi
  BY <1>1, <1>8, <1>13, AverageBetween
<1>15. Srtt[s[a].id] <= f[n] \div n
  BY <1>14 DEF lo, v, SrttAt
<1>16. a \in 1..n
  OBVIOUS
<1> QED BY <1>5, <1>6, <1>7, <1>14, <1>15, <1>16 DEF n, hi

---------------------------------------------------------------------------
(* The inductive invariant. *)

Events == [id : 1..MaxEvents, matched_nlri : Nlris, nexthop : Nexthops, ts_ns : Nat]

Types ==
  /\ now \in Nat /\ count \in Nat
  /\ ringbuf \in Seq(Events)
  /\ TableTyped(samples)
  /\ observer = Idle \/ observer \in [pc : {"lock"}, event : Events, now_ns : Nat]
  /\ DOMAIN reader = Readers
  /\ accepted \subseteq Events

(* A thread that waits for the mutex has read the clock before. *)
ReadEarlier ==
  /\ observer.pc = "lock" => observer.now_ns <= now
  /\ \A r \in Readers : reader[r].pc = "lock" => reader[r].now_ns \in Nat /\ reader[r].now_ns <= now

(* An event is in the ring buffer, in the observer's hands or accepted, and *)
(* in one of them only.                                                     *)
OneCopy ==
  /\ \A i \in 1..Len(ringbuf) : ringbuf[i].id <= count
  /\ \A i, j \in 1..Len(ringbuf) : i # j => ringbuf[i].id # ringbuf[j].id
  /\ \A e \in accepted : e.id <= count /\ \A i \in 1..Len(ringbuf) : ringbuf[i].id # e.id
  /\ observer.pc = "lock" =>
       /\ observer.event.id <= count
       /\ \A i \in 1..Len(ringbuf) : ringbuf[i].id # observer.event.id
       /\ \A e \in accepted : e.id # observer.event.id

(* No two accepted events have the same id. *)
AllDifferent ==
  /\ IsFiniteSet(accepted)
  /\ \A e, f \in accepted : e.id = f.id => e = f

(* The samples of a table: each from an accepted event for its nexthop, all *)
(* that are fresh at time t, and none twice.                                *)
Accounted(table, acc) ==
  \A n \in Nlris, nh \in Nexthops : \A k \in 1..Len(SamplesOf(table, n, nh)) :
    \E e \in acc : /\ e.matched_nlri = n /\ e.nexthop = nh
                   /\ Sample(e) = SamplesOf(table, n, nh)[k]

Complete(table, acc, t) ==
  \A e \in acc : Fresh(e, t) =>
    \E k \in 1..Len(SamplesOf(table, e.matched_nlri, e.nexthop)) :
      SamplesOf(table, e.matched_nlri, e.nexthop)[k] = Sample(e)

Once(table) == \A n \in Nlris, nh \in Nexthops : DistinctIds(SamplesOf(table, n, nh))

Windowed(table, acc, t) == TableTyped(table) /\ Accounted(table, acc) /\ Complete(table, acc, t) /\ Once(table)

RttInv == Types /\ ReadEarlier /\ OneCopy /\ AllDifferent /\ Windowed(samples, accepted, now)

(* What is fresh now was fresh at every earlier time. *)
LEMMA FreshBefore ==
  ASSUME NEW e, e.ts_ns \in Nat, NEW t \in Nat, NEW u \in Nat, t <= u, Fresh(e, u)
  PROVE  Fresh(e, t)
BY RttAssumption DEF Fresh, saturating_sub

(* Pruning with a clock reading of the past loses nothing that is fresh. *)
LEMMA PruneKeepsWindow ==
  ASSUME NEW table, NEW acc \in SUBSET Events, NEW u \in Nat, Windowed(table, acc, u),
         NEW t \in Nat, t <= u
  PROVE  Windowed(prune(table, t), acc, u)
<1> DEFINE p == prune(table, t)
           was(n, nh) == SamplesOf(table, n, nh)
           is(n, nh) == SamplesOf(p, n, nh)
<1>0. TableTyped(table) /\ Accounted(table, acc) /\ Complete(table, acc, u) /\ Once(table)
  BY DEF Windowed
<1>1. TableTyped(p) /\ \A n, nh : is(n, nh) = retain(was(n, nh), t)
  BY <1>0, PruneRetains
<1>2. ASSUME NEW n, NEW nh
      PROVE  /\ \A k \in 1..Len(is(n, nh)) :
                  \E j \in 1..Len(was(n, nh)) : is(n, nh)[k] = was(n, nh)[j]
             /\ \A j \in 1..Len(was(n, nh)) : Fresh(was(n, nh)[j], t) =>
                  \E k \in 1..Len(is(n, nh)) : is(n, nh)[k] = was(n, nh)[j]
             /\ DistinctIds(was(n, nh)) => DistinctIds(is(n, nh))
  <2>1. was(n, nh) \in Seq(Samples)
    BY <1>0, SamplesOfTyped
  <2> DEFINE w == was(n, nh)
  <2>2. is(n, nh) = retain(w, t)
    BY <1>1
  <2> HIDE DEF w
  <2>3. w \in Seq(Samples)
    BY <2>1 DEF w
  <2>4. /\ \A k \in 1..Len(retain(w, t)) :
             \E j \in 1..Len(w) : retain(w, t)[k] = w[j] /\ Fresh(w[j], t)
        /\ \A j \in 1..Len(w) :
             Fresh(w[j], t) => \E k \in 1..Len(retain(w, t)) : retain(w, t)[k] = w[j]
        /\ DistinctIds(w) => DistinctIds(retain(w, t))
    BY <2>3, RetainProperties
  <2> QED BY <2>2, <2>4 DEF w
<1> HIDE DEF p
<1>3. Accounted(p, acc)
  <2> SUFFICES ASSUME NEW n \in Nlris, NEW nh \in Nexthops, NEW k \in 1..Len(is(n, nh))
               PROVE  \E e \in acc : /\ e.matched_nlri = n /\ e.nexthop = nh
                                     /\ Sample(e) = is(n, nh)[k]
    BY DEF Accounted
  <2>1. PICK j \in 1..Len(was(n, nh)) : is(n, nh)[k] = was(n, nh)[j]
    BY <1>2
  <2> QED BY <1>0, <2>1 DEF Accounted
<1>4. Complete(p, acc, u)
  <2> SUFFICES ASSUME NEW e \in acc, Fresh(e, u)
               PROVE  \E k \in 1..Len(is(e.matched_nlri, e.nexthop)) :
                        is(e.matched_nlri, e.nexthop)[k] = Sample(e)
    BY DEF Complete
  <2> DEFINE n == e.matched_nlri
             nh == e.nexthop
  <2>1. PICK j \in 1..Len(was(n, nh)) : was(n, nh)[j] = Sample(e)
    BY <1>0 DEF Complete
  <2>2. e.ts_ns \in Nat /\ Sample(e).ts_ns = e.ts_ns
    BY DEF Events, Sample
  <2>3. Fresh(e, t)
    BY <2>2, FreshBefore
  <2>4. Fresh(was(n, nh)[j], t)
    BY <2>1, <2>2, <2>3 DEF Fresh
  <2> QED BY <1>2, <2>1, <2>4
<1>5. Once(p)
  BY <1>0, <1>2 DEF Once
<1> QED BY <1>1, <1>3, <1>4, <1>5 DEF Windowed, p

(* What observe adds is a sample that no list holds. *)
LEMMA PushKeepsWindow ==
  ASSUME NEW table, NEW acc \in SUBSET Events, NEW u \in Nat, Windowed(table, acc, u),
         NEW event \in Events, \A e \in acc : e.id # event.id
  PROVE  Windowed(push_back(table, event.matched_nlri, event.nexthop, Sample(event)),
                  acc \cup {event}, u)
<1> DEFINE n == event.matched_nlri
           nh == event.nexthop
           x == Sample(event)
           p == push_back(table, n, nh, x)
           was(m, h) == SamplesOf(table, m, h)
           is(m, h) == SamplesOf(p, m, h)
           len == Len(was(n, nh))
<1>0. TableTyped(table) /\ Accounted(table, acc) /\ Complete(table, acc, u) /\ Once(table)
  BY DEF Windowed
<1>1. n \in Nlris /\ nh \in Nexthops /\ x \in Samples /\ x.id = event.id
  BY DEF Events, Samples, Sample
<1>2. /\ TableTyped(p)
      /\ is(n, nh) = Append(was(n, nh), x)
      /\ \A m, h : ~(m = n /\ h = nh) => is(m, h) = was(m, h)
  BY <1>0, <1>1, PushBackAppends
<1>3. was(n, nh) \in Seq(Samples)
  BY <1>0, SamplesOfTyped
<1> HIDE DEF p, x
<1>4. /\ len \in Nat /\ Len(is(n, nh)) = len + 1 /\ is(n, nh)[len + 1] = x
      /\ \A k \in 1..len : is(n, nh)[k] = was(n, nh)[k]
  BY <1>1, <1>2, <1>3
<1>5. Accounted(p, acc \cup {event})
  <2> SUFFICES ASSUME NEW m \in Nlris, NEW h \in Nexthops, NEW k \in 1..Len(is(m, h))
               PROVE  \E e \in acc \cup {event} : /\ e.matched_nlri = m /\ e.nexthop = h
                                                  /\ Sample(e) = is(m, h)[k]
    BY DEF Accounted
  <2>1. CASE ~(m = n /\ h = nh)
    <3>1. is(m, h) = was(m, h)
      BY <1>2, <2>1
    <3> QED BY <1>0, <3>1 DEF Accounted
  <2>2. CASE m = n /\ h = nh /\ k \in 1..len
    <3>1. is(m, h)[k] = was(m, h)[k] /\ k \in 1..Len(was(m, h))
      BY <1>4, <2>2
    <3> QED BY <1>0, <3>1 DEF Accounted
  <2>3. CASE m = n /\ h = nh /\ k = len + 1
    BY <1>4, <2>3 DEF x
  <2> QED BY <1>4, <2>1, <2>2, <2>3
<1>6. Complete(p, acc \cup {event}, u)
  <2> SUFFICES ASSUME NEW e \in acc \cup {event}, Fresh(e, u)
               PROVE  \E k \in 1..Len(is(e.matched_nlri, e.nexthop)) :
                        is(e.matched_nlri, e.nexthop)[k] = Sample(e)
    BY DEF Complete
  <2>1. CASE e = event
    <3>1. len + 1 \in 1..Len(is(n, nh))
      BY <1>4
    <3> QED BY <1>4, <2>1, <3>1 DEF x
  <2>2. CASE e \in acc
    <3> DEFINE m == e.matched_nlri
               h == e.nexthop
    <3>1. PICK k \in 1..Len(was(m, h)) : was(m, h)[k] = Sample(e)
      BY <1>0, <2>2 DEF Complete
    <3>2. CASE ~(m = n /\ h = nh)
      BY <1>2, <3>1, <3>2
    <3>3. CASE m = n /\ h = nh
      <4>1. k \in 1..len /\ k \in 1..Len(is(n, nh))
        BY <1>4, <3>1, <3>3
      <4> QED BY <1>4, <3>1, <3>3, <4>1
    <3> QED BY <3>2, <3>3
  <2> QED BY <2>1, <2>2
<1>7. Once(p)
  <2> SUFFICES ASSUME NEW m \in Nlris, NEW h \in Nexthops PROVE DistinctIds(is(m, h))
    BY DEF Once
  <2>1. DistinctIds(was(m, h))
    BY <1>0 DEF Once
  <2>2. CASE ~(m = n /\ h = nh)
    BY <1>2, <2>1, <2>2
  <2>3. CASE m = n /\ h = nh
    <3>1. ASSUME NEW k \in 1..len PROVE was(n, nh)[k].id # x.id
      <4>1. PICK e \in acc : Sample(e) = was(n, nh)[k]
        BY <1>0, <1>1 DEF Accounted
      <4>2. Sample(e).id = e.id
        BY DEF Sample
      <4> QED BY <1>1, <4>1, <4>2
    <3>2. \A k, l \in 1..len : k # l => was(n, nh)[k].id # was(n, nh)[l].id
      BY <2>1, <2>3 DEF DistinctIds
    <3> SUFFICES ASSUME NEW k \in 1..Len(is(n, nh)), NEW l \in 1..Len(is(n, nh)), k # l
                 PROVE  is(n, nh)[k].id # is(n, nh)[l].id
      BY <2>3 DEF DistinctIds
    <3>3. (k \in 1..len \/ k = len + 1) /\ (l \in 1..len \/ l = len + 1)
      BY <1>4
    <3> HIDE DEF is, was, len
    <3> QED BY <1>4, <3>1, <3>2, <3>3
  <2> QED BY <2>2, <2>3
<1> QED BY <1>2, <1>5, <1>6, <1>7 DEF Windowed, p, x

LEMMA InitInvariant == Init => RttInv
<1> SUFFICES ASSUME Init PROVE RttInv
  OBVIOUS
<1>1. samples = Empty /\ accepted = {} /\ DOMAIN samples = {}
  BY DEF Init, Empty
<1>2. TableTyped(samples)
  BY <1>1 DEF TableTyped
<1>3. Types
  <2>1. ringbuf = <<>> /\ ringbuf \in Seq(Events) /\ DOMAIN reader = Readers
    BY DEF Init
  <2> QED BY <1>1, <1>2, <2>1 DEF Init, Types
<1>4. ReadEarlier
  BY DEF Init, ReadEarlier, Idle
<1>5. OneCopy
  BY DEF Init, OneCopy, Idle
<1>6. \A n, nh : SamplesOf(samples, n, nh) = <<>>
  BY <1>1 DEF SamplesOf
<1>7. Accounted(samples, accepted) /\ Complete(samples, accepted, now) /\ Once(samples)
  BY <1>1, <1>6 DEF Accounted, Complete, Once, DistinctIds
<1>8. AllDifferent
  BY <1>1, FS_EmptySet DEF AllDifferent
<1> QED BY <1>2, <1>3, <1>4, <1>5, <1>7, <1>8 DEF RttInv, Windowed

LEMMA AdvanceInvariant == RttInv /\ Advance => RttInv'
<1> SUFFICES ASSUME RttInv, Advance PROVE RttInv'
  OBVIOUS
<1>1. /\ now' = now + 1 /\ now \in Nat
      /\ UNCHANGED <<ringbuf, samples, observer, reader, count, accepted>>
  BY DEF RttInv, Types, Advance
<1>2. Types'
  BY <1>1 DEF RttInv, Types
<1>3. ReadEarlier'
  <2>1. observer.pc = "lock" => observer.now_ns \in Nat
    BY DEF RttInv, Types, Idle
  <2> QED BY <1>1, <2>1 DEF RttInv, ReadEarlier
<1>4. OneCopy'
  BY <1>1 DEF RttInv, OneCopy
<1>5. Windowed(samples, accepted, now + 1)
  <2>1. TableTyped(samples) /\ Accounted(samples, accepted) /\ Complete(samples, accepted, now)
        /\ Once(samples)
    BY DEF RttInv, Windowed
  <2>2. Complete(samples, accepted, now + 1)
    <3>1. ASSUME NEW e \in accepted, Fresh(e, now + 1) PROVE Fresh(e, now)
      <4>1. e.ts_ns \in Nat
        BY DEF RttInv, Types, Events
      <4>2. now \in Nat /\ now + 1 \in Nat /\ now <= now + 1
        BY <1>1
      <4> QED BY <3>1, <4>1, <4>2, FreshBefore
    <3> QED BY <2>1, <3>1 DEF Complete
  <2> QED BY <2>1, <2>2 DEF Windowed
<1>6. AllDifferent'
  BY <1>1 DEF RttInv, AllDifferent
<1> QED BY <1>1, <1>2, <1>3, <1>4, <1>5, <1>6 DEF RttInv

LEMMA EmitInvariant ==
  ASSUME RttInv, NEW n \in Nlris, NEW nh \in Nexthops, NEW ts \in Nat, Emit(n, nh, ts)
  PROVE  RttInv'
<1> DEFINE e == [id |-> count + 1, matched_nlri |-> n, nexthop |-> nh, ts_ns |-> ts]
           len == Len(ringbuf)
<1>1. /\ count' = count + 1 /\ count \in Nat /\ ringbuf \in Seq(Events)
      /\ ringbuf' = Append(ringbuf, e)
      /\ UNCHANGED <<now, samples, observer, reader, accepted>>
  BY DEF RttInv, Types, Emit
<1>2. e \in Events /\ e.id = count + 1
  <2>1. count + 1 \in 1..MaxEvents
    BY <1>1, RttAssumption DEF Emit
  <2> QED BY <2>1 DEF Events
<1> HIDE DEF e
<1>3. /\ ringbuf' \in Seq(Events) /\ len \in Nat /\ Len(ringbuf') = len + 1
      /\ ringbuf'[len + 1] = e /\ \A i \in 1..len : ringbuf'[i] = ringbuf[i]
  BY <1>1, <1>2
<1>4. Types'
  BY <1>1, <1>3 DEF RttInv, Types
<1>5. ReadEarlier'
  BY <1>1 DEF RttInv, ReadEarlier
<1>6. \A i \in 1..len : ringbuf[i].id \in Nat /\ ringbuf[i].id <= count
  <2> SUFFICES ASSUME NEW i \in 1..len PROVE ringbuf[i].id \in Nat /\ ringbuf[i].id <= count
    OBVIOUS
  <2>1. ringbuf[i] \in Events
    BY <1>1
  <2> QED BY <2>1, RttAssumption DEF Events, RttInv, OneCopy
<1>7. \A i \in 1..(len + 1) : \/ i \in 1..len /\ ringbuf'[i] = ringbuf[i]
                              \/ i = len + 1 /\ ringbuf'[i] = e
  BY <1>3
<1>8. \A a \in accepted : a.id \in Nat /\ a.id <= count
  BY RttAssumption DEF RttInv, Types, OneCopy, Events
<1>9. observer.pc = "lock" => observer.event.id \in Nat /\ observer.event.id <= count
  <2> SUFFICES ASSUME observer.pc = "lock"
               PROVE  observer.event.id \in Nat /\ observer.event.id <= count
    OBVIOUS
  <2>1. observer.event \in Events
    BY DEF RttInv, Types, Idle
  <2> QED BY <2>1, RttAssumption DEF Events, RttInv, OneCopy
<1>10. OneCopy'
  <2>1. \A i \in 1..Len(ringbuf') : ringbuf'[i].id <= count'
    BY <1>1, <1>2, <1>3, <1>6, <1>7
  <2>2. \A i, j \in 1..Len(ringbuf') : i # j => ringbuf'[i].id # ringbuf'[j].id
    <3> SUFFICES ASSUME NEW i \in 1..(len + 1), NEW j \in 1..(len + 1), i # j
                 PROVE  ringbuf'[i].id # ringbuf'[j].id
      BY <1>3
    <3>1. \A k, l \in 1..len : k # l => ringbuf[k].id # ringbuf[l].id
      BY DEF RttInv, OneCopy
    <3>2. \A k \in 1..len : ringbuf[k].id # e.id
      BY <1>1, <1>2, <1>6
    <3> HIDE DEF len
    <3> QED BY <1>7, <3>1, <3>2
  <2>3. \A a \in accepted' : a.id <= count' /\ \A i \in 1..Len(ringbuf') : ringbuf'[i].id # a.id
    <3> SUFFICES ASSUME NEW a \in accepted
                 PROVE  a.id <= count + 1 /\ \A i \in 1..(len + 1) : ringbuf'[i].id # a.id
      BY <1>1, <1>3
    <3>1. a.id \in Nat /\ a.id <= count /\ a.id # e.id
      BY <1>1, <1>2, <1>8
    <3>2. \A i \in 1..len : ringbuf[i].id # a.id
      BY DEF RttInv, OneCopy
    <3>3. a.id <= count + 1
      BY <1>1, <3>1
    <3> HIDE DEF len
    <3> QED BY <1>7, <3>1, <3>2, <3>3
  <2>4. ASSUME observer.pc = "lock"
        PROVE  /\ observer.event.id <= count + 1
               /\ \A i \in 1..(len + 1) : ringbuf'[i].id # observer.event.id
               /\ \A a \in accepted : a.id # observer.event.id
    <3>1. observer.event.id \in Nat /\ observer.event.id <= count /\ observer.event.id # e.id
      BY <1>1, <1>2, <1>9, <2>4
    <3>2. \A i \in 1..len : ringbuf[i].id # observer.event.id
      BY <2>4 DEF RttInv, OneCopy
    <3>3. \A a \in accepted : a.id # observer.event.id
      BY <2>4 DEF RttInv, OneCopy
    <3>4. observer.event.id <= count + 1
      BY <1>1, <3>1
    <3> HIDE DEF len
    <3> QED BY <1>7, <3>1, <3>2, <3>3, <3>4
  <2> QED BY <1>1, <1>3, <2>1, <2>2, <2>3, <2>4 DEF OneCopy
<1>11. AllDifferent'
  BY <1>1 DEF RttInv, AllDifferent
<1> QED BY <1>1, <1>4, <1>5, <1>10, <1>11 DEF RttInv

LEMMA ObserveReadsClockInvariant == RttInv /\ ObserveReadsClock => RttInv'
<1> SUFFICES ASSUME RttInv, ObserveReadsClock PROVE RttInv'
  OBVIOUS
<1> DEFINE event == Head(ringbuf)
           taken == [pc |-> "lock", event |-> event, now_ns |-> now]
<1>1. /\ ringbuf \in Seq(Events) /\ ringbuf # <<>> /\ ringbuf' = Tail(ringbuf) /\ now \in Nat
      /\ UNCHANGED <<now, samples, reader, count, accepted>>
  BY DEF RttInv, Types, ObserveReadsClock
<1>2. observer' = taken \/ observer' = Idle
  BY DEF ObserveReadsClock
<1>3. /\ ringbuf' \in Seq(Events) /\ Len(ringbuf) \in Nat /\ Len(ringbuf) >= 1
      /\ Len(ringbuf') = Len(ringbuf) - 1
      /\ \A i \in 1..Len(ringbuf') : ringbuf'[i] = ringbuf[i + 1]
      /\ event = ringbuf[1] /\ event \in Events
  BY <1>1
<1>4. taken.pc = "lock" /\ taken.event = event /\ taken.now_ns = now
      /\ taken \in [pc : {"lock"}, event : Events, now_ns : Nat] /\ Idle.pc = "idle"
  BY <1>1, <1>3 DEF Idle
<1> HIDE DEF taken, event
<1>5. Types'
  <2>1. observer' = Idle \/ observer' \in [pc : {"lock"}, event : Events, now_ns : Nat]
    BY <1>2, <1>4
  <2> QED BY <1>1, <1>3, <2>1 DEF RttInv, Types
<1>6. ReadEarlier'
  <2>1. observer'.pc = "lock" => observer'.now_ns <= now
    BY <1>1, <1>2, <1>4
  <2> QED BY <1>1, <2>1 DEF RttInv, ReadEarlier
<1>7. \A i \in 1..Len(ringbuf') : i + 1 \in 1..Len(ringbuf) /\ i + 1 # 1
  BY <1>3
<1>8. 1 \in 1..Len(ringbuf)
  BY <1>3
<1>9. OneCopy'
  <2>1. \A i \in 1..Len(ringbuf') : ringbuf'[i].id <= count
    BY <1>3, <1>7 DEF RttInv, OneCopy
  <2>2. \A i, j \in 1..Len(ringbuf') : i # j => ringbuf'[i].id # ringbuf'[j].id
    <3> SUFFICES ASSUME NEW i \in 1..Len(ringbuf'), NEW j \in 1..Len(ringbuf'), i # j
                 PROVE  ringbuf'[i].id # ringbuf'[j].id
      OBVIOUS
    <3>1. i + 1 \in 1..Len(ringbuf) /\ j + 1 \in 1..Len(ringbuf) /\ i + 1 # j + 1
      BY <1>3, <1>7
    <3>2. ringbuf[i + 1].id # ringbuf[j + 1].id
      BY <3>1 DEF RttInv, OneCopy
    <3> QED BY <1>3, <3>2
  <2>3. \A e \in accepted : e.id <= count /\ \A i \in 1..Len(ringbuf') : ringbuf'[i].id # e.id
    BY <1>3, <1>7 DEF RttInv, OneCopy
  <2>4. ASSUME observer'.pc = "lock"
        PROVE  /\ observer'.event.id <= count
               /\ \A i \in 1..Len(ringbuf') : ringbuf'[i].id # observer'.event.id
               /\ \A e \in accepted : e.id # observer'.event.id
    <3>1. observer'.event = ringbuf[1]
      BY <1>2, <1>3, <1>4, <2>4
    <3>2. ringbuf[1].id <= count /\ \A e \in accepted : e.id # ringbuf[1].id
      BY <1>8 DEF RttInv, OneCopy
    <3>3. \A i \in 1..Len(ringbuf') : ringbuf'[i].id # ringbuf[1].id
      BY <1>3, <1>7, <1>8 DEF RttInv, OneCopy
    <3> QED BY <3>1, <3>2, <3>3
  <2> QED BY <1>1, <2>1, <2>2, <2>3, <2>4 DEF OneCopy
<1>10. AllDifferent'
  BY <1>1 DEF RttInv, AllDifferent
<1> QED BY <1>1, <1>5, <1>6, <1>9, <1>10 DEF RttInv

LEMMA ObserveInvariant == RttInv /\ Observe => RttInv'
<1> SUFFICES ASSUME RttInv, Observe PROVE RttInv'
  OBVIOUS
<1> DEFINE event == observer.event
           t == observer.now_ns
           pruned == prune(samples, t)
<1>1. observer.pc = "lock" /\ observer' = Idle /\ UNCHANGED <<now, ringbuf, reader, count>>
  BY DEF Observe
<1>2. event \in Events /\ t \in Nat /\ t <= now /\ now \in Nat /\ accepted \in SUBSET Events
  BY <1>1 DEF RttInv, Types, ReadEarlier, Idle
<1>3. Windowed(pruned, accepted, now)
  BY <1>2, PruneKeepsWindow DEF RttInv
<1>4. event.id <= count /\ (\A i \in 1..Len(ringbuf) : ringbuf[i].id # event.id)
      /\ \A e \in accepted : e.id # event.id
  BY <1>1 DEF RttInv, OneCopy
<1>5. \/ samples' = pruned /\ accepted' = accepted
      \/ /\ samples' = push_back(pruned, event.matched_nlri, event.nexthop, Sample(event))
         /\ accepted' = accepted \cup {event}
  BY DEF Observe
<1> HIDE DEF pruned, event, t
<1>6. Windowed(samples', accepted', now)
  BY <1>2, <1>3, <1>4, <1>5, PushKeepsWindow
<1>7. accepted' \subseteq accepted \cup {event}
  BY <1>5
<1>8. observer'.pc = "idle"
  BY <1>1 DEF Idle
<1>9. Types'
  <2>1. accepted' \subseteq Events
    BY <1>2, <1>7
  <2>2. TableTyped(samples')
    BY <1>6 DEF Windowed
  <2> QED BY <1>1, <2>1, <2>2 DEF RttInv, Types
<1>10. ReadEarlier'
  BY <1>1, <1>8 DEF RttInv, ReadEarlier
<1>11. OneCopy'
  BY <1>1, <1>4, <1>7, <1>8 DEF RttInv, OneCopy
<1>12. AllDifferent'
  <2>1. IsFiniteSet(accepted) /\ \A e, f \in accepted : e.id = f.id => e = f
    BY DEF RttInv, AllDifferent
  <2>2. IsFiniteSet(accepted \cup {event})
    BY <2>1, FS_AddElement
  <2>3. IsFiniteSet(accepted')
    BY <1>7, <2>2, FS_Subset
  <2>4. \A e, f \in accepted' : e.id = f.id => e = f
    BY <1>4, <1>7, <2>1
  <2> QED BY <2>3, <2>4 DEF AllDifferent
<1> QED BY <1>1, <1>6, <1>9, <1>10, <1>11, <1>12 DEF RttInv

(* A reader's step, which changes no more than the table. *)
LEMMA ReaderInvariant ==
  ASSUME RttInv, NEW r \in Readers, NEW x, reader' = [reader EXCEPT ![r] = x],
         x.pc = "lock" => x.now_ns \in Nat /\ x.now_ns <= now,
         Windowed(samples', accepted, now),
         UNCHANGED <<now, ringbuf, observer, count, accepted>>
  PROVE  RttInv'
<1>1. DOMAIN reader = Readers
  BY DEF RttInv, Types
<1>2. DOMAIN reader' = Readers /\ reader'[r] = x /\ \A q \in Readers : q # r => reader'[q] = reader[q]
  BY <1>1
<1>3. Types'
  <2>1. TableTyped(samples')
    BY DEF Windowed
  <2> QED BY <1>2, <2>1 DEF RttInv, Types
<1>4. ReadEarlier'
  BY <1>2 DEF RttInv, ReadEarlier
<1>5. OneCopy'
  BY DEF RttInv, OneCopy
<1>6. AllDifferent'
  BY DEF RttInv, AllDifferent
<1> QED BY <1>3, <1>4, <1>5, <1>6 DEF RttInv

LEMMA SnapshotReadsClockInvariant ==
  ASSUME RttInv, NEW r \in Readers, SnapshotReadsClock(r)
  PROVE  RttInv'
<1> DEFINE x == [pc |-> "lock", now_ns |-> now]
<1>1. reader' = [reader EXCEPT ![r] = x] /\ UNCHANGED <<now, ringbuf, samples, observer, count, accepted>>
  BY DEF SnapshotReadsClock
<1>2. x.now_ns \in Nat /\ x.now_ns <= now
  BY DEF RttInv, Types
<1>3. Windowed(samples', accepted, now)
  BY <1>1 DEF RttInv
<1> HIDE DEF x
<1> QED BY <1>1, <1>2, <1>3, ReaderInvariant

LEMMA SnapshotInvariant ==
  ASSUME RttInv, NEW r \in Readers, Snapshot(r)
  PROVE  RttInv'
<1> DEFINE x == [pc |-> "have", now_ns |-> reader[r].now_ns, windows |-> windowsOf(samples')]
<1>1. /\ reader' = [reader EXCEPT ![r] = x] /\ UNCHANGED <<now, ringbuf, observer, count, accepted>>
      /\ samples' = prune(samples, reader[r].now_ns)
  BY DEF Snapshot
<1>2. /\ reader[r].now_ns \in Nat /\ reader[r].now_ns <= now /\ now \in Nat
      /\ accepted \in SUBSET Events
  BY DEF Snapshot, RttInv, Types, ReadEarlier
<1>3. Windowed(samples', accepted, now)
  BY <1>1, <1>2, PruneKeepsWindow DEF RttInv
<1>4. x.pc # "lock"
  OBVIOUS
<1> HIDE DEF x
<1> QED BY <1>1, <1>3, <1>4, ReaderInvariant

LEMMA ReleaseInvariant ==
  ASSUME RttInv, NEW r \in Readers, Release(r)
  PROVE  RttInv'
<1>1. reader' = [reader EXCEPT ![r] = Idle]
      /\ UNCHANGED <<now, ringbuf, samples, observer, count, accepted>>
  BY DEF Release
<1>2. Idle.pc # "lock"
  BY DEF Idle
<1>3. Windowed(samples', accepted, now)
  BY <1>1 DEF RttInv
<1> QED BY <1>1, <1>2, <1>3, ReaderInvariant

LEMMA NextInvariant == RttInv /\ [Next]_vars => RttInv'
<1> SUFFICES ASSUME RttInv, [Next]_vars PROVE RttInv'
  OBVIOUS
<1>1. CASE Advance
  BY <1>1, AdvanceInvariant
<1>2. CASE \E n \in Nlris, nh \in Nexthops, ts \in {t \in {now - 1, now} : t >= 0} : Emit(n, nh, ts)
  <2>1. PICK n \in Nlris, nh \in Nexthops, ts \in {t \in {now - 1, now} : t >= 0} : Emit(n, nh, ts)
    BY <1>2
  <2>2. ts \in Nat
    BY DEF RttInv, Types
  <2> QED BY <2>1, <2>2, EmitInvariant
<1>3. CASE ObserveReadsClock
  BY <1>3, ObserveReadsClockInvariant
<1>4. CASE Observe
  BY <1>4, ObserveInvariant
<1>5. CASE \E r \in Readers : SnapshotReadsClock(r)
  BY <1>5, SnapshotReadsClockInvariant
<1>6. CASE \E r \in Readers : Snapshot(r)
  BY <1>6, SnapshotInvariant
<1>7. CASE \E r \in Readers : Release(r)
  BY <1>7, ReleaseInvariant
<1>8. CASE UNCHANGED vars
  BY <1>8 DEF vars, RttInv, Types, ReadEarlier, OneCopy, AllDifferent
<1> QED BY <1>1, <1>2, <1>3, <1>4, <1>5, <1>6, <1>7, <1>8 DEF Next

LEMMA RttInvariant == Spec => []RttInv
BY InitInvariant, NextInvariant, PTL DEF Spec

---------------------------------------------------------------------------
(* The theorems. *)

(* prune leaves no nexthop without samples and no NLRI without nexthops, so *)
(* that a snapshot holds no window of zeros, which the descent would take   *)
(* for the fastest path.                                                    *)
THEOREM NoWindowIsEmpty == Spec => []NoEmptyWindow
<1>1. RttInv => NoEmptyWindow
  BY DEF RttInv, Types, TableTyped, NoEmptyWindow
<1> QED BY <1>1, RttInvariant, PTL

(* Whichever thread prunes last, and with however old a clock reading: the  *)
(* table holds every accepted sample that is inside the window now, under   *)
(* the nexthop it was measured on, and holds none twice.                    *)
THEOREM FreshSamplesStay == Spec => []NoFreshSampleLost
<1>1. RttInv => NoFreshSampleLost
  <2> SUFFICES ASSUME RttInv, NEW n \in Nlris, NEW nh \in Nexthops
               PROVE  /\ Cardinality(Held(n, nh)) = Len(SamplesOf(samples, n, nh))
                      /\ \A e \in accepted :
                           e.matched_nlri = n /\ e.nexthop = nh /\ Fresh(e, now) => e.id \in Held(n, nh)
                      /\ \A i \in Held(n, nh) : \E e \in accepted :
                           e.id = i /\ e.matched_nlri = n /\ e.nexthop = nh
    BY DEF NoFreshSampleLost
  <2> DEFINE s == SamplesOf(samples, n, nh)
             len == Len(s)
  <2>1. s \in Seq(Samples)
    BY SamplesOfTyped DEF RttInv, Types
  <2>2. /\ Accounted(samples, accepted) /\ Complete(samples, accepted, now) /\ Once(samples)
    BY DEF RttInv, Windowed
  <2>3. len \in Nat /\ DOMAIN s = 1..len
    BY <2>1
  <2>4. Held(n, nh) = {s[i].id : i \in 1..len}
    BY <2>3 DEF Held
  <2>5. DistinctIds(s)
    BY <2>2 DEF Once
  <2>6. \A e \in accepted :
          e.matched_nlri = n /\ e.nexthop = nh /\ Fresh(e, now) => e.id \in Held(n, nh)
    <3> SUFFICES ASSUME NEW e \in accepted, e.matched_nlri = n, e.nexthop = nh, Fresh(e, now)
                 PROVE  e.id \in Held(n, nh)
      OBVIOUS
    <3>1. PICK k \in 1..len : s[k] = Sample(e)
      BY <2>2 DEF Complete
    <3>2. s[k].id = e.id
      BY <3>1 DEF Sample
    <3> QED BY <2>4, <3>2
  <2>7. \A i \in Held(n, nh) : \E e \in accepted :
          e.id = i /\ e.matched_nlri = n /\ e.nexthop = nh
    <3> SUFFICES ASSUME NEW k \in 1..len
                 PROVE  \E e \in accepted :
                          e.id = s[k].id /\ e.matched_nlri = n /\ e.nexthop = nh
      BY <2>4
    <3>1. PICK e \in accepted : /\ e.matched_nlri = n /\ e.nexthop = nh /\ Sample(e) = s[k]
      BY <2>2 DEF Accounted
    <3>2. Sample(e).id = e.id
      BY DEF Sample
    <3> QED BY <3>1, <3>2
  <2>8. Cardinality(Held(n, nh)) = len
    <3> DEFINE f == [i \in 1..len |-> s[i].id]
               H == {s[i].id : i \in 1..len}
    <3>1. f \in [1..len -> H] /\ \A i \in 1..len : f[i] = s[i].id
      OBVIOUS
    <3>2. \A y \in H : \E i \in 1..len : y = s[i].id
      OBVIOUS
    <3> HIDE DEF f, H, s, len
    <3>3. \A i, j \in 1..len : f[i] = f[j] => i = j
      BY <2>5, <3>1 DEF DistinctIds, len
    <3>4. f \in Injection(1..len, H)
      BY <3>1, <3>3 DEF Injection, IsInjective
    <3>5. f \in Surjection(1..len, H)
      BY <3>1, <3>2 DEF Surjection
    <3>6. ExistsBijection(1..len, H)
      BY <3>4, <3>5 DEF ExistsBijection, Bijection
    <3>7. Cardinality(H) = len
      BY <2>3, <3>6, FS_CountingElements
    <3> QED BY <2>4, <3>7 DEF H
  <2> QED BY <2>6, <2>7, <2>8
<1> QED BY <1>1, RttInvariant, PTL

(* A pruned list holds the accepted samples that were fresh at the clock    *)
(* reading it was pruned with, and no others: as many as there are events   *)
(* fresh now, or more, and no more than were fresh then.                    *)
LEMMA PrunedCounts ==
  ASSUME RttInv, NEW t \in Nat, t <= now, NEW n \in Nlris, NEW nh \in Nexthops,
         NEW s, s = SamplesOf(prune(samples, t), n, nh),
         NEW young, young = FreshOf(n, nh, now),
         NEW then, then = FreshOf(n, nh, t)
  PROVE  /\ Len(s) \in Cardinality(young) .. Cardinality(then)
         /\ \A k \in 1..Len(s) : \E e \in then : e.id = s[k].id
<1> DEFINE p == prune(samples, t)
           w == SamplesOf(samples, n, nh)
           len == Len(s)
<1>1. now \in Nat /\ accepted \in SUBSET Events /\ Windowed(samples, accepted, now)
  BY DEF RttInv, Types
<1>2. Windowed(p, accepted, now)
  BY <1>1, PruneKeepsWindow
<1>3. TableTyped(samples) /\ TableTyped(p) /\ Accounted(p, accepted)
      /\ Complete(p, accepted, now) /\ Once(p)
  BY <1>1, <1>2 DEF Windowed
<1>4. s \in Seq(Samples) /\ w \in Seq(Samples) /\ s = retain(w, t)
  BY <1>3, SamplesOfTyped, PruneRetains
<1>5. len \in Nat
  BY <1>4
<1>6. DistinctIds(s)
  BY <1>3 DEF Once
<1>7. IsFiniteSet(accepted) /\ \A e, f \in accepted : e.id = f.id => e = f
  BY DEF RttInv, AllDifferent
<1>8. IsFiniteSet(young) /\ IsFiniteSet(then)
  <2>1. young \subseteq accepted /\ then \subseteq accepted
    BY DEF FreshOf
  <2> QED BY <1>7, <2>1, FS_Subset
<1>9. Cardinality(young) \in Nat /\ Cardinality(then) \in Nat
  BY <1>8, FS_CardinalityType
<1>10. ASSUME NEW k \in 1..len PROVE \E e \in then : Sample(e) = s[k]
  <2>1. \A i \in 1..Len(retain(w, t)) :
          \E j \in 1..Len(w) : retain(w, t)[i] = w[j] /\ Fresh(w[j], t)
    BY <1>4, RetainProperties
  <2>2. PICK j \in 1..Len(w) : s[k] = w[j] /\ Fresh(w[j], t)
    BY <1>4, <2>1
  <2>3. PICK e \in accepted : e.matched_nlri = n /\ e.nexthop = nh /\ Sample(e) = s[k]
    BY <1>3 DEF Accounted
  <2>4. Fresh(e, t)
    BY <2>2, <2>3 DEF Fresh, Sample
  <2> QED BY <2>3, <2>4 DEF FreshOf
<1>11. ASSUME NEW e \in young PROVE \E k \in 1..len : s[k] = Sample(e)
  <2>1. e \in accepted /\ e.matched_nlri = n /\ e.nexthop = nh /\ Fresh(e, now)
    BY DEF FreshOf
  <2> QED BY <1>3, <2>1 DEF Complete
<1>12. \A e : Sample(e).id = e.id
  BY DEF Sample
<1>13. young \subseteq accepted /\ then \subseteq accepted
  BY DEF FreshOf
<1> HIDE DEF len
<1>14. Cardinality(young) <= len
  <2> DEFINE f == [e \in young |-> CHOOSE k \in 1..len : s[k] = Sample(e)]
  <2>1. \A e \in young : f[e] \in 1..len /\ s[f[e]] = Sample(e)
    BY <1>11
  <2>2. f \in [young -> 1..len]
    BY <1>11
  <2> HIDE DEF f
  <2>3. ASSUME NEW d \in young, NEW e \in young, f[d] = f[e] PROVE d = e
    <3>1. Sample(d) = Sample(e)
      BY <2>1, <2>3
    <3>2. d.id = e.id
      BY <1>12, <3>1
    <3> QED BY <1>7, <1>13, <3>2
  <2>4. f \in Injection(young, 1..len)
    BY <2>2, <2>3 DEF Injection, IsInjective
  <2>5. IsFiniteSet(1..len) /\ Cardinality(1..len) = len
    BY <1>5, FS_Interval
  <2> QED BY <2>4, <2>5, FS_Injection
<1>15. len <= Cardinality(then)
  <2> DEFINE f == [k \in 1..len |-> CHOOSE e \in then : Sample(e) = s[k]]
  <2>1. \A k \in 1..len : f[k] \in then /\ Sample(f[k]) = s[k]
    BY <1>10
  <2>2. f \in [1..len -> then]
    BY <1>10
  <2> HIDE DEF f
  <2>3. ASSUME NEW k \in 1..len, NEW l \in 1..len, f[k] = f[l] PROVE k = l
    <3>1. s[k] = s[l]
      BY <2>1, <2>3
    <3> QED BY <1>6, <3>1 DEF DistinctIds, len
  <2>4. f \in Injection(1..len, then)
    BY <2>2, <2>3 DEF Injection, IsInjective
  <2>5. Cardinality(1..len) = len
    BY <1>5, FS_Interval
  <2> QED BY <1>8, <2>4, <2>5, FS_Injection
<1>16. len \in Cardinality(young) .. Cardinality(then)
  BY <1>5, <1>9, <1>14, <1>15
<1>17. \A k \in 1..len : \E e \in then : e.id = s[k].id
  BY <1>10, <1>12
<1> QED BY <1>16, <1>17 DEF len

(* A snapshot has a window for every nexthop with a sample that is fresh    *)
(* when it ends. A window counts all of those and none that was stale when  *)
(* the caller read the clock, and its average lies between a sample it      *)
(* counts and its maximum: however long the caller has waited for the mutex *)
(* and whoever pruned meanwhile.                                            *)
THEOREM SnapshotsCountTheWindow == Spec => SnapshotCountsTheWindow
<1> DEFINE has(windows, n, nh) == n \in DOMAIN windows /\ nh \in DOMAIN windows[n]
           Counted == \A r \in Readers : reader[r].pc = "lock" /\ reader'[r].pc = "have" =>
                        CountsTheWindow(reader'[r].windows, reader[r].now_ns)
<1>1. ASSUME RttInv, NEW t \in Nat, t <= now, NEW n \in Nlris, NEW nh \in Nexthops
      PROVE  LET windows == windowsOf(prune(samples, t)) IN
             /\ FreshOf(n, nh, now) # {} => has(windows, n, nh)
             /\ has(windows, n, nh) =>
                  /\ windows[n][nh].samples \in
                       Cardinality(FreshOf(n, nh, now)) .. Cardinality(FreshOf(n, nh, t))
                  /\ windows[n][nh].avg_srtt_us <= windows[n][nh].max_srtt_us
                  /\ \E e \in FreshOf(n, nh, t) : Srtt[e.id] <= windows[n][nh].avg_srtt_us
  <2> DEFINE p == prune(samples, t)
             windows == windowsOf(p)
             s == SamplesOf(p, n, nh)
             young == FreshOf(n, nh, now)
             then == FreshOf(n, nh, t)
  <2>1. TableTyped(p)
    BY <1>1, PruneRetains DEF RttInv, Types
  <2>2. s \in Seq(Samples)
    BY <2>1, SamplesOfTyped
  <2>3. Len(s) \in Cardinality(young) .. Cardinality(then)
        /\ \A k \in 1..Len(s) : \E e \in then : e.id = s[k].id
    BY <1>1, PrunedCounts
  <2>4. DOMAIN windows = DOMAIN p
        /\ \A m \in DOMAIN p : DOMAIN windows[m] = DOMAIN p[m]
                               /\ \A h \in DOMAIN p[m] : windows[m][h] = from_samples(p[m][h])
    BY DEF windowsOf
  <2>5. has(windows, n, nh) <=> n \in DOMAIN p /\ nh \in DOMAIN p[n]
    BY <2>4
  <2> HIDE DEF p, windows
  <2>6. has(windows, n, nh) => s # <<>> /\ windows[n][nh] = from_samples(s)
    BY <2>1, <2>4, <2>5 DEF SamplesOf, TableTyped
  <2>7. ~has(windows, n, nh) => s = <<>>
    BY <2>5 DEF SamplesOf
  <2> HIDE DEF s, young, then, has
  <2>8. young # {} => has(windows, n, nh)
    <3> SUFFICES ASSUME young # {}, s = <<>> PROVE FALSE
      BY <2>7
    <3>1. IsFiniteSet(accepted) /\ young \subseteq accepted
      BY <1>1 DEF RttInv, AllDifferent, young, FreshOf
    <3>2. IsFiniteSet(young)
      BY <3>1, FS_Subset
    <3>3. Cardinality(young) \in Nat /\ Cardinality(young) # 0
      BY <3>2, FS_CardinalityType, FS_EmptySet
    <3>4. Len(s) = 0
      OBVIOUS
    <3> QED BY <2>3, <3>3, <3>4
  <2>9. ASSUME has(windows, n, nh)
        PROVE  /\ windows[n][nh].samples \in Cardinality(young) .. Cardinality(then)
               /\ windows[n][nh].avg_srtt_us <= windows[n][nh].max_srtt_us
               /\ \E e \in then : Srtt[e.id] <= windows[n][nh].avg_srtt_us
    <3>1. s # <<>> /\ windows[n][nh] = from_samples(s)
      BY <2>6, <2>9
    <3>2. /\ from_samples(s).samples = Len(s)
          /\ from_samples(s).avg_srtt_us <= from_samples(s).max_srtt_us
      BY <2>2, <3>1, FromSamples
    <3>3. PICK k \in 1..Len(s) : Srtt[s[k].id] <= from_samples(s).avg_srtt_us
      BY <2>2, <3>1, FromSamples
    <3>4. PICK e \in then : e.id = s[k].id
      BY <2>3
    <3>5. Srtt[e.id] <= windows[n][nh].avg_srtt_us
      BY <3>1, <3>3, <3>4
    <3> QED BY <2>3, <3>1, <3>2, <3>5
  <2> QED BY <2>8, <2>9 DEF young, then, windows, p
<1>2. RttInv /\ [Next]_vars => [Counted]_vars
  <2> SUFFICES ASSUME RttInv, Next, NEW r \in Readers, reader[r].pc = "lock", reader'[r].pc = "have"
               PROVE  CountsTheWindow(reader'[r].windows, reader[r].now_ns)
    OBVIOUS
  <2>1. DOMAIN reader = Readers /\ reader[r].now_ns \in Nat /\ reader[r].now_ns <= now
    BY DEF RttInv, Types, ReadEarlier
  <2>2. Snapshot(r)
    <3>1. CASE reader' = reader
      BY <3>1
    <3>2. CASE \E q \in Readers : SnapshotReadsClock(q)
      BY <2>1, <3>2 DEF SnapshotReadsClock
    <3>3. CASE \E q \in Readers : Release(q)
      BY <2>1, <3>3 DEF Release, Idle
    <3>4. CASE \E q \in Readers : Snapshot(q)
      <4>1. PICK q \in Readers : Snapshot(q)
        BY <3>4
      <4>2. q = r
        BY <2>1, <4>1 DEF Snapshot
      <4> QED BY <4>1, <4>2
    <3>5. \/ reader' = reader
          \/ \E q \in Readers : SnapshotReadsClock(q)
          \/ \E q \in Readers : Snapshot(q)
          \/ \E q \in Readers : Release(q)
      BY DEF Next, Advance, Emit, ObserveReadsClock, Observe
    <3> QED BY <3>1, <3>2, <3>3, <3>4, <3>5
  <2>3. reader'[r].windows = windowsOf(prune(samples, reader[r].now_ns))
    BY <2>1, <2>2 DEF Snapshot
  <2> DEFINE t == reader[r].now_ns
  <2> HIDE DEF t
  <2>4. t \in Nat /\ t <= now
    BY <2>1 DEF t
  <2>5. CountsTheWindow(windowsOf(prune(samples, t)), t)
    BY <1>1, <2>4 DEF CountsTheWindow
  <2> QED BY <2>3, <2>5 DEF t
<1> QED BY <1>2, RttInvariant, PTL DEF Spec, SnapshotCountsTheWindow
============================================================================
