-------------------------- MODULE BgpUpdatesProofs --------------------------
(***************************************************************************)
(* Proofs about the way of an UPDATE from its peer to the RIB, for every    *)
(* set of peers, routes and messages and every capacity of the channel: a   *)
(* message without repeated attributes is passed on with its meaning, and   *)
(* the queues and tasks implement RouteFeed.                                *)
(***************************************************************************)
EXTENDS BgpUpdates, SequenceTheorems, FiniteSetTheorems, TLAPS

(* A set of numbers that is not empty has a least one. *)
LEMMA Least ==
  ASSUME NEW T \in SUBSET Nat, T # {}
  PROVE  \E x \in T : \A y \in T : x <= y
<1> DEFINE Less == {ss \in Nat \X Nat : ss[1] < ss[2]}
<1>1. IsWellFoundedOn(Less, Nat)
  BY NatLessThanWellFounded DEF OpToRel
<1> HIDE DEF Less
<1>2. PICK x \in T : \A y \in T : ~(<<y, x>> \in Less)
  BY <1>1, WFMin
<1>3. ASSUME NEW y \in T PROVE x <= y
  <2>1. x \in Nat /\ y \in Nat
    OBVIOUS
  <2>2. ~(<<y, x>> \in Nat \X Nat /\ <<y, x>>[1] < <<y, x>>[2])
    BY <1>2 DEF Less
  <2> QED BY <2>1, <2>2
<1> QED BY <1>3

(* Induction up to n, over a set of the numbers that have a property. *)
LEMMA InductUpTo ==
  ASSUME NEW n \in Nat, NEW G, 0 \in G, \A i \in 1..n : i - 1 \in G => i \in G
  PROVE  \A i \in 0..n : i \in G
<1> DEFINE T == {i \in 0..n : i \notin G}
<1> SUFFICES ASSUME T # {} PROVE FALSE
  OBVIOUS
<1>1. T \in SUBSET Nat
  OBVIOUS
<1>2. PICK x \in T : \A y \in T : x <= y
  BY <1>1, Least
<1>3. x \in 1..n /\ x - 1 \in 0..n /\ x \notin G
  OBVIOUS
<1>4. x - 1 \notin G
  BY <1>3
<1>5. x - 1 \in T
  BY <1>3, <1>4
<1> QED BY <1>2, <1>3, <1>5

---------------------------------------------------------------------------
(* FlattenSeq. *)

(* Concatenation, under a name: the provers reason about the recursion      *)
(* without looking into it.                                                 *)
Join(s, t) == s \o t

(* The equation that the partial concatenations satisfy. *)
Partial(f, s, n) ==
  /\ DOMAIN f = 1..n
  /\ f[1] = s[1]
  /\ \A i \in 2..n : f[i] = Join(f[i - 1], s[i])

(* The equation has a solution. *)
LEMMA PartialExists ==
  ASSUME NEW s, NEW n \in Nat, n > 0
  PROVE  \E f : Partial(f, s, n)
<1> DEFINE G == {m \in Nat : \E f : Partial(f, s, m + 1)}
<1>1. 0 \in G
  <2> DEFINE f == [i \in 1..1 |-> s[1]]
  <2>1. Partial(f, s, 0 + 1)
    BY DEF Partial
  <2> QED BY <2>1
<1>2. ASSUME NEW m \in 1..(n - 1), m - 1 \in G PROVE m \in G
  <2>1. PICK f : Partial(f, s, m)
    BY <1>2
  <2> DEFINE g == [j \in 1..(m + 1) |-> IF j = m + 1 THEN Join(f[m], s[m + 1]) ELSE f[j]]
  <2>2. DOMAIN f = 1..m /\ f[1] = s[1] /\ \A j \in 2..m : f[j] = Join(f[j - 1], s[j])
    BY <2>1 DEF Partial
  <2>3. DOMAIN g = 1..(m + 1) /\ g[m + 1] = Join(f[m], s[m + 1]) /\ \A j \in 1..m : g[j] = f[j]
    OBVIOUS
  <2> HIDE DEF g
  <2>4. g[1] = s[1]
    BY <2>2, <2>3
  <2>5. ASSUME NEW j \in 2..(m + 1)
        PROVE  g[j] = Join(g[j - 1], s[j])
    <3>1. CASE j = m + 1
      <4>1. g[m] = f[m] /\ j - 1 = m
        BY <2>3, <3>1
      <4> QED BY <2>3, <3>1, <4>1
    <3>2. CASE j # m + 1
      <4>1. j \in 2..m /\ j \in 1..m /\ j - 1 \in 1..m
        BY <3>2
      <4>2. g[j] = f[j] /\ g[j - 1] = f[j - 1]
        BY <2>3, <4>1
      <4>3. f[j] = Join(f[j - 1], s[j])
        BY <2>2, <4>1
      <4> QED BY <4>2, <4>3
    <3> QED BY <3>1, <3>2
  <2>6. Partial(g, s, m + 1)
    BY <2>3, <2>4, <2>5 DEF Partial
  <2> QED BY <2>6
<1> HIDE DEF G
<1>3. \A i \in 0..(n - 1) : i \in G
  BY <1>1, <1>2, InductUpTo
<1>4. n - 1 \in G /\ (n - 1) + 1 = n
  BY <1>3
<1> QED BY <1>4 DEF G

(* FlattenSeq takes the last value of a solution. *)
LEMMA FlattenIsPartial ==
  ASSUME NEW s, Len(s) \in Nat, Len(s) > 0
  PROVE  \E f : Partial(f, s, Len(s)) /\ FlattenSeq(s) = f[Len(s)]
<1> DEFINE n == Len(s)
           body(f) == [i \in 1..n |-> IF i = 1 THEN s[i] ELSE Join(f[i - 1], s[i])]
           F == CHOOSE f : f = body(f)
<1>1. PICK f : Partial(f, s, n)
  BY PartialExists
<1>2. \E g : g = body(g)
  <2> DEFINE g == [i \in 1..n |-> f[i]]
  <2>0. DOMAIN g = 1..n /\ \A i \in 1..n : g[i] = f[i]
    OBVIOUS
  <2>1. ASSUME NEW i \in 1..n
        PROVE  g[i] = IF i = 1 THEN s[i] ELSE Join(g[i - 1], s[i])
    <3>1. CASE i = 1
      BY <1>1, <2>0, <3>1 DEF Partial
    <3>2. CASE i # 1
      <4>1. i \in 2..n /\ i - 1 \in 1..n
        BY <3>2
      <4>2. g[i] = f[i] /\ g[i - 1] = f[i - 1]
        BY <2>0, <4>1
      <4>3. f[i] = Join(f[i - 1], s[i])
        BY <1>1, <4>1 DEF Partial
      <4> QED BY <3>2, <4>2, <4>3
    <3> QED BY <3>1, <3>2
  <2>2. g = body(g)
    <3>1. body(g) = [i \in 1..n |-> g[i]]
      BY <2>1
    <3> QED BY <3>1
  <2> QED BY <2>2
<1>3. F = body(F)
  <2> HIDE DEF body
  <2> QED BY <1>2
<1>4. FlattenSeq(s) = F[n]
  BY DEF FlattenSeq, Join
<1> HIDE DEF F
<1>5. Partial(F, s, n)
  <2> DEFINE b == body(F)
  <2>1. DOMAIN b = 1..n /\ \A i \in 1..n : b[i] = IF i = 1 THEN s[i] ELSE Join(F[i - 1], s[i])
    OBVIOUS
  <2>2. F = b
    BY <1>3
  <2> HIDE DEF b
  <2>3. DOMAIN F = 1..n /\ \A i \in 1..n : F[i] = IF i = 1 THEN s[i] ELSE Join(F[i - 1], s[i])
    BY <2>1, <2>2
  <2>4. F[1] = s[1]
    BY <2>3
  <2>5. ASSUME NEW i \in 2..n PROVE F[i] = Join(F[i - 1], s[i])
    <3>1. i \in 1..n /\ i # 1
      OBVIOUS
    <3> QED BY <2>3, <3>1
  <2> QED BY <2>3, <2>4, <2>5 DEF Partial
<1> QED BY <1>4, <1>5

(* Partial concatenations are sequences of the same elements. *)
LEMMA PartialType ==
  ASSUME NEW D, NEW s \in Seq(Seq(D)), NEW f, Len(s) > 0, Partial(f, s, Len(s))
  PROVE  \A i \in 1..Len(s) : f[i] \in Seq(D)
<1> DEFINE n == Len(s)
           G == {m \in Nat : m = 0 \/ f[m] \in Seq(D)}
<1>1. n \in Nat /\ \A i \in 1..n : s[i] \in Seq(D)
  BY LenProperties, ElementOfSeq
<1>2. 0 \in G
  OBVIOUS
<1>3. ASSUME NEW i \in 1..n, i - 1 \in G PROVE i \in G
  <2>1. CASE i = 1
    BY <1>1, <2>1 DEF Partial
  <2>2. CASE i # 1
    <3>1. i \in 2..n /\ f[i - 1] \in Seq(D) /\ s[i] \in Seq(D)
      BY <1>1, <1>3, <2>2
    <3>2. f[i] = Join(f[i - 1], s[i])
      BY <3>1 DEF Partial
    <3>3. Join(f[i - 1], s[i]) \in Seq(D)
      BY <3>1, ConcatProperties DEF Join
    <3> QED BY <3>2, <3>3
  <2> QED BY <2>1, <2>2
<1> HIDE DEF G
<1>4. \A i \in 0..n : i \in G
  BY <1>1, <1>2, <1>3, InductUpTo
<1> QED BY <1>1, <1>4 DEF G

LEMMA FlattenEmpty == FlattenSeq(<<>>) = <<>>
BY DEF FlattenSeq

LEMMA FlattenType ==
  ASSUME NEW D, NEW s \in Seq(Seq(D))
  PROVE  FlattenSeq(s) \in Seq(D)
<1>1. Len(s) \in Nat
  BY LenProperties
<1>2. CASE Len(s) = 0
  <2>1. s = <<>>
    BY <1>2, EmptySeq
  <2> QED BY <2>1, FlattenEmpty, EmptySeq
<1>3. CASE Len(s) > 0
  <2>1. PICK f : Partial(f, s, Len(s)) /\ FlattenSeq(s) = f[Len(s)]
    BY <1>1, <1>3, FlattenIsPartial
  <2>2. \A i \in 1..Len(s) : f[i] \in Seq(D)
    BY <1>3, <2>1, PartialType
  <2> QED BY <1>1, <1>3, <2>1, <2>2
<1> QED BY <1>1, <1>2, <1>3

LEMMA JoinAssociative ==
  ASSUME NEW D, NEW s \in Seq(D), NEW t \in Seq(D), NEW u \in Seq(D)
  PROVE  Join(Join(s, t), u) = Join(s, Join(t, u))
<1>1. (s \o t) \o u = s \o (t \o u)
  BY ConcatAssociative
<1> QED BY <1>1 DEF Join

LEMMA FlattenAppend ==
  ASSUME NEW D, NEW s \in Seq(Seq(D)), NEW x \in Seq(D)
  PROVE  FlattenSeq(Append(s, x)) = FlattenSeq(s) \o x
<1> DEFINE n == Len(s)
           t == Append(s, x)
<1>1. n \in Nat /\ t \in Seq(Seq(D)) /\ Len(t) = n + 1 /\ t[n + 1] = x
      /\ \A i \in 1..n : t[i] = s[i]
  BY LenProperties, AppendProperties
<1> HIDE DEF t
<1>2. PICK g : Partial(g, t, n + 1) /\ FlattenSeq(t) = g[n + 1]
  <2>1. Len(t) \in Nat /\ Len(t) > 0
    BY <1>1
  <2>2. PICK g : Partial(g, t, Len(t)) /\ FlattenSeq(t) = g[Len(t)]
    BY <2>1, FlattenIsPartial
  <2> QED BY <1>1, <2>2
<1>3. CASE n = 0
  <2>1. s = <<>>
    BY <1>3, EmptySeq
  <2>2. g[n + 1] = x
    BY <1>1, <1>2, <1>3 DEF Partial
  <2>3. <<>> \o x = x
    BY ConcatEmptySeq
  <2> QED BY <1>2, <2>1, <2>2, <2>3, FlattenEmpty DEF t
<1>4. CASE n > 0
  <2>1. PICK f : Partial(f, s, n) /\ FlattenSeq(s) = f[n]
    BY <1>1, <1>4, FlattenIsPartial
  <2> DEFINE G == {m \in Nat : m = 0 \/ g[m] = f[m]}
  <2>2. ASSUME NEW i \in 1..n, i - 1 \in G PROVE i \in G
    <3>1. CASE i = 1
      BY <1>1, <1>2, <2>1, <3>1 DEF Partial
    <3>2. CASE i # 1
      <4>1. i \in 2..n /\ i \in 2..(n + 1)
        BY <1>1, <3>2
      <4>2. g[i - 1] = f[i - 1]
        BY <2>2, <3>2
      <4>3. f[i] = Join(f[i - 1], s[i]) /\ g[i] = Join(g[i - 1], t[i])
        BY <1>2, <2>1, <4>1 DEF Partial
      <4>4. t[i] = s[i]
        BY <1>1
      <4> QED BY <4>2, <4>3, <4>4
    <3> QED BY <3>1, <3>2
  <2>3. 0 \in G
    OBVIOUS
  <2> HIDE DEF G
  <2>4. \A i \in 0..n : i \in G
    BY <1>1, <2>2, <2>3, InductUpTo
  <2>5. g[n] = f[n]
    BY <1>1, <1>4, <2>4 DEF G
  <2>6. n + 1 \in 2..(n + 1) /\ (n + 1) - 1 = n
    BY <1>1, <1>4
  <2>7. g[n + 1] = Join(g[n], t[n + 1])
    BY <1>2, <2>6 DEF Partial
  <2> QED BY <1>1, <1>2, <2>1, <2>5, <2>7 DEF Join, t
<1> QED BY <1>1, <1>3, <1>4

LEMMA FlattenHead ==
  ASSUME NEW D, NEW s \in Seq(Seq(D)), s # <<>>
  PROVE  FlattenSeq(s) = Head(s) \o FlattenSeq(Tail(s))
<1> DEFINE n == Len(s)
           t == Tail(s)
           h == s[1]
<1>1. n \in Nat /\ n > 0 /\ t \in Seq(Seq(D)) /\ Len(t) = n - 1
      /\ \A i \in 1..(n - 1) : t[i] = s[i + 1]
  BY EmptySeq, HeadTailProperties
<1>2. Head(s) = h /\ h \in Seq(D)
  <2>1. Head(s) = h
    BY <1>1
  <2> QED BY <2>1, HeadTailProperties
<1> HIDE DEF t, h
<1>3. PICK f : Partial(f, s, n) /\ FlattenSeq(s) = f[n]
  BY <1>1, FlattenIsPartial
<1>4. f[1] = h
  BY <1>3 DEF Partial, h
<1>5. CASE n = 1
  <2>1. t = <<>>
    BY <1>1, <1>5, EmptySeq
  <2>2. h \o <<>> = h
    BY <1>2, ConcatEmptySeq
  <2> QED BY <1>2, <1>3, <1>4, <1>5, <2>1, <2>2, FlattenEmpty DEF t
<1>6. CASE n > 1
  <2>1. PICK g : Partial(g, t, n - 1) /\ FlattenSeq(t) = g[n - 1]
    <3>1. Len(t) \in Nat /\ Len(t) > 0
      BY <1>1, <1>6
    <3>2. PICK g : Partial(g, t, Len(t)) /\ FlattenSeq(t) = g[Len(t)]
      BY <3>1, FlattenIsPartial
    <3>3. Len(t) = n - 1
      BY <1>1
    <3> QED BY <3>2, <3>3
  <2>2. \A i \in 1..(n - 1) : g[i] \in Seq(D) /\ t[i] \in Seq(D)
    <3>0. Len(t) > 0 /\ Partial(g, t, Len(t))
      BY <1>1, <1>6, <2>1
    <3>1. \A i \in 1..Len(t) : g[i] \in Seq(D)
      BY <1>1, <3>0, PartialType
    <3>2. \A i \in 1..Len(t) : t[i] \in Seq(D)
      BY <1>1, ElementOfSeq
    <3> QED BY <1>1, <3>1, <3>2
  <2> DEFINE G == {m \in Nat : m = 0 \/ f[m + 1] = Join(h, g[m])}
  <2>3. ASSUME NEW i \in 1..(n - 1), i - 1 \in G PROVE i \in G
    <3>1. i + 1 \in 2..n /\ (i + 1) - 1 = i
      BY <1>1
    <3>2. f[i + 1] = Join(f[i], s[i + 1]) /\ t[i] = s[i + 1]
      BY <1>1, <1>3, <3>1 DEF Partial
    <3>3. CASE i = 1
      <4>1. g[1] = t[1]
        BY <2>1 DEF Partial
      <4> QED BY <1>4, <3>2, <3>3, <4>1
    <3>4. CASE i # 1
      <4>1. i \in 2..(n - 1) /\ i - 1 \in 1..(n - 1) /\ (i - 1) + 1 = i
        BY <3>4
      <4>2. f[i] = Join(h, g[i - 1])
        BY <2>3, <3>4, <4>1
      <4>3. g[i] = Join(g[i - 1], t[i])
        BY <2>1, <4>1 DEF Partial
      <4>4. Join(Join(h, g[i - 1]), t[i]) = Join(h, Join(g[i - 1], t[i]))
        <5>1. g[i - 1] \in Seq(D) /\ t[i] \in Seq(D)
          BY <2>2, <4>1
        <5> QED BY <1>2, <5>1, JoinAssociative
      <4> QED BY <3>2, <4>2, <4>3, <4>4
    <3> QED BY <3>3, <3>4
  <2>4. 0 \in G
    OBVIOUS
  <2> HIDE DEF G
  <2>5. n - 1 \in Nat /\ n - 1 # 0 /\ (n - 1) + 1 = n
    BY <1>1, <1>6
  <2>6. \A i \in 0..(n - 1) : i \in G
    BY <2>3, <2>4, <2>5, InductUpTo
  <2>7. f[n] = Join(h, g[n - 1])
    BY <2>5, <2>6 DEF G
  <2> QED BY <1>2, <1>3, <2>1, <2>7 DEF Join, t
<1> QED BY <1>1, <1>5, <1>6

---------------------------------------------------------------------------
(* One message. *)

(* No two attributes of a list have the same type. A decoded message may    *)
(* break this, and then handle_update_message misses a second MP_REACH or   *)
(* MP_UNREACH behind the mandatory attributes.                              *)
NothingTwice(attributes) ==
  \A i, j \in DOMAIN attributes : attributes[i].type = attributes[j].type => i = j

LEMMA NormalTreatment ==
  ASSUME NEW errors \in SUBSET DOMAIN TreatmentRank
  PROVE  /\ update_treatment(errors) \in {Treatments[i] : i \in DOMAIN Treatments}
         /\ update_treatment(errors) = "Normal" <=> \A e \in errors : TreatmentRank[e] = 1
<1> DEFINE ranks == {TreatmentRank[e] : e \in errors} \cup {1}
           top == CHOOSE r \in ranks : \A s \in ranks : s <= r
<1>1. \A e \in DOMAIN TreatmentRank : TreatmentRank[e] \in 1..5
  BY DEF TreatmentRank
<1>2. ranks \subseteq 1..5 /\ 1 \in ranks
  BY <1>1
<1>3. \E r \in ranks : \A s \in ranks : s <= r
  <2> HIDE DEF ranks
  <2>1. CASE 5 \in ranks
    BY <1>2, <2>1
  <2>2. CASE 5 \notin ranks /\ 4 \in ranks
    <3>1. \A s \in ranks : s <= 4
      BY <1>2, <2>2
    <3> QED BY <2>2, <3>1
  <2>3. CASE 5 \notin ranks /\ 4 \notin ranks /\ 3 \in ranks
    <3>1. \A s \in ranks : s <= 3
      BY <1>2, <2>3
    <3> QED BY <2>3, <3>1
  <2>4. CASE 5 \notin ranks /\ 4 \notin ranks /\ 3 \notin ranks /\ 2 \in ranks
    <3>1. \A s \in ranks : s <= 2
      BY <1>2, <2>4
    <3> QED BY <2>4, <3>1
  <2>5. CASE 5 \notin ranks /\ 4 \notin ranks /\ 3 \notin ranks /\ 2 \notin ranks
    <3>1. \A s \in ranks : s <= 1
      BY <1>2, <2>5
    <3> QED BY <1>2, <3>1
  <2> QED BY <2>1, <2>2, <2>3, <2>4, <2>5
<1>4. top \in ranks /\ \A s \in ranks : s <= top
  <2> HIDE DEF ranks
  <2> QED BY <1>3
<1>5. update_treatment(errors) = Treatments[top]
  BY DEF update_treatment
<1> HIDE DEF top
<1>6. top \in 1..5
  BY <1>2, <1>4
<1>7. Treatments[top] = "Normal" <=> top = 1
  BY <1>6 DEF Treatments
<1>8. top = 1 <=> \A e \in errors : TreatmentRank[e] = 1
  <2>1. ASSUME top = 1, NEW e \in errors PROVE TreatmentRank[e] = 1
    <3>1. TreatmentRank[e] \in 1..5 /\ TreatmentRank[e] \in ranks
      BY <1>1
    <3> QED BY <1>4, <2>1, <3>1
  <2>2. ASSUME \A e \in errors : TreatmentRank[e] = 1 PROVE top = 1
    BY <1>4, <2>2
  <2> QED BY <2>1, <2>2
<1>9. top \in DOMAIN Treatments
  BY <1>6 DEF Treatments
<1> QED BY <1>5, <1>7, <1>8, <1>9

LEMMA CountOnce ==
  ASSUME NEW a, NothingTwice(a), NEW type
  PROVE  Count(a, type) = IF type \in Types(a) THEN 1 ELSE 0
<1> DEFINE at == {i \in DOMAIN a : a[i].type = type}
<1>1. CASE type \in Types(a)
  <2>1. PICK i \in DOMAIN a : a[i].type = type
    BY <1>1 DEF Types
  <2>2. at = {i}
    BY <2>1 DEF NothingTwice
  <2>3. Cardinality(at) = 1
    BY <2>2, FS_Singleton
  <2> QED BY <1>1, <2>3 DEF Count
<1>2. CASE type \notin Types(a)
  <2>1. at = {}
    BY <1>2 DEF Types
  <2>2. Cardinality(at) = 0
    BY <2>1, FS_EmptySet
  <2> QED BY <1>2, <2>2 DEF Count
<1> QED BY <1>1, <1>2

LEMMA PrefixTypes ==
  ASSUME NEW A, NEW a \in Seq(A), NEW k \in 0..Len(a)
  PROVE  /\ SubSeq(a, 1, k) \in Seq(A)
         /\ Types(SubSeq(a, 1, k)) = {a[i].type : i \in 1..k}
         /\ NothingTwice(a) => NothingTwice(SubSeq(a, 1, k))
<1> DEFINE s == SubSeq(a, 1, k)
<1>1. Len(a) \in Nat /\ k \in Nat /\ DOMAIN a = 1..Len(a) /\ \A i \in 1..k : a[i] \in A
  BY LenProperties, ElementOfSeq
<1>2. s \in Seq(A) /\ Len(s) = k /\ \A i \in 1..k : s[i] = a[i]
  <2>1. /\ SubSeq(a, 1, k) \in Seq(A)
        /\ Len(SubSeq(a, 1, k)) = IF 1 <= k THEN k - 1 + 1 ELSE 0
        /\ \A i \in 1..(k - 1 + 1) : SubSeq(a, 1, k)[i] = a[1 + i - 1]
    BY <1>1, SubSeqProperties
  <2>2. k - 1 + 1 = k /\ \A i \in 1..k : 1 + i - 1 = i
    BY <1>1
  <2> QED BY <1>1, <2>1, <2>2
<1> HIDE DEF s
<1>3. DOMAIN s = 1..k
  BY <1>2, LenProperties
<1>4. Types(s) = {a[i].type : i \in 1..k}
  BY <1>2, <1>3 DEF Types
<1>5. ASSUME NothingTwice(a) PROVE NothingTwice(s)
  <2>1. 1..k \subseteq DOMAIN a
    BY <1>1
  <2> QED BY <1>2, <1>3, <1>5, <2>1 DEF NothingTwice
<1> QED BY <1>2, <1>4, <1>5 DEF s

(* The loop of handle_update_message stops at the end, or once it has seen  *)
(* the three mandatory attributes.                                          *)
LEMMA ScannedProperties ==
  ASSUME NEW A, NEW a \in Seq(A)
  PROVE  \E k \in 0..Len(a) : /\ Scanned(a) = SubSeq(a, 1, k)
                              /\ k = Len(a) \/ Mandatory \subseteq Types(SubSeq(a, 1, k))
<1> DEFINE n == Len(a)
           seen(i) == Types(SubSeq(a, 1, i - 1))
           S == {i \in DOMAIN a : ~(Mandatory \subseteq seen(i))}
           T == {i \in 1..n : Mandatory \subseteq seen(i)}
<1>1. n \in Nat /\ DOMAIN a = 1..n
  BY LenProperties
<1>2. \A i \in 1..n : seen(i) = {a[j].type : j \in 1..(i - 1)}
  <2>1. ASSUME NEW i \in 1..n PROVE i - 1 \in 0..n
    BY <1>1
  <2> QED BY <2>1, PrefixTypes
<1>3. Scanned(a) = SubSeq(a, 1, Cardinality(S))
  BY DEF Scanned
<1>4. CASE T = {}
  <2>1. S = 1..n
    BY <1>1, <1>4
  <2>2. Cardinality(S) = n
    <3>1. Cardinality(1..n) = n
      BY <1>1, FS_Interval
    <3> QED BY <2>1, <3>1
  <2>3. Scanned(a) = SubSeq(a, 1, n) /\ n \in 0..n
    <3> HIDE DEF S
    <3>1. Scanned(a) = SubSeq(a, 1, n)
      BY <1>3, <2>2
    <3> QED BY <1>1, <3>1
  <2> QED BY <2>3
<1>5. CASE T # {}
  <2>1. T \in SUBSET Nat
    OBVIOUS
  <2>2. PICK x \in T : \A y \in T : x <= y
    BY <1>5, <2>1, Least
  <2>3. x \in 1..n /\ Mandatory \subseteq seen(x)
    OBVIOUS
  <2>4. S = 1..(x - 1)
    <3>1. ASSUME NEW i \in 1..(x - 1) PROVE i \in S
      <4>1. i \in 1..n /\ ~(x <= i)
        BY <1>1, <2>3
      <4> QED BY <1>1, <2>2, <4>1
    <3>2. ASSUME NEW i \in S PROVE i \in 1..(x - 1)
      <4>1. i \in 1..n /\ ~(Mandatory \subseteq seen(i))
        BY <1>1
      <4>2. CASE x <= i
        <5>1. seen(x) \subseteq seen(i)
          <6>1. 1..(x - 1) \subseteq 1..(i - 1)
            BY <2>3, <4>1, <4>2
          <6>2. seen(x) = {a[j].type : j \in 1..(x - 1)} /\ seen(i) = {a[j].type : j \in 1..(i - 1)}
            BY <1>2, <2>3, <4>1
          <6> HIDE DEF seen
          <6> QED BY <6>1, <6>2
        <5> HIDE DEF seen
        <5> QED BY <2>3, <4>1, <5>1
      <4> QED BY <2>3, <4>1, <4>2
    <3> HIDE DEF S
    <3> QED BY <3>1, <3>2
  <2>5. Cardinality(S) = x - 1
    <3>1. Cardinality(1..(x - 1)) = IF 1 > x - 1 THEN 0 ELSE (x - 1) - 1 + 1
      BY <2>3, FS_Interval
    <3>2. Cardinality(1..(x - 1)) = x - 1
      BY <2>3, <3>1
    <3> HIDE DEF S
    <3> QED BY <2>4, <3>2
  <2>6. x - 1 \in 0..n
    BY <1>1, <2>3
  <2> QED BY <1>3, <2>3, <2>5, <2>6
<1> QED BY <1>4, <1>5

(* The messages that get past handle_update_message, update_treatment and   *)
(* try_from are the valid ones.                                             *)
LEMMA PassedIfValid ==
  ASSUME NEW m \in UpdateMessages(Routes), NothingTwice(m.attributes)
  PROVE  (/\ ~Refuses(m)
          /\ Forwards([type |-> "UpdateMsg", msg |-> m,
                       treatment |-> update_treatment(m.errors)])) <=> Valid(m)
<1> DEFINE a == m.attributes
           scanned == Scanned(a)
           announces == "MpReach" \in Types(a) \/ m.nlri # <<>>
           named == "Origin" \in Types(a) /\ "AsPath" \in Types(a)
<1>1. a \in Seq(Attributes(Routes)) /\ m.errors \in SUBSET DOMAIN TreatmentRank
  BY DEF UpdateMessages
<1>2. PICK k \in 0..Len(a) : /\ scanned = SubSeq(a, 1, k)
                             /\ k = Len(a) \/ Mandatory \subseteq Types(SubSeq(a, 1, k))
  BY <1>1, ScannedProperties
<1>3. /\ scanned = a \/ Mandatory \subseteq Types(scanned)
      /\ Types(scanned) \subseteq Types(a) /\ NothingTwice(scanned)
  <2>1. DOMAIN a = 1..Len(a) /\ Len(a) \in Nat
    BY <1>1, LenProperties
  <2>2. Types(scanned) = {a[i].type : i \in 1..k} /\ NothingTwice(scanned)
    BY <1>1, <1>2, PrefixTypes
  <2>3. Types(scanned) \subseteq Types(a)
    <3>1. 1..k \subseteq DOMAIN a
      BY <2>1
    <3> HIDE DEF scanned, a
    <3> QED BY <2>2, <3>1 DEF Types
  <2>4. SubSeq(a, 1, Len(a)) = a
    BY <1>1, SubSeqFull
  <2> QED BY <1>2, <2>2, <2>3, <2>4
<1>4. /\ \A type : Count(scanned, type) = IF type \in Types(scanned) THEN 1 ELSE 0
      /\ \A type : Count(a, type) = IF type \in Types(a) THEN 1 ELSE 0
  <2> HIDE DEF scanned, a
  <2>1. NothingTwice(a)
    BY DEF a
  <2> QED BY <1>3, <2>1, CountOnce
<1>5. Forwards([type |-> "UpdateMsg", msg |-> m, treatment |-> update_treatment(m.errors)])
        <=> (\A e \in m.errors : TreatmentRank[e] = 1) /\ try_from_ok(m)
  <2>1. update_treatment(m.errors) = "Normal" <=> \A e \in m.errors : TreatmentRank[e] = 1
    BY <1>1, NormalTreatment
  <2> QED BY <2>1 DEF Forwards
<1>6. Valid(m) <=> /\ \A e \in m.errors : TreatmentRank[e] = 1
                   /\ announces => named
                   /\ try_from_ok(m)
  <2>1. \A type \in Types(a) : Count(a, type) = 1
    BY <1>4
  <2> QED BY <2>1 DEF Valid, WellFormed, try_from_ok
<1>7. end_of_rib(m) => ~announces
  <2> SUFFICES ASSUME end_of_rib(m) PROVE ~announces
    OBVIOUS
  <2>1. m.nlri = <<>>
    BY DEF end_of_rib
  <2>2. "MpReach" \notin Types(a)
    <3>1. CASE a = <<>>
      BY <3>1 DEF Types
    <3>2. CASE Count(a, "MpReach") = 0
      BY <1>4, <3>2
    <3> QED BY <3>1, <3>2 DEF end_of_rib
  <2> QED BY <2>1, <2>2
<1>8. ASSUME try_from_ok(m) PROVE Refuses(m) <=> announces /\ ~named
  <2> DEFINE missing(type) == type \notin Types(scanned)
             announced == Count(scanned, "MpReach") > 0 \/ m.nlri # <<>>
  <2>1. Refuses(m) <=>
          \/ ~end_of_rib(m) /\ announced /\ (missing("Origin") \/ missing("AsPath"))
          \/ /\ ~end_of_rib(m) /\ m.nlri # <<>>
             /\ missing("NextHop") /\ missing("MpReach") /\ missing("MpUnreach")
          \/ Count(scanned, "MpReach") > 1 \/ Count(scanned, "MpUnreach") > 1
    BY DEF Refuses
  <2>2. ~(Count(scanned, "MpReach") > 1) /\ ~(Count(scanned, "MpUnreach") > 1)
    BY <1>4
  <2>3. announced <=> "MpReach" \in Types(scanned) \/ m.nlri # <<>>
    BY <1>4
  <2> HIDE DEF scanned, a, announced
  <2>4. CASE scanned = a
    <3>1. announced <=> announces
      BY <2>3, <2>4
    <3>2. m.nlri # <<>> => ~missing("NextHop")
      BY <1>8, <2>4 DEF try_from_ok, a
    <3> QED BY <1>7, <2>1, <2>2, <2>4, <3>1, <3>2
  <2>5. CASE Mandatory \subseteq Types(scanned)
    <3>1. ~missing("Origin") /\ ~missing("AsPath") /\ ~missing("NextHop")
      BY <2>5 DEF Mandatory
    <3>2. named
      BY <1>3, <3>1
    <3> QED BY <2>1, <2>2, <3>1, <3>2
  <2> QED BY <1>3, <2>4, <2>5
<1> QED BY <1>5, <1>6, <1>8

LEMMA FirstIsOnly ==
  ASSUME NEW A, NEW a \in Seq(A), NothingTwice(a), NEW i \in DOMAIN a
  PROVE  First(a, a[i].type) = a[i]
<1>1. DOMAIN a = 1..Len(a) /\ Len(a) \in Nat
  BY LenProperties
<1> DEFINE P(n) == a[n].type = a[i].type /\ \A j \in 1..(n - 1) : a[j].type # a[i].type
           c == CHOOSE n \in DOMAIN a : P(n)
<1>2. P(i)
  <2>1. ASSUME NEW j \in 1..(i - 1) PROVE a[j].type # a[i].type
    <3>1. j \in DOMAIN a /\ j # i
      BY <1>1
    <3> QED BY <3>1 DEF NothingTwice
  <2> QED BY <2>1
<1>3. c \in DOMAIN a /\ P(c)
  <2> HIDE DEF P
  <2> QED BY <1>2
<1>4. c = i
  BY <1>3 DEF NothingTwice
<1> QED BY <1>4 DEF First

(* The routes of a list. *)
RoutesIn(list) == {list[j] : j \in DOMAIN list}

Pairs(S, nexthop) == {<<r, nexthop>> : r \in S}
Firsts(pairs) == {x[1] : x \in pairs}

(* What try_from reads from an attribute of the multiprotocol extensions is *)
(* what the attribute lists.                                                *)
LEMMA MpProperties ==
  ASSUME NEW m \in UpdateMessages(Routes), NothingTwice(m.attributes), NEW type
  PROVE  \/ mp(m, type) = <<>> /\ Listed(m, type) = {}
         \/ \E x \in Attributes(Routes) :
              /\ mp(m, type) = <<x>>
              /\ Listed(m, type) = Pairs(RoutesIn(x.routes), x.nexthop)
<1> DEFINE a == m.attributes
           at == {k \in DOMAIN a : a[k].type = type /\ a[k].family \in Unicast}
           pairs(i) == {<<a[i].routes[j], a[i].nexthop>> : j \in DOMAIN a[i].routes}
<1>1. a \in Seq(Attributes(Routes)) /\ NothingTwice(a)
  BY DEF UpdateMessages
<1>2. Listed(m, type) = UNION {pairs(i) : i \in at}
  BY DEF Listed
<1>3. CASE at = {}
  <2>1. Listed(m, type) = {}
    <3> HIDE DEF at
    <3> QED BY <1>2, <1>3
  <2>2. mp(m, type) = <<>>
    <3> SUFFICES ASSUME type \in Types(a), First(a, type).family \in Unicast PROVE FALSE
      BY DEF mp
    <3>1. PICK i \in DOMAIN a : a[i].type = type
      BY DEF Types
    <3>2. First(a, type) = a[i]
      BY <1>1, <3>1, FirstIsOnly
    <3> QED BY <1>3, <3>1, <3>2
  <2> QED BY <2>1, <2>2
<1>4. CASE at # {}
  <2>1. PICK i \in DOMAIN a : a[i].type = type /\ a[i].family \in Unicast
    BY <1>4
  <2>2. at = {i}
    BY <1>1, <2>1 DEF NothingTwice
  <2>3. First(a, type) = a[i] /\ type \in Types(a)
    BY <1>1, <2>1, FirstIsOnly DEF Types
  <2>4. mp(m, type) = <<a[i]>>
    BY <2>1, <2>3 DEF mp
  <2>5. Listed(m, type) = pairs(i)
    <3> HIDE DEF at, pairs
    <3> QED BY <1>2, <2>2
  <2>6. pairs(i) = Pairs(RoutesIn(a[i].routes), a[i].nexthop)
    BY DEF RoutesIn, Pairs
  <2>7. a[i] \in Attributes(Routes)
    <3>1. DOMAIN a = 1..Len(a)
      BY <1>1, LenProperties
    <3> QED BY <1>1, <3>1, ElementOfSeq
  <2> HIDE DEF pairs
  <2> QED BY <2>4, <2>5, <2>6, <2>7
<1> QED BY <1>3, <1>4

LEMMA WithdrawnConcat ==
  ASSUME NEW s \in Seq(Routes), NEW t \in Seq(Routes)
  PROVE  Withdrawn(s \o t) = Withdrawn(s) \cup RoutesIn(t)
<1> DEFINE u == s \o t
<1>1. /\ Len(s) \in Nat /\ Len(t) \in Nat /\ DOMAIN s = 1..Len(s) /\ DOMAIN t = 1..Len(t)
      /\ u \in Seq(Routes) /\ Len(u) = Len(s) + Len(t)
      /\ \A i \in 1..(Len(s) + Len(t)) : u[i] = IF i <= Len(s) THEN s[i] ELSE t[i - Len(s)]
  BY LenProperties, ConcatProperties
<1> HIDE DEF u
<1>2. DOMAIN u = 1..(Len(s) + Len(t))
  BY <1>1, LenProperties
<1>3. ASSUME NEW i \in DOMAIN u PROVE u[i] \in Withdrawn(s) \cup RoutesIn(t)
  <2>1. CASE i <= Len(s)
    <3>1. i \in DOMAIN s /\ u[i] = s[i]
      BY <1>1, <1>2, <2>1
    <3> QED BY <3>1 DEF Withdrawn
  <2>2. CASE ~(i <= Len(s))
    <3>1. i - Len(s) \in DOMAIN t /\ u[i] = t[i - Len(s)]
      BY <1>1, <1>2, <2>2
    <3> QED BY <3>1 DEF RoutesIn
  <2> QED BY <2>1, <2>2
<1>4. ASSUME NEW i \in DOMAIN s PROVE s[i] \in Withdrawn(u)
  <2>1. i \in DOMAIN u /\ u[i] = s[i]
    BY <1>1, <1>2
  <2> QED BY <2>1 DEF Withdrawn
<1>5. ASSUME NEW i \in DOMAIN t PROVE t[i] \in Withdrawn(u)
  <2>1. i + Len(s) \in DOMAIN u /\ ~(i + Len(s) <= Len(s)) /\ (i + Len(s)) - Len(s) = i
    BY <1>1, <1>2
  <2>2. u[i + Len(s)] = t[i]
    BY <1>1, <1>2, <2>1
  <2> QED BY <2>1, <2>2 DEF Withdrawn
<1> QED BY <1>3, <1>4, <1>5 DEF Withdrawn, RoutesIn, u

LEMMA AnnouncedOne ==
  ASSUME NEW x
  PROVE  Announced(<<x>>) = [r \in RoutesIn(x.routes) |-> x.nexthop]
<1> DEFINE s == <<x>>
           of(r) == {i \in DOMAIN s : \E j \in DOMAIN s[i].routes : s[i].routes[j] = r}
           all == UNION {{s[i].routes[j] : j \in DOMAIN s[i].routes} : i \in DOMAIN s}
           last(r) == CHOOSE i \in of(r) : \A k \in of(r) : k <= i
<1>1. Announced(s) = [r \in all |-> s[last(r)].nexthop]
  BY DEF Announced
<1>2. DOMAIN s = {1} /\ s[1] = x
  OBVIOUS
<1> HIDE DEF s
<1>3. all = RoutesIn(x.routes)
  BY <1>2 DEF RoutesIn
<1>4. ASSUME NEW r \in all PROVE s[last(r)].nexthop = x.nexthop
  <2>1. of(r) = {1}
    BY <1>2, <1>3, <1>4 DEF RoutesIn
  <2>2. last(r) = 1
    <3> HIDE DEF of
    <3> QED BY <2>1
  <2> QED BY <1>2, <2>2
<1> HIDE DEF all, last
<1> QED BY <1>1, <1>3, <1>4 DEF s

LEMMA AnnouncedTwo ==
  ASSUME NEW x, NEW y
  PROVE  Announced(<<x, y>>) =
           [r \in RoutesIn(x.routes) \cup RoutesIn(y.routes) |->
              IF r \in RoutesIn(y.routes) THEN y.nexthop ELSE x.nexthop]
<1> DEFINE s == <<x, y>>
           of(r) == {i \in DOMAIN s : \E j \in DOMAIN s[i].routes : s[i].routes[j] = r}
           all == UNION {{s[i].routes[j] : j \in DOMAIN s[i].routes} : i \in DOMAIN s}
           last(r) == CHOOSE i \in of(r) : \A k \in of(r) : k <= i
<1>1. Announced(s) = [r \in all |-> s[last(r)].nexthop]
  BY DEF Announced
<1>2. DOMAIN s = {1, 2} /\ s[1] = x /\ s[2] = y
  OBVIOUS
<1> HIDE DEF s
<1>3. all = RoutesIn(x.routes) \cup RoutesIn(y.routes)
  BY <1>2 DEF RoutesIn
<1>4. \A r : of(r) \subseteq {1, 2} /\ (1 \in of(r) <=> r \in RoutesIn(x.routes))
             /\ (2 \in of(r) <=> r \in RoutesIn(y.routes))
  BY <1>2 DEF RoutesIn
<1>5. ASSUME NEW r \in all
      PROVE  s[last(r)].nexthop = IF r \in RoutesIn(y.routes) THEN y.nexthop ELSE x.nexthop
  <2>1. CASE r \in RoutesIn(y.routes)
    <3> HIDE DEF of
    <3>1. 2 \in of(r) /\ \A k \in of(r) : k <= 2
      BY <1>4, <2>1
    <3>2. \A i \in of(r) : (\A k \in of(r) : k <= i) => i = 2
      BY <1>4, <3>1
    <3>3. last(r) = 2
      BY <3>1, <3>2
    <3> HIDE DEF last
    <3> QED BY <1>2, <2>1, <3>3
  <2>2. CASE r \notin RoutesIn(y.routes)
    <3>1. r \in RoutesIn(x.routes)
      BY <1>3, <1>5, <2>2
    <3> HIDE DEF of
    <3>2. of(r) = {1}
      BY <1>4, <2>2, <3>1
    <3>3. last(r) = 1
      BY <3>2
    <3> HIDE DEF last
    <3> QED BY <1>2, <2>2, <3>3
  <2> QED BY <2>1, <2>2
<1> HIDE DEF all, last
<1> QED BY <1>1, <1>3, <1>5 DEF s

LEMMA FirstsOfPairs ==
  ASSUME NEW S, NEW c
  PROVE  Firsts(Pairs(S, c)) = S
<1> DEFINE L == Pairs(S, c)
<1>1. ASSUME NEW r \in S PROVE r \in Firsts(L)
  <2>1. <<r, c>> \in L /\ <<r, c>>[1] = r
    BY DEF Pairs
  <2> HIDE DEF L
  <2> QED BY <2>1, Zenon DEF Firsts
<1>2. ASSUME NEW y \in L PROVE y[1] \in S
  BY DEF Pairs
<1> HIDE DEF L
<1>3. Firsts(L) = S
  BY <1>1, <1>2 DEF Firsts
<1> QED BY <1>3 DEF L

LEMMA ConcatSingles ==
  ASSUME NEW x, NEW y PROVE <<x>> \o <<y>> = <<x, y>>
<1> DEFINE S == {x, y}
<1>1. <<x>> \in Seq(S) /\ <<y>> \in Seq(S) /\ <<x, y>> \in Seq(S)
      /\ Len(<<x>>) = 1 /\ Len(<<y>>) = 1 /\ Len(<<x, y>>) = 2
      /\ <<x>>[1] = x /\ <<y>>[1] = y /\ <<x, y>>[1] = x /\ <<x, y>>[2] = y
  OBVIOUS
<1> DEFINE u == <<x>> \o <<y>>
           v == <<x, y>>
<1>2. u \in Seq(S) /\ Len(u) = 1 + 1
      /\ \A i \in 1..(1 + 1) : u[i] = IF i <= 1 THEN <<x>>[i] ELSE <<y>>[i - 1]
  BY <1>1, ConcatProperties
<1>3. v \in Seq(S) /\ Len(v) = 2 /\ v[1] = x /\ v[2] = y
  BY <1>1
<1> HIDE DEF u, v
<1>4. Len(u) = 2 /\ u[1] = x /\ u[2] = y
  BY <1>1, <1>2
<1>5. \A i \in 1..Len(u) : u[i] = v[i]
  BY <1>3, <1>4
<1>6. u = v
  BY <1>2, <1>3, <1>4, <1>5, SeqEqual
<1> QED BY <1>6 DEF u, v

(* The routes that try_from reads are those the message means.              *)
LEMMA ReadAsMeant ==
  ASSUME NEW m \in UpdateMessages(Routes), NothingTwice(m.attributes), Valid(m)
  PROVE  Change(try_from(m)) = Meaning(m)
<1> DEFINE a == m.attributes
           update == try_from(m)
           listed == Listed(m, "MpReach")
           mpRoutes == Firsts(listed)
           all == mpRoutes \cup RoutesIn(m.nlri)
           mpNexthop == CHOOSE nh \in {x[2] : x \in listed} : TRUE
           next == (CHOOSE b \in {a[i] : i \in DOMAIN a} : b.type = "NextHop").nexthop
           meant == [r \in all |-> IF r \in mpRoutes THEN mpNexthop ELSE next]
           gone == Firsts(Listed(m, "MpUnreach"))
<1>1. a \in Seq(Attributes(Routes)) /\ m.withdrawn \in Seq(Routes) /\ m.nlri \in Seq(Routes)
  BY DEF UpdateMessages
<1>2. Meaning(m) = [announced |-> meant, withdrawn |-> Withdrawn(m.withdrawn) \cup gone]
  BY DEF Meaning, RoutesIn, Firsts
<1>3. update.announcements = legacy(m) \o mp_reach(m)
      /\ update.withdrawals = m.withdrawn \o mp_unreach(m)
  BY DEF try_from
<1>4. Withdrawn(update.withdrawals) = Withdrawn(m.withdrawn) \cup gone
  <2>1. mp_unreach(m) \in Seq(Routes) /\ RoutesIn(mp_unreach(m)) = gone
    <3>1. CASE mp(m, "MpUnreach") = <<>> /\ Listed(m, "MpUnreach") = {}
      <4>1. mp_unreach(m) = <<>>
        BY <3>1 DEF mp_unreach
      <4>2. <<>> \in Seq(Routes) /\ DOMAIN <<>> = {}
        OBVIOUS
      <4>3. gone = {}
        BY <3>1 DEF Firsts
      <4> QED BY <4>1, <4>2, <4>3 DEF RoutesIn
    <3>2. ASSUME NEW x \in Attributes(Routes), mp(m, "MpUnreach") = <<x>>,
                 Listed(m, "MpUnreach") = Pairs(RoutesIn(x.routes), x.nexthop)
          PROVE  mp_unreach(m) \in Seq(Routes) /\ RoutesIn(mp_unreach(m)) = gone
      <4>1. <<x>> # <<>> /\ <<x>>[1] = x
        OBVIOUS
      <4>2. mp_unreach(m) = x.routes
        BY <3>2, <4>1 DEF mp_unreach
      <4>3. x.routes \in Seq(Routes)
        BY DEF Attributes
      <4>4. gone = RoutesIn(x.routes)
        BY <3>2, FirstsOfPairs
      <4> QED BY <4>2, <4>3, <4>4
    <3> QED BY <3>1, <3>2, MpProperties
  <2> QED BY <1>1, <1>3, <2>1, WithdrawnConcat
<1> DEFINE old == Announcement(m.nlri, next)
<1>5. legacy(m) = IF m.nlri = <<>> THEN <<>> ELSE <<old>>
  <2> SUFFICES ASSUME m.nlri # <<>> PROVE legacy(m) = <<old>>
    BY DEF legacy
  <2>1. PICK i \in DOMAIN a : a[i].type = "NextHop"
    BY DEF Valid, WellFormed, Types
  <2>2. First(a, "NextHop") = a[i]
    BY <1>1, <2>1, FirstIsOnly
  <2>3. \A b \in {a[j] : j \in DOMAIN a} : b.type = "NextHop" => b = a[i]
    BY <2>1 DEF NothingTwice
  <2>4. next = a[i].nexthop
    <3> DEFINE B == {a[j] : j \in DOMAIN a}
    <3>1. a[i] \in B /\ \A b \in B : b.type = "NextHop" => b = a[i]
      BY <2>3
    <3> HIDE DEF B
    <3>2. (CHOOSE b \in B : b.type = "NextHop") = a[i]
      BY <2>1, <3>1
    <3> QED BY <3>2 DEF B
  <2> HIDE DEF next
  <2> QED BY <2>2, <2>4 DEF legacy
<1> HIDE DEF next
<1>6. Announced(legacy(m) \o mp_reach(m)) = meant
  <2>1. CASE mp(m, "MpReach") = <<>> /\ listed = {}
    <3>1. mp_reach(m) = <<>> /\ mpRoutes = {}
      BY <2>1 DEF mp_reach, Firsts
    <3>2. meant = [r \in RoutesIn(m.nlri) |-> next]
      BY <3>1
    <3>3. CASE m.nlri = <<>>
      <4>1. legacy(m) \o mp_reach(m) = <<>>
        BY <1>5, <3>1, <3>3
      <4>2. RoutesIn(m.nlri) = {}
        BY <3>3 DEF RoutesIn
      <4>3. Announced(<<>>) = [r \in {} |-> next]
        BY DEF Announced
      <4> HIDE DEF meant
      <4> QED BY <3>2, <4>1, <4>2, <4>3
    <3>4. CASE m.nlri # <<>>
      <4>1. legacy(m) \o mp_reach(m) = <<old>>
        BY <1>5, <3>1, <3>4
      <4>2. old.routes = m.nlri /\ old.nexthop = next
        BY DEF Announcement
      <4> HIDE DEF meant, old
      <4> QED BY <3>2, <4>1, <4>2, AnnouncedOne
    <3> QED BY <3>3, <3>4
  <2>2. ASSUME NEW x \in Attributes(Routes), mp(m, "MpReach") = <<x>>,
               listed = Pairs(RoutesIn(x.routes), x.nexthop)
        PROVE  Announced(legacy(m) \o mp_reach(m)) = meant
    <3> DEFINE new == Announcement(x.routes, x.nexthop)
    <3>1. mp_reach(m) = <<new>>
      BY <2>2 DEF mp_reach
    <3>2. mpRoutes = RoutesIn(x.routes)
      BY <2>2, FirstsOfPairs
    <3>3. mpRoutes # {} => mpNexthop = x.nexthop
      <4> SUFFICES ASSUME mpRoutes # {} PROVE mpNexthop = x.nexthop
        OBVIOUS
      <4>1. {y[2] : y \in listed} = {x.nexthop}
        <5>1. PICK r \in RoutesIn(x.routes) : TRUE
          BY <3>2
        <5>2. <<r, x.nexthop>> \in listed /\ <<r, x.nexthop>>[2] = x.nexthop
          BY <2>2, <5>1 DEF Pairs
        <5>3. \A y \in listed : y[2] = x.nexthop
          BY <2>2 DEF Pairs
        <5> HIDE DEF listed
        <5> QED BY <5>2, <5>3, Zenon
      <4> HIDE DEF listed
      <4> QED BY <4>1
    <3>4. new.routes = x.routes /\ new.nexthop = x.nexthop
          /\ old.routes = m.nlri /\ old.nexthop = next
      BY DEF Announcement
    <3> HIDE DEF mpRoutes, mpNexthop, new, old
    <3>5. meant = [r \in RoutesIn(m.nlri) \cup RoutesIn(x.routes) |->
                     IF r \in RoutesIn(x.routes) THEN x.nexthop ELSE next]
      BY <3>2, <3>3
    <3>6. CASE m.nlri = <<>>
      <4>1. legacy(m) \o mp_reach(m) = <<new>>
        BY <1>5, <3>1, <3>6
      <4>2. RoutesIn(m.nlri) = {}
        BY <3>6 DEF RoutesIn
      <4>3. meant = [r \in RoutesIn(x.routes) |-> x.nexthop]
        <5> HIDE DEF meant
        <5> QED BY <3>5, <4>2
      <4> HIDE DEF meant
      <4> QED BY <3>4, <4>1, <4>3, AnnouncedOne
    <3>7. CASE m.nlri # <<>>
      <4>1. legacy(m) \o mp_reach(m) = <<old, new>>
        BY <1>5, <3>1, <3>7, ConcatSingles
      <4> HIDE DEF meant
      <4>2. Announced(<<old, new>>) =
              [r \in RoutesIn(old.routes) \cup RoutesIn(new.routes) |->
                 IF r \in RoutesIn(new.routes) THEN new.nexthop ELSE old.nexthop]
        BY AnnouncedTwo
      <4> QED BY <3>4, <3>5, <4>1, <4>2
    <3> QED BY <3>6, <3>7
  <2> HIDE DEF meant, listed
  <2> QED BY <2>1, <2>2, MpProperties DEF listed
<1> HIDE DEF meant, update, gone
<1> QED BY <1>2, <1>3, <1>4, <1>6 DEF Change, update

(* A valid message asks for no treatment. *)
LEMMA ValidIsMeant ==
  ASSUME NEW m, Valid(m)
  PROVE  MayCount(m) /\ Treated(m) = Meaning(m)
<1>1. \A e \in m.errors : TreatmentRank[e] < 5 /\ TreatmentRank[e] # 3
  BY DEF Valid
<1> QED BY <1>1 DEF Valid, MayCount, Treated

(* handle_update_message, update_treatment and try_from pass on every valid *)
(* UPDATE with its meaning, and none with an effect that its treatment      *)
(* excludes, for any routes and nexthops, any order of the attributes and   *)
(* any errors: unless an attribute is repeated.                             *)
THEOREM MeaningIsKept ==
  ASSUME NEW m \in UpdateMessages(Routes), NothingTwice(m.attributes)
  PROVE  KeepsItsMeaning(m)
BY PassedIfValid, ReadAsMeant, ValidIsMeant DEF KeepsItsMeaning

(* The same of the messages that TLC looks at one by one.                   *)
THEOREM ConversionKeepsMeaning ==
  ASSUME \A m \in AnyMessage : NothingTwice(m.attributes)
  PROVE  Spec => []UpdatesKeepTheirMeaning
<1>1. ASSUME NEW m \in AnyMessage PROVE KeepsItsMeaning(m)
  <2>1. m \in UpdateMessages(Routes)
    BY BgpUpdatesAssumption
  <2> QED BY <2>1, MeaningIsKept
<1>2. UpdatesKeepTheirMeaning
  BY <1>1 DEF UpdatesKeepTheirMeaning
<1> QED BY <1>2, PTL

---------------------------------------------------------------------------
(* The queues. *)

(* The event of a message that was not refused, and whether it is passed on. *)
Event(m) == [type |-> "UpdateMsg", msg |-> m, treatment |-> update_treatment(m.errors)]
Passes(m) == ~Refuses(m) /\ Forwards(Event(m))

(* What the queues can hold. *)
Waiting == [type : {"Other", "Err"}] \cup {Event(m) : m \in {n \in Messages : ~Refuses(n)}}
Updates == {try_from(m) : m \in {n \in Messages : Passes(n)}}
Queued == [peer : Peers, update : Updates]

FeedInv ==
  /\ session \in [Peers -> {"Established", "Idle", "ended"}]
  /\ fsm_state_rx \in [Peers -> Seq(Waiting)]
  /\ \A p \in Peers : Len(fsm_state_rx[p]) <= MaxEvents
  /\ sending \in [Peers -> Seq(Updates)]
  /\ \A p \in Peers : Len(sending[p]) <= 1
  /\ handling \in [Peers -> BOOLEAN] /\ controller \in BOOLEAN
  /\ bgp_updates \in Seq(Queued) /\ Len(bgp_updates) <= ChannelCapacity

LEMMA InitFeedInv == Init => FeedInv
<1> SUFFICES ASSUME Init PROVE FeedInv
  OBVIOUS
<1>1. \A S : <<>> \in Seq(S) /\ Len(<<>>) = 0
  BY EmptySeq
<1> QED BY <1>1, BgpUpdatesAssumption DEF Init, FeedInv

LEMMA ReportsInv ==
  ASSUME FeedInv, NEW p \in Peers, NEW state \in {"Established", "Idle", "ended"},
         NEW event \in Waiting, Reports(p, state, event)
  PROVE  FeedInv'
<1> DEFINE e == fsm_state_rx[p]
           f == Append(e, event)
<1>1. e \in Seq(Waiting) /\ Len(e) < MaxEvents /\ Len(e) \in Nat /\ MaxEvents \in Nat
  BY LenProperties, BgpUpdatesAssumption DEF FeedInv, Reports
<1>2. f \in Seq(Waiting) /\ Len(f) = Len(e) + 1
  BY <1>1, AppendProperties
<1>3. fsm_state_rx' = [fsm_state_rx EXCEPT ![p] = f]
  BY DEF Reports
<1> HIDE DEF f
<1>4. Len(f) <= MaxEvents
  BY <1>1, <1>2
<1> HIDE DEF e
<1>5. fsm_state_rx' \in [Peers -> Seq(Waiting)] /\ \A r \in Peers : Len(fsm_state_rx'[r]) <= MaxEvents
  BY <1>2, <1>3, <1>4 DEF FeedInv
<1>6. session' \in [Peers -> {"Established", "Idle", "ended"}]
  BY DEF FeedInv, Reports
<1>7. UNCHANGED <<sending, handling, bgp_updates, controller>>
  BY DEF Reports
<1> QED BY <1>5, <1>6, <1>7 DEF FeedInv

LEMMA EventsAreReports ==
  /\ Other \in Waiting /\ [type |-> "Err"] \in Waiting
  /\ \A m \in Messages : ~Refuses(m) => Event(m) \in Waiting
BY DEF Waiting, Other

(* An event that is taken from the queue and passed on has an update in it. *)
LEMMA ForwardedPasses ==
  ASSUME NEW event \in Waiting, Forwards(event)
  PROVE  \E m \in Messages : event = Event(m) /\ Passes(m)
<1>1. event.type = "UpdateMsg"
  BY DEF Forwards
<1>2. PICK m \in {n \in Messages : ~Refuses(n)} : event = Event(m)
  BY <1>1 DEF Waiting
<1> QED BY <1>2 DEF Passes

LEMMA NextFeedInv ==
  ASSUME FeedInv, [Next]_vars PROVE FeedInv'
<1>1. ASSUME NEW p \in Peers, Establish(p) \/ SessionLost(p) \/ PeerFails(p) PROVE FeedInv'
  BY <1>1, EventsAreReports, ReportsInv DEF Establish, SessionLost, PeerFails
<1>2. ASSUME NEW p \in Peers, NEW m \in Messages, ReceiveUpdate(p, m) PROVE FeedInv'
  <2>1. CASE Refuses(m)
    BY <1>2, <2>1, EventsAreReports, ReportsInv DEF ReceiveUpdate
  <2>2. CASE ~Refuses(m)
    <3>1. Event(m) \in Waiting /\ Reports(p, "Established", Event(m))
      BY <1>2, <2>2, EventsAreReports DEF ReceiveUpdate, Event
    <3> QED BY <3>1, ReportsInv
  <2> QED BY <2>1, <2>2
<1>3. ASSUME NEW p \in Peers, process_bgp_updates(p) PROVE FeedInv'
  <2> DEFINE e == fsm_state_rx[p]
             event == Head(e)
             u == IF Forwards(event) THEN <<try_from(event.msg)>> ELSE <<>>
  <2>1. e \in Seq(Waiting) /\ e # <<>> /\ Len(e) \in Nat /\ MaxEvents \in Nat /\ Len(e) <= MaxEvents
    BY <1>3, LenProperties, BgpUpdatesAssumption DEF FeedInv, process_bgp_updates
  <2>2. event \in Waiting /\ Tail(e) \in Seq(Waiting) /\ Len(Tail(e)) = Len(e) - 1
    BY <2>1, HeadTailProperties
  <2>3. u \in Seq(Updates) /\ Len(u) <= 1
    <3>1. CASE Forwards(event)
      <4>1. PICK m \in Messages : event = Event(m) /\ Passes(m)
        BY <2>2, <3>1, ForwardedPasses
      <4>2. event.msg = m /\ try_from(m) \in Updates
        BY <4>1 DEF Event, Updates
      <4>3. u = <<try_from(m)>>
        BY <3>1, <4>2
      <4> HIDE DEF u
      <4> QED BY <4>2, <4>3
    <3>2. CASE ~Forwards(event)
      BY <3>2
    <3> QED BY <3>1, <3>2
  <2>4. sending' = [sending EXCEPT ![p] = u] /\ fsm_state_rx' = [fsm_state_rx EXCEPT ![p] = Tail(e)]
        /\ UNCHANGED <<session, bgp_updates, controller>>
    BY <1>3 DEF process_bgp_updates
  <2>5. handling' \in [Peers -> BOOLEAN]
    BY <1>3 DEF process_bgp_updates, FeedInv
  <2>6. Len(Tail(e)) <= MaxEvents
    BY <2>1, <2>2
  <2> DEFINE t == Tail(e)
  <2> HIDE DEF u, t
  <2>7. sending' \in [Peers -> Seq(Updates)] /\ \A r \in Peers : Len(sending'[r]) <= 1
    BY <2>3, <2>4 DEF FeedInv
  <2>8. fsm_state_rx' \in [Peers -> Seq(Waiting)] /\ \A r \in Peers : Len(fsm_state_rx'[r]) <= MaxEvents
    <3>1. fsm_state_rx' = [fsm_state_rx EXCEPT ![p] = t] /\ t \in Seq(Waiting) /\ Len(t) <= MaxEvents
      BY <2>2, <2>4, <2>6 DEF t
    <3> QED BY <3>1 DEF FeedInv
  <2> QED BY <2>4, <2>5, <2>7, <2>8 DEF FeedInv
<1>4. ASSUME NEW p \in Peers, send(p) PROVE FeedInv'
  <2> DEFINE x == [peer |-> p, update |-> sending[p][1]]
             q == Append(bgp_updates, x)
  <2>1. sending' = [sending EXCEPT ![p] = <<>>]
        /\ UNCHANGED <<session, fsm_state_rx, handling, controller>>
    BY <1>4 DEF send
  <2>2. x \in Queued
    <3>1. sending[p] \in Seq(Updates) /\ sending[p] # <<>>
      BY <1>4 DEF send, FeedInv
    <3>2. Len(sending[p]) \in Nat \ {0}
      BY <3>1, EmptySeq
    <3>3. sending[p][1] \in Updates
      BY <3>1, <3>2, ElementOfSeq
    <3> QED BY <3>3 DEF Queued
  <2>3. bgp_updates \in Seq(Queued) /\ Len(bgp_updates) \in Nat /\ ChannelCapacity \in Nat
    BY LenProperties, BgpUpdatesAssumption DEF FeedInv
  <2>4. q \in Seq(Queued) /\ Len(q) = Len(bgp_updates) + 1
    BY <2>2, <2>3, AppendProperties
  <2>5. bgp_updates' \in Seq(Queued) /\ Len(bgp_updates') <= ChannelCapacity
    <3>1. CASE controller
      <4>1. Len(bgp_updates) < ChannelCapacity /\ bgp_updates' = q
        BY <1>4, <3>1 DEF send
      <4> HIDE DEF q
      <4> QED BY <2>3, <2>4, <4>1
    <3>2. CASE ~controller
      BY <1>4, <3>2 DEF send, FeedInv
    <3> QED BY <3>1, <3>2
  <2>6. sending' \in [Peers -> Seq(Updates)] /\ \A r \in Peers : Len(sending'[r]) <= 1
    <3>1. <<>> \in Seq(Updates) /\ Len(<<>>) = 0
      BY EmptySeq
    <3> QED BY <2>1, <3>1 DEF FeedInv
  <2> QED BY <2>1, <2>5, <2>6 DEF FeedInv
<1>5. ASSUME recv PROVE FeedInv'
  <2>1. UNCHANGED <<session, fsm_state_rx, sending, handling, controller>>
        /\ bgp_updates # <<>> /\ bgp_updates' = Tail(bgp_updates)
    BY <1>5 DEF recv
  <2>2. bgp_updates \in Seq(Queued) /\ Len(bgp_updates) \in Nat /\ ChannelCapacity \in Nat
        /\ Len(bgp_updates) <= ChannelCapacity
    BY LenProperties, BgpUpdatesAssumption DEF FeedInv
  <2>3. bgp_updates' \in Seq(Queued) /\ Len(bgp_updates') = Len(bgp_updates) - 1
    BY <2>1, <2>2, HeadTailProperties
  <2>4. Len(bgp_updates') <= ChannelCapacity
    BY <2>2, <2>3
  <2> QED BY <2>1, <2>3, <2>4 DEF FeedInv
<1>6. ASSUME Shutdown PROVE FeedInv'
  <2>1. UNCHANGED <<session, fsm_state_rx, sending, handling>> /\ controller' = FALSE
        /\ bgp_updates' = <<>>
    BY <1>6 DEF Shutdown
  <2>2. <<>> \in Seq(Queued) /\ Len(<<>>) = 0
    BY EmptySeq
  <2>3. Len(bgp_updates') <= ChannelCapacity
    BY <2>1, <2>2, BgpUpdatesAssumption
  <2> QED BY <2>1, <2>2, <2>3 DEF FeedInv
<1>7. ASSUME UNCHANGED vars PROVE FeedInv'
  BY <1>7 DEF vars, FeedInv
<1> QED BY <1>1, <1>2, <1>3, <1>4, <1>5, <1>6, <1>7 DEF Next, Ended

LEMMA FeedInvariant == Spec => []FeedInv
<1>1. FeedInv /\ [Next]_vars => FeedInv'
  BY NextFeedInv
<1> QED BY InitFeedInv, <1>1, PTL DEF Spec

(* The queues and the tasks keep their types: in particular the channel that *)
(* all peers share is never overfull, and a task has at most one update to   *)
(* send, for any number of peers.                                            *)
THEOREM FeedTypeCorrect == Spec => []TypeOK
<1>1. Waiting \subseteq Events
  <2>1. ASSUME NEW m \in Messages PROVE Event(m) \in Events
    <3>1. m.errors \in SUBSET DOMAIN TreatmentRank
      BY BgpUpdatesAssumption DEF UpdateMessages
    <3>2. update_treatment(m.errors) \in {Treatments[i] : i \in DOMAIN Treatments}
      BY <3>1, NormalTreatment
    <3> QED BY <3>2 DEF Event, Events
  <2> QED BY <2>1 DEF Waiting, Events
<1>2. FeedInv => TypeOK
  <2> SUFFICES ASSUME FeedInv PROVE TypeOK
    OBVIOUS
  <2>1. ASSUME NEW p \in Peers PROVE fsm_state_rx[p] \in Seq(Events)
    <3>1. fsm_state_rx[p] \in Seq(Waiting)
      BY DEF FeedInv
    <3> QED BY <1>1, <3>1, SeqMonotonic
  <2> QED BY <2>1 DEF FeedInv, TypeOK
<1> QED BY FeedInvariant, <1>2, PTL

---------------------------------------------------------------------------
(* The changes on their way. *)

(* The same, for explicit queues. *)
Contribution(p, x) == IF x.peer = p THEN <<Change(x.update)>> ELSE <<>>
Promise(e) == IF e.type = "UpdateMsg" /\ Valid(e.msg) THEN <<Meaning(e.msg)>> ELSE <<>>
InHand(updates) == [i \in DOMAIN updates |-> Change(updates[i])]
Way(p, queue, updates, events) ==
  FlattenSeq(SentBy(p, queue)) \o InHand(updates) \o FlattenSeq(Reported(events))

LEMMA OnTheWayIsWay ==
  /\ \A p \in Peers : OnTheWay(p) = Way(p, bgp_updates, sending[p], fsm_state_rx[p])
  /\ \A p \in Peers : OnTheWay(p)' = Way(p, bgp_updates', sending'[p], fsm_state_rx'[p])
BY DEF OnTheWay, Way, InHand

(* Every valid message that a peer can send is passed on with its meaning,  *)
(* and no other message is.                                                 *)
AllKeepTheirMeaning ==
  \A m \in Messages : /\ Passes(m) <=> Valid(m)
                      /\ Valid(m) => Change(try_from(m)) = Meaning(m)

LEMMA PassesIfValid ==
  ASSUME AllKeepTheirMeaning, NEW m \in Messages
  PROVE  /\ Passes(m) <=> Valid(m)
         /\ Passes(m) => Change(try_from(m)) = Meaning(m) /\ Meaning(m) \in Changes
<1>1. Passes(m) <=> Valid(m)
  BY DEF AllKeepTheirMeaning
<1>2. Valid(m) => Change(try_from(m)) = Meaning(m)
  BY DEF AllKeepTheirMeaning
<1>3. Valid(m) => Meaning(m) \in Changes
  BY ValidIsMeant DEF Changes
<1> QED BY <1>1, <1>2, <1>3

(* What an event promises, once no message with an error is passed on.      *)
LEMMA PromisedIsPromise ==
  ASSUME AllKeepTheirMeaning, NEW e \in Waiting
  PROVE  Promised(e) = Promise(e)
<1>1. CASE e.type = "UpdateMsg"
  <2>1. PICK m \in Messages : e = Event(m) /\ ~Refuses(m)
    BY <1>1 DEF Waiting
  <2>2. e.msg = m
    BY <2>1 DEF Event
  <2>3. Forwards(e) => Valid(m)
    BY <2>1, PassesIfValid DEF Passes
  <2>4. CASE Valid(m)
    BY <1>1, <2>2, <2>4, ValidIsMeant DEF Promised, Promise
  <2>5. CASE ~Valid(m)
    BY <1>1, <2>2, <2>3, <2>5 DEF Promised, Promise
  <2> QED BY <2>4, <2>5
<1>2. CASE e.type # "UpdateMsg"
  BY <1>2 DEF Promised, Promise
<1> QED BY <1>1, <1>2

LEMMA ContributionType ==
  ASSUME AllKeepTheirMeaning, NEW p, NEW x \in Queued
  PROVE  Contribution(p, x) \in Seq(Changes) /\ Change(x.update) \in Changes
<1>1. PICK m \in Messages : Passes(m) /\ x.update = try_from(m)
  BY DEF Queued, Updates
<1>2. Change(x.update) \in Changes
  BY <1>1, PassesIfValid
<1>3. <<Change(x.update)>> \in Seq(Changes) /\ <<>> \in Seq(Changes)
  BY <1>2
<1> QED BY <1>2, <1>3 DEF Contribution

LEMMA PromiseType ==
  ASSUME AllKeepTheirMeaning, NEW e \in Waiting
  PROVE  Promise(e) \in Seq(Changes)
<1>1. CASE e.type = "UpdateMsg" /\ Valid(e.msg)
  <2>1. PICK m \in Messages : e = Event(m)
    BY <1>1 DEF Waiting
  <2>2. e.msg = m
    BY <2>1 DEF Event
  <2>3. Meaning(e.msg) \in Changes
    BY <1>1, <2>2, ValidIsMeant DEF Changes
  <2>4. <<Meaning(e.msg)>> \in Seq(Changes)
    BY <2>3
  <2> QED BY <1>1, <2>4 DEF Promise
<1>2. CASE ~(e.type = "UpdateMsg" /\ Valid(e.msg))
  <2>1. <<>> \in Seq(Changes)
    OBVIOUS
  <2>2. Promise(e) = <<>>
    BY <1>2 DEF Promise
  <2> QED BY <2>1, <2>2
<1> QED BY <1>1, <1>2

LEMMA SentByProperties ==
  ASSUME AllKeepTheirMeaning, NEW p, NEW queue \in Seq(Queued)
  PROVE  /\ SentBy(p, queue) \in Seq(Seq(Changes))
         /\ Len(SentBy(p, queue)) = Len(queue)
         /\ \A i \in 1..Len(queue) : SentBy(p, queue)[i] = Contribution(p, queue[i])
<1>1. DOMAIN queue = 1..Len(queue) /\ Len(queue) \in Nat
      /\ \A i \in 1..Len(queue) : queue[i] \in Queued
  BY LenProperties, ElementOfSeq
<1> DEFINE s == [i \in 1..Len(queue) |-> Contribution(p, queue[i])]
<1>2. SentBy(p, queue) = s
  BY <1>1 DEF SentBy, Contribution
<1>3. \A i \in 1..Len(queue) : Contribution(p, queue[i]) \in Seq(Changes)
  BY <1>1, ContributionType
<1>4. s \in Seq(Seq(Changes))
  BY <1>1, <1>3
<1>5. Len(s) = Len(queue) /\ \A i \in 1..Len(queue) : s[i] = Contribution(p, queue[i])
  BY <1>1
<1> QED BY <1>2, <1>4, <1>5

LEMMA ReportedProperties ==
  ASSUME AllKeepTheirMeaning, NEW events \in Seq(Waiting)
  PROVE  /\ Reported(events) \in Seq(Seq(Changes))
         /\ Len(Reported(events)) = Len(events)
         /\ \A i \in 1..Len(events) : Reported(events)[i] = Promise(events[i])
<1>1. DOMAIN events = 1..Len(events) /\ Len(events) \in Nat
      /\ \A i \in 1..Len(events) : events[i] \in Waiting
  BY LenProperties, ElementOfSeq
<1> DEFINE s == [i \in 1..Len(events) |-> Promise(events[i])]
<1>2. Reported(events) = s
  <2>1. \A i \in 1..Len(events) : Promised(events[i]) = Promise(events[i])
    BY <1>1, PromisedIsPromise
  <2> QED BY <1>1, <2>1 DEF Reported
<1>3. \A i \in 1..Len(events) : Promise(events[i]) \in Seq(Changes)
  BY <1>1, PromiseType
<1>4. s \in Seq(Seq(Changes))
  BY <1>1, <1>3
<1>5. Len(s) = Len(events) /\ \A i \in 1..Len(events) : s[i] = Promise(events[i])
  BY <1>1
<1> QED BY <1>2, <1>4, <1>5

LEMMA SentAppend ==
  ASSUME AllKeepTheirMeaning, NEW p, NEW queue \in Seq(Queued), NEW x \in Queued
  PROVE  FlattenSeq(SentBy(p, Append(queue, x))) =
           FlattenSeq(SentBy(p, queue)) \o Contribution(p, x)
<1> DEFINE n == Len(queue)
           q == Append(queue, x)
           s == SentBy(p, queue)
           t == SentBy(p, q)
           u == Append(s, Contribution(p, x))
<1>1. n \in Nat /\ q \in Seq(Queued) /\ Len(q) = n + 1 /\ q[n + 1] = x
      /\ \A i \in 1..n : q[i] = queue[i]
  BY LenProperties, AppendProperties
<1> HIDE DEF q
<1>2. s \in Seq(Seq(Changes)) /\ Len(s) = n /\ \A i \in 1..n : s[i] = Contribution(p, queue[i])
  BY SentByProperties
<1>3. t \in Seq(Seq(Changes)) /\ Len(t) = n + 1 /\ \A i \in 1..(n + 1) : t[i] = Contribution(p, q[i])
  BY <1>1, SentByProperties
<1>4. Contribution(p, x) \in Seq(Changes)
  BY ContributionType
<1> HIDE DEF s, t
<1>5. u \in Seq(Seq(Changes)) /\ Len(u) = n + 1 /\ u[n + 1] = Contribution(p, x)
      /\ \A i \in 1..n : u[i] = s[i]
  BY <1>2, <1>4, AppendProperties
<1> HIDE DEF u
<1>6. ASSUME NEW i \in 1..Len(t) PROVE t[i] = u[i]
  <2>1. CASE i = n + 1
    BY <1>1, <1>3, <1>5, <2>1
  <2>2. CASE i # n + 1
    <3>1. i \in 1..n /\ i \in 1..(n + 1)
      BY <1>1, <1>3, <2>2
    <3>2. t[i] = Contribution(p, q[i]) /\ q[i] = queue[i] /\ u[i] = s[i]
          /\ s[i] = Contribution(p, queue[i])
      BY <1>1, <1>2, <1>3, <1>5, <3>1
    <3> QED BY <3>2
  <2> QED BY <2>1, <2>2
<1>7. t = u
  BY <1>3, <1>5, <1>6, SeqEqual
<1>8. FlattenSeq(u) = FlattenSeq(s) \o Contribution(p, x)
  BY <1>2, <1>4, FlattenAppend DEF u
<1> QED BY <1>7, <1>8 DEF s, t, q

LEMMA ReportedAppend ==
  ASSUME AllKeepTheirMeaning, NEW events \in Seq(Waiting), NEW e \in Waiting
  PROVE  FlattenSeq(Reported(Append(events, e))) = FlattenSeq(Reported(events)) \o Promise(e)
<1> DEFINE n == Len(events)
           q == Append(events, e)
           s == Reported(events)
           t == Reported(q)
           u == Append(s, Promise(e))
<1>1. n \in Nat /\ q \in Seq(Waiting) /\ Len(q) = n + 1 /\ q[n + 1] = e
      /\ \A i \in 1..n : q[i] = events[i]
  BY LenProperties, AppendProperties
<1> HIDE DEF q
<1>2. s \in Seq(Seq(Changes)) /\ Len(s) = n /\ \A i \in 1..n : s[i] = Promise(events[i])
  BY ReportedProperties
<1>3. t \in Seq(Seq(Changes)) /\ Len(t) = n + 1 /\ \A i \in 1..(n + 1) : t[i] = Promise(q[i])
  BY <1>1, ReportedProperties
<1>4. Promise(e) \in Seq(Changes)
  BY PromiseType
<1> HIDE DEF s, t
<1>5. u \in Seq(Seq(Changes)) /\ Len(u) = n + 1 /\ u[n + 1] = Promise(e)
      /\ \A i \in 1..n : u[i] = s[i]
  BY <1>2, <1>4, AppendProperties
<1> HIDE DEF u
<1>6. ASSUME NEW i \in 1..Len(t) PROVE t[i] = u[i]
  <2>1. CASE i = n + 1
    BY <1>1, <1>3, <1>5, <2>1
  <2>2. CASE i # n + 1
    <3>1. i \in 1..n /\ i \in 1..(n + 1)
      BY <1>1, <1>3, <2>2
    <3>2. t[i] = Promise(q[i]) /\ q[i] = events[i] /\ u[i] = s[i] /\ s[i] = Promise(events[i])
      BY <1>1, <1>2, <1>3, <1>5, <3>1
    <3> QED BY <3>2
  <2> QED BY <2>1, <2>2
<1>7. t = u
  BY <1>3, <1>5, <1>6, SeqEqual
<1>8. FlattenSeq(u) = FlattenSeq(s) \o Promise(e)
  BY <1>2, <1>4, FlattenAppend DEF u
<1> QED BY <1>7, <1>8 DEF s, t, q

LEMMA SentTail ==
  ASSUME AllKeepTheirMeaning, NEW p, NEW queue \in Seq(Queued), queue # <<>>
  PROVE  FlattenSeq(SentBy(p, queue)) =
           Contribution(p, Head(queue)) \o FlattenSeq(SentBy(p, Tail(queue)))
<1> DEFINE n == Len(queue)
           s == SentBy(p, queue)
           q == Tail(queue)
           t == SentBy(p, q)
           u == Tail(s)
<1>1. n \in Nat /\ n > 0 /\ q \in Seq(Queued) /\ Len(q) = n - 1 /\ Head(queue) = queue[1]
      /\ \A i \in 1..(n - 1) : q[i] = queue[i + 1]
  BY EmptySeq, HeadTailProperties
<1> HIDE DEF q
<1>2. s \in Seq(Seq(Changes)) /\ Len(s) = n /\ \A i \in 1..n : s[i] = Contribution(p, queue[i])
  BY SentByProperties
<1>3. t \in Seq(Seq(Changes)) /\ Len(t) = n - 1 /\ \A i \in 1..(n - 1) : t[i] = Contribution(p, q[i])
  BY <1>1, SentByProperties
<1> HIDE DEF s, t
<1>4. s # <<>>
  BY <1>1, <1>2
<1>5. u \in Seq(Seq(Changes)) /\ Len(u) = n - 1 /\ Head(s) = s[1]
      /\ \A i \in 1..(n - 1) : u[i] = s[i + 1]
  BY <1>1, <1>2, <1>4, HeadTailProperties
<1> HIDE DEF u
<1>6. ASSUME NEW i \in 1..Len(t) PROVE t[i] = u[i]
  <2>1. i \in 1..(n - 1) /\ i + 1 \in 1..n
    BY <1>1, <1>3
  <2>2. t[i] = Contribution(p, q[i]) /\ q[i] = queue[i + 1] /\ u[i] = s[i + 1]
        /\ s[i + 1] = Contribution(p, queue[i + 1])
    BY <1>1, <1>2, <1>3, <1>5, <2>1
  <2> QED BY <2>2
<1>7. t = u
  BY <1>3, <1>5, <1>6, SeqEqual
<1>8. FlattenSeq(s) = Head(s) \o FlattenSeq(u)
  BY <1>2, <1>4, FlattenHead DEF u
<1>9. Head(s) = Contribution(p, Head(queue))
  BY <1>1, <1>2, <1>5
<1> QED BY <1>7, <1>8, <1>9 DEF s, t, q

LEMMA ReportedTail ==
  ASSUME AllKeepTheirMeaning, NEW events \in Seq(Waiting), events # <<>>
  PROVE  FlattenSeq(Reported(events)) = Promise(Head(events)) \o FlattenSeq(Reported(Tail(events)))
<1> DEFINE n == Len(events)
           s == Reported(events)
           q == Tail(events)
           t == Reported(q)
           u == Tail(s)
<1>1. n \in Nat /\ n > 0 /\ q \in Seq(Waiting) /\ Len(q) = n - 1 /\ Head(events) = events[1]
      /\ \A i \in 1..(n - 1) : q[i] = events[i + 1]
  BY EmptySeq, HeadTailProperties
<1> HIDE DEF q
<1>2. s \in Seq(Seq(Changes)) /\ Len(s) = n /\ \A i \in 1..n : s[i] = Promise(events[i])
  BY ReportedProperties
<1>3. t \in Seq(Seq(Changes)) /\ Len(t) = n - 1 /\ \A i \in 1..(n - 1) : t[i] = Promise(q[i])
  BY <1>1, ReportedProperties
<1> HIDE DEF s, t
<1>4. s # <<>>
  BY <1>1, <1>2
<1>5. u \in Seq(Seq(Changes)) /\ Len(u) = n - 1 /\ Head(s) = s[1]
      /\ \A i \in 1..(n - 1) : u[i] = s[i + 1]
  BY <1>1, <1>2, <1>4, HeadTailProperties
<1> HIDE DEF u
<1>6. ASSUME NEW i \in 1..Len(t) PROVE t[i] = u[i]
  <2>1. i \in 1..(n - 1) /\ i + 1 \in 1..n
    BY <1>1, <1>3
  <2>2. t[i] = Promise(q[i]) /\ q[i] = events[i + 1] /\ u[i] = s[i + 1]
        /\ s[i + 1] = Promise(events[i + 1])
    BY <1>1, <1>2, <1>3, <1>5, <2>1
  <2> QED BY <2>2
<1>7. t = u
  BY <1>3, <1>5, <1>6, SeqEqual
<1>8. FlattenSeq(s) = Head(s) \o FlattenSeq(u)
  BY <1>2, <1>4, FlattenHead DEF u
<1>9. Head(s) = Promise(Head(events))
  BY <1>1, <1>2, <1>5
<1> QED BY <1>7, <1>8, <1>9 DEF s, t, q

(* The three parts of what is on its way. *)
LEMMA WayType ==
  ASSUME AllKeepTheirMeaning, NEW p, NEW queue \in Seq(Queued), NEW updates \in Seq(Updates),
         NEW events \in Seq(Waiting)
  PROVE  /\ FlattenSeq(SentBy(p, queue)) \in Seq(Changes)
         /\ InHand(updates) \in Seq(Changes)
         /\ FlattenSeq(Reported(events)) \in Seq(Changes)
         /\ Way(p, queue, updates, events) \in Seq(Changes)
<1>1. FlattenSeq(SentBy(p, queue)) \in Seq(Changes)
  BY SentByProperties, FlattenType
<1>2. FlattenSeq(Reported(events)) \in Seq(Changes)
  BY ReportedProperties, FlattenType
<1>3. InHand(updates) \in Seq(Changes)
  <2>1. DOMAIN updates = 1..Len(updates) /\ Len(updates) \in Nat
        /\ \A i \in 1..Len(updates) : updates[i] \in Updates
    BY LenProperties, ElementOfSeq
  <2>2. \A u \in Updates : Change(u) \in Changes
    BY PassesIfValid DEF Updates
  <2> DEFINE s == [i \in 1..Len(updates) |-> Change(updates[i])]
  <2>3. s \in Seq(Changes)
    BY <2>1, <2>2
  <2>4. InHand(updates) = s
    BY <2>1 DEF InHand
  <2> QED BY <2>3, <2>4
<1>4. FlattenSeq(SentBy(p, queue)) \o InHand(updates) \in Seq(Changes)
  BY <1>1, <1>3, ConcatProperties
<1> QED BY <1>1, <1>2, <1>3, <1>4, ConcatProperties DEF Way

LEMMA HandOfOne == \A u : InHand(<<u>>) = <<Change(u)>> /\ InHand(<<>>) = <<>>
<1>1. ASSUME NEW u PROVE InHand(<<u>>) = <<Change(u)>>
  BY DEF InHand
<1>2. InHand(<<>>) = <<>>
  BY DEF InHand
<1> QED BY <1>1, <1>2

(* A report adds its promise at the end. *)
LEMMA WayReport ==
  ASSUME AllKeepTheirMeaning, NEW p, NEW queue \in Seq(Queued), NEW updates \in Seq(Updates),
         NEW events \in Seq(Waiting), NEW e \in Waiting
  PROVE  Way(p, queue, updates, Append(events, e)) = Way(p, queue, updates, events) \o Promise(e)
<1> DEFINE a == FlattenSeq(SentBy(p, queue)) \o InHand(updates)
           c == FlattenSeq(Reported(events))
           d == Promise(e)
<1>1. a \in Seq(Changes) /\ c \in Seq(Changes) /\ d \in Seq(Changes)
  BY WayType, ConcatProperties, PromiseType
<1>2. Way(p, queue, updates, Append(events, e)) = a \o (c \o d)
  BY ReportedAppend DEF Way
<1>3. Way(p, queue, updates, events) = a \o c
  BY DEF Way
<1> HIDE DEF a, c, d
<1>4. (a \o c) \o d = a \o (c \o d)
  BY <1>1, ConcatAssociative, SMTT(30)
<1> QED BY <1>2, <1>3, <1>4 DEF d

(* process_bgp_updates moves a change from the event into the hand.         *)
LEMMA WayProcess ==
  ASSUME AllKeepTheirMeaning, NEW p, NEW queue \in Seq(Queued), NEW updates \in Seq(Updates),
         NEW events \in Seq(Waiting), events # <<>>, InHand(updates) = Promise(Head(events))
  PROVE  Way(p, queue, updates, Tail(events)) = Way(p, queue, <<>>, events)
<1> DEFINE a == FlattenSeq(SentBy(p, queue))
           b == InHand(updates)
           c == FlattenSeq(Reported(Tail(events)))
<1>0. Tail(events) \in Seq(Waiting)
  BY HeadTailProperties
<1>1. a \in Seq(Changes) /\ b \in Seq(Changes) /\ c \in Seq(Changes)
  BY <1>0, WayType
<1>2. Way(p, queue, <<>>, events) = (a \o <<>>) \o (b \o c)
  BY ReportedTail, HandOfOne DEF Way
<1>3. Way(p, queue, updates, Tail(events)) = (a \o b) \o c
  BY DEF Way
<1> HIDE DEF a, b, c
<1>4. (a \o b) \o c = a \o (b \o c)
  <2>1. Join(Join(a, b), c) = Join(a, Join(b, c))
    BY <1>1, JoinAssociative
  <2> QED BY <2>1 DEF Join
<1>5. a \o <<>> = a
  BY <1>1, ConcatEmptySeq
<1> QED BY <1>2, <1>3, <1>4, <1>5

(* send moves it from the hand into the channel. *)
LEMMA WaySend ==
  ASSUME AllKeepTheirMeaning, NEW p \in Peers, NEW queue \in Seq(Queued), NEW u \in Updates,
         NEW events \in Seq(Waiting)
  PROVE  Way(p, Append(queue, [peer |-> p, update |-> u]), <<>>, events) =
           Way(p, queue, <<u>>, events)
<1> DEFINE x == [peer |-> p, update |-> u]
           a == FlattenSeq(SentBy(p, queue))
           b == Contribution(p, x)
           c == FlattenSeq(Reported(events))
<1>1. x \in Queued
  BY DEF Queued
<1>2. b = <<Change(u)>> /\ InHand(<<u>>) = b
  BY HandOfOne DEF Contribution
<1>3. a \in Seq(Changes) /\ b \in Seq(Changes) /\ c \in Seq(Changes)
  <2>1. <<>> \in Seq(Updates)
    OBVIOUS
  <2> QED BY <1>1, <2>1, WayType, ContributionType
<1>4. FlattenSeq(SentBy(p, Append(queue, x))) = a \o b
  BY <1>1, SentAppend
<1>5. Way(p, Append(queue, x), <<>>, events) = ((a \o b) \o <<>>) \o c
  BY <1>4, HandOfOne DEF Way
<1>6. Way(p, queue, <<u>>, events) = (a \o b) \o c
  BY <1>2 DEF Way
<1> HIDE DEF a, b, c, x
<1>7. (a \o b) \o <<>> = a \o b
  BY <1>3, ConcatProperties, ConcatEmptySeq
<1> QED BY <1>5, <1>6, <1>7 DEF x

LEMMA WaySendOther ==
  ASSUME AllKeepTheirMeaning, NEW p, NEW queue \in Seq(Queued), NEW updates \in Seq(Updates),
         NEW events \in Seq(Waiting), NEW x \in Queued, x.peer # p
  PROVE  Way(p, Append(queue, x), updates, events) = Way(p, queue, updates, events)
<1> DEFINE a == FlattenSeq(SentBy(p, queue))
<1>1. a \in Seq(Changes)
  BY WayType
<1>2. FlattenSeq(SentBy(p, Append(queue, x))) = a \o <<>>
  BY SentAppend DEF Contribution
<1>3. a \o <<>> = a
  BY <1>1, ConcatEmptySeq
<1> QED BY <1>2, <1>3 DEF Way

(* recv takes the first change of the peer whose update is at the head.     *)
LEMMA WayRecv ==
  ASSUME AllKeepTheirMeaning, NEW p, NEW queue \in Seq(Queued), NEW updates \in Seq(Updates),
         NEW events \in Seq(Waiting), queue # <<>>
  PROVE  Way(p, queue, updates, events) =
           Contribution(p, Head(queue)) \o Way(p, Tail(queue), updates, events)
<1> DEFINE h == Contribution(p, Head(queue))
           a == FlattenSeq(SentBy(p, Tail(queue)))
           b == InHand(updates)
           c == FlattenSeq(Reported(events))
<1>1. Head(queue) \in Queued /\ Tail(queue) \in Seq(Queued)
  BY HeadTailProperties
<1>2. a \in Seq(Changes) /\ b \in Seq(Changes) /\ c \in Seq(Changes) /\ h \in Seq(Changes)
  BY <1>1, WayType, ContributionType
<1>3. Way(p, queue, updates, events) = ((h \o a) \o b) \o c
  BY SentTail DEF Way
<1>4. Way(p, Tail(queue), updates, events) = (a \o b) \o c
  BY DEF Way
<1> HIDE DEF a, b, c, h
<1>5. (h \o a) \o b = h \o (a \o b) /\ a \o b \in Seq(Changes)
  BY <1>2, ConcatAssociative, ConcatProperties, SMTT(30)
<1> DEFINE d == a \o b
<1> HIDE DEF d
<1>6. (h \o d) \o c = h \o (d \o c)
  <2>1. d \in Seq(Changes)
    BY <1>5 DEF d
  <2>2. Join(Join(h, d), c) = Join(h, Join(d, c))
    BY <1>2, <2>1, JoinAssociative
  <2> QED BY <2>2 DEF Join
<1> QED BY <1>3, <1>4, <1>5, <1>6 DEF d, h

---------------------------------------------------------------------------
(* The refinement. *)

Pending == [p \in Peers |-> IF controller THEN OnTheWay(p) ELSE <<>>]

(* The queues of a peer have the types that the lemmas above ask for. *)
LEMMA QueueTypes ==
  ASSUME FeedInv, NEW p \in Peers
  PROVE  bgp_updates \in Seq(Queued) /\ sending[p] \in Seq(Updates) /\ fsm_state_rx[p] \in Seq(Waiting)
BY DEF FeedInv

(* A step that leaves every peer's changes where they are in their order is *)
(* a stutter of RouteFeed.                                                  *)
LEMMA SamePending ==
  ASSUME controller' = controller, controller => \A p \in Peers : OnTheWay(p)' = OnTheWay(p)
  PROVE  Pending' = Pending
<1>1. CASE controller
  <2>1. Pending = [p \in Peers |-> OnTheWay(p)]
    BY <1>1 DEF Pending
  <2>2. Pending' = [p \in Peers |-> OnTheWay(p)']
    BY <1>1 DEF Pending
  <2> QED BY <1>1, <2>1, <2>2
<1>2. CASE ~controller
  <2>1. Pending = [p \in Peers |-> <<>>] /\ Pending' = [p \in Peers |-> <<>>]
    BY <1>2 DEF Pending
  <2> QED BY <2>1
<1> QED BY <1>1, <1>2

(* A report that promises nothing. *)
LEMMA EmptyReport ==
  ASSUME AllKeepTheirMeaning, FeedInv, NEW p \in Peers, NEW state, NEW event \in Waiting,
         Promise(event) = <<>>, Reports(p, state, event)
  PROVE  Pending' = Pending
<1>1. UNCHANGED <<sending, bgp_updates, controller>>
      /\ fsm_state_rx' = [fsm_state_rx EXCEPT ![p] = Append(@, event)]
  BY DEF Reports
<1>2. ASSUME NEW r \in Peers PROVE OnTheWay(r)' = OnTheWay(r)
  <2> DEFINE w == Way(r, bgp_updates, sending[r], fsm_state_rx[r])
  <2>1. CASE r = p
    <3>1. fsm_state_rx'[r] = Append(fsm_state_rx[r], event)
      BY <1>1, <2>1 DEF FeedInv
    <3>2. OnTheWay(r)' = Way(r, bgp_updates, sending[r], Append(fsm_state_rx[r], event))
      BY <1>1, <3>1, OnTheWayIsWay
    <3>3. OnTheWay(r)' = w \o Promise(event)
      <4>1. bgp_updates \in Seq(Queued) /\ sending[r] \in Seq(Updates) /\ fsm_state_rx[r] \in Seq(Waiting)
        BY QueueTypes
      <4> QED BY <3>2, <4>1, WayReport
    <3>4. w \o <<>> = w
      BY QueueTypes, WayType, ConcatEmptySeq
    <3> QED BY <3>3, <3>4, OnTheWayIsWay
  <2>2. CASE r # p
    <3>1. fsm_state_rx'[r] = fsm_state_rx[r]
      BY <1>1, <2>2 DEF FeedInv
    <3> QED BY <1>1, <3>1, OnTheWayIsWay
  <2> QED BY <2>1, <2>2
<1> QED BY <1>1, <1>2, SamePending

(* A valid message is a change that its peer makes. *)
LEMMA ValidReport ==
  ASSUME AllKeepTheirMeaning, FeedInv, NEW p \in Peers, NEW m \in Messages, Valid(m),
         Event(m) \in Waiting, Reports(p, "Established", Event(m))
  PROVE  \/ Pending' = Pending /\ UNCHANGED <<rib, controller>>
         \/ Feed!Advertise(p, Meaning(m)) /\ Meaning(m) \in Changes
<1> DEFINE c == Meaning(m)
<1>1. UNCHANGED <<sending, bgp_updates, controller, rib>>
      /\ fsm_state_rx' = [fsm_state_rx EXCEPT ![p] = Append(@, Event(m))]
  BY DEF Reports
<1>2. c \in Changes
  BY ValidIsMeant DEF Changes
<1>3. Promise(Event(m)) = <<c>>
  BY DEF Promise, Event
<1>4. CASE ~controller
  BY <1>1, <1>4, SamePending
<1>5. CASE controller
  <2>1. ASSUME NEW r \in Peers, r # p PROVE OnTheWay(r)' = OnTheWay(r)
    <3>1. fsm_state_rx'[r] = fsm_state_rx[r]
      BY <1>1, <2>1 DEF FeedInv
    <3> QED BY <1>1, <3>1, OnTheWayIsWay
  <2>2. OnTheWay(p)' = Append(OnTheWay(p), c)
    <3> DEFINE w == OnTheWay(p)
    <3>1. fsm_state_rx'[p] = Append(fsm_state_rx[p], Event(m))
      BY <1>1 DEF FeedInv
    <3>2. OnTheWay(p)' = Way(p, bgp_updates, sending[p], Append(fsm_state_rx[p], Event(m)))
      BY <1>1, <3>1, OnTheWayIsWay
    <3>3. OnTheWay(p)' = w \o <<c>>
      <4>1. bgp_updates \in Seq(Queued) /\ sending[p] \in Seq(Updates) /\ fsm_state_rx[p] \in Seq(Waiting)
        BY QueueTypes
      <4>2. OnTheWay(p)' = Way(p, bgp_updates, sending[p], fsm_state_rx[p]) \o Promise(Event(m))
        BY <3>2, <4>1, WayReport
      <4>3. w = Way(p, bgp_updates, sending[p], fsm_state_rx[p])
        BY OnTheWayIsWay
      <4> HIDE DEF w, c
      <4> QED BY <1>3, <4>2, <4>3
    <3>4. w \in Seq(Changes)
      BY QueueTypes, WayType, OnTheWayIsWay
    <3> HIDE DEF w, c
    <3>5. Append(w, c) = w \o <<c>>
      BY <1>2, <3>4, AppendIsConcat
    <3> QED BY <3>3, <3>5 DEF w
  <2>3. Pending = [r \in Peers |-> OnTheWay(r)] /\ Pending' = [r \in Peers |-> OnTheWay(r)']
    BY <1>1, <1>5 DEF Pending
  <2>4. Pending' = [Pending EXCEPT ![p] = Append(@, c)]
    <3> HIDE DEF c
    <3> QED BY <2>1, <2>2, <2>3
  <2>5. Feed!Advertise(p, c)
    BY <1>1, <1>5, <2>4 DEF Feed!Advertise, Pending
  <2> QED BY <1>2, <2>5
<1> QED BY <1>4, <1>5

LEMMA HeadTailOfCons ==
  ASSUME NEW S, NEW c \in S, NEW v \in Seq(S), NEW w, w = <<c>> \o v
  PROVE  w # <<>> /\ Head(w) = c /\ Tail(w) = v
<1>1. <<c>> \in Seq(S) /\ Len(<<c>>) = 1 /\ <<c>>[1] = c
  OBVIOUS
<1>2. Len(v) \in Nat
  BY LenProperties
<1>3. w \in Seq(S) /\ Len(w) = 1 + Len(v)
      /\ \A i \in 1..(1 + Len(v)) : w[i] = IF i <= 1 THEN <<c>>[i] ELSE v[i - 1]
  BY <1>1, ConcatProperties
<1>4. Len(w) # 0 /\ w[1] = c /\ w # <<>>
  BY <1>1, <1>2, <1>3, EmptySeq
<1>5. Head(w) = c
  BY <1>4
<1>6. Tail(w) \in Seq(S) /\ Len(Tail(w)) = Len(v) /\ \A i \in 1..Len(v) : Tail(w)[i] = w[i + 1]
  BY <1>2, <1>3, <1>4, HeadTailProperties
<1>7. ASSUME NEW i \in 1..Len(v) PROVE Tail(w)[i] = v[i]
  <2>1. i + 1 \in 1..(1 + Len(v)) /\ ~(i + 1 <= 1) /\ (i + 1) - 1 = i
    BY <1>2
  <2> QED BY <1>3, <1>6, <2>1
<1>8. Tail(w) = v
  BY <1>6, <1>7, SeqEqual
<1> QED BY <1>4, <1>5, <1>8

(* What is passed on is what the event promises. *)
LEMMA PassedAsPromised ==
  ASSUME AllKeepTheirMeaning, NEW event \in Waiting
  PROVE  InHand(IF Forwards(event) THEN <<try_from(event.msg)>> ELSE <<>>) = Promise(event)
<1>1. CASE Forwards(event)
  <2>1. PICK m \in Messages : event = Event(m) /\ Passes(m)
    BY <1>1, ForwardedPasses
  <2>2. event.type = "UpdateMsg" /\ event.msg = m
    BY <2>1 DEF Event
  <2>3. Valid(m) /\ Change(try_from(m)) = Meaning(m)
    BY <2>1, PassesIfValid
  <2>4. Promise(event) = <<Meaning(m)>>
    BY <2>2, <2>3 DEF Promise
  <2>5. InHand(<<try_from(m)>>) = <<Change(try_from(m))>>
    BY HandOfOne
  <2> QED BY <1>1, <2>2, <2>3, <2>4, <2>5
<1>2. CASE ~Forwards(event)
  <2>1. ~(event.type = "UpdateMsg" /\ Valid(event.msg))
    <3> SUFFICES ASSUME event.type = "UpdateMsg", Valid(event.msg) PROVE FALSE
      OBVIOUS
    <3>1. PICK m \in Messages : event = Event(m)
      BY DEF Waiting
    <3>2. event.msg = m
      BY <3>1 DEF Event
    <3>3. Passes(m)
      BY <3>2, PassesIfValid
    <3> QED BY <1>2, <3>1, <3>3 DEF Passes
  <2>2. Promise(event) = <<>>
    BY <2>1 DEF Promise
  <2> QED BY <1>2, <2>2, HandOfOne
<1> QED BY <1>1, <1>2

LEMMA ProcessStutters ==
  ASSUME AllKeepTheirMeaning, FeedInv, FeedInv', NEW p \in Peers, process_bgp_updates(p)
  PROVE  Pending' = Pending
<1> DEFINE e == fsm_state_rx[p]
           event == Head(e)
           u == IF Forwards(event) THEN <<try_from(event.msg)>> ELSE <<>>
<1>1. UNCHANGED <<bgp_updates, controller>> /\ sending[p] = <<>> /\ e # <<>>
      /\ sending' = [sending EXCEPT ![p] = u] /\ fsm_state_rx' = [fsm_state_rx EXCEPT ![p] = Tail(e)]
  BY DEF process_bgp_updates
<1>2. bgp_updates \in Seq(Queued) /\ e \in Seq(Waiting)
  BY QueueTypes
<1>3. event \in Waiting
  BY <1>1, <1>2, HeadTailProperties
<1>4. InHand(u) = Promise(event)
  BY <1>3, PassedAsPromised
<1> HIDE DEF u, e
<1>5. sending'[p] = u /\ fsm_state_rx'[p] = Tail(e) /\ u \in Seq(Updates)
  BY <1>1 DEF FeedInv
<1>6. ASSUME NEW r \in Peers PROVE OnTheWay(r)' = OnTheWay(r)
  <2>1. CASE r = p
    <3>1. OnTheWay(p)' = Way(p, bgp_updates, u, Tail(e))
      BY <1>1, <1>5, OnTheWayIsWay
    <3>2. OnTheWay(p) = Way(p, bgp_updates, <<>>, e)
      BY <1>1, OnTheWayIsWay DEF e
    <3>3. Way(p, bgp_updates, u, Tail(e)) = Way(p, bgp_updates, <<>>, e)
      BY <1>1, <1>2, <1>4, <1>5, WayProcess
    <3> QED BY <2>1, <3>1, <3>2, <3>3
  <2>2. CASE r # p
    <3>1. fsm_state_rx'[r] = fsm_state_rx[r] /\ sending'[r] = sending[r]
      BY <1>1, <2>2 DEF FeedInv
    <3> QED BY <1>1, <3>1, OnTheWayIsWay
  <2> QED BY <2>1, <2>2
<1> QED BY <1>1, <1>6, SamePending

LEMMA SendStutters ==
  ASSUME AllKeepTheirMeaning, FeedInv, NEW p \in Peers, send(p)
  PROVE  Pending' = Pending
<1> DEFINE u == sending[p][1]
           x == [peer |-> p, update |-> u]
<1>1. UNCHANGED <<fsm_state_rx, controller>> /\ sending[p] # <<>>
      /\ sending' = [sending EXCEPT ![p] = <<>>]
  BY DEF send
<1>5. ASSUME controller PROVE bgp_updates' = Append(bgp_updates, x)
  BY <1>5 DEF send
<1>2. sending[p] = <<u>> /\ u \in Updates
  <2>1. sending[p] \in Seq(Updates) /\ Len(sending[p]) <= 1
    BY DEF FeedInv
  <2>2. Len(sending[p]) \in Nat \ {0}
    BY <1>1, <2>1, EmptySeq
  <2>3. Len(sending[p]) = 1
    <3> DEFINE n == Len(sending[p])
    <3>1. n \in Nat /\ n # 0 /\ n <= 1
      BY <2>1, <2>2
    <3> HIDE DEF n
    <3>2. n = 1
      BY <3>1
    <3> QED BY <3>2 DEF n
  <2>4. u \in Updates
    BY <2>1, <2>3, ElementOfSeq
  <2>5. <<u>> \in Seq(Updates) /\ Len(<<u>>) = 1 /\ <<u>>[1] = u
    BY <2>4
  <2> DEFINE s == sending[p]
             t == <<u>>
  <2>6. s \in Seq(Updates) /\ t \in Seq(Updates) /\ Len(s) = Len(t) /\ \A i \in 1..Len(s) : s[i] = t[i]
    BY <2>1, <2>3, <2>5
  <2> HIDE DEF s, t
  <2>7. s = t
    BY <2>6, SeqEqual
  <2> QED BY <2>4, <2>7 DEF s, t
<1> HIDE DEF u
<1>3. x \in Queued /\ x.peer = p
  BY <1>2 DEF Queued
<1> HIDE DEF x
<1>4. ASSUME controller, NEW r \in Peers PROVE OnTheWay(r)' = OnTheWay(r)
  <2>0. bgp_updates \in Seq(Queued) /\ sending[r] \in Seq(Updates) /\ fsm_state_rx[r] \in Seq(Waiting)
    BY QueueTypes
  <2>3. bgp_updates' = Append(bgp_updates, x) /\ fsm_state_rx' = fsm_state_rx
    BY <1>1, <1>4, <1>5
  <2>1. CASE r = p
    <3>1. sending'[p] = <<>>
      BY <1>1 DEF FeedInv
    <3>2. OnTheWay(p)' = Way(p, Append(bgp_updates, x), <<>>, fsm_state_rx[p])
      BY <2>3, <3>1, OnTheWayIsWay
    <3>3. OnTheWay(p) = Way(p, bgp_updates, <<u>>, fsm_state_rx[p])
      BY <1>2, OnTheWayIsWay
    <3>4. Way(p, Append(bgp_updates, x), <<>>, fsm_state_rx[p])
            = Way(p, bgp_updates, <<u>>, fsm_state_rx[p])
      BY <1>2, <2>0, <2>1, WaySend DEF x
    <3> QED BY <2>1, <3>2, <3>3, <3>4
  <2>2. CASE r # p
    <3>1. sending'[r] = sending[r]
      BY <1>1, <2>2 DEF FeedInv
    <3>2. OnTheWay(r)' = Way(r, Append(bgp_updates, x), sending[r], fsm_state_rx[r])
      BY <2>3, <3>1, OnTheWayIsWay
    <3>3. Way(r, Append(bgp_updates, x), sending[r], fsm_state_rx[r])
            = Way(r, bgp_updates, sending[r], fsm_state_rx[r])
      BY <1>3, <2>0, <2>2, WaySendOther
    <3> QED BY <3>2, <3>3, OnTheWayIsWay
  <2> QED BY <2>1, <2>2
<1> QED BY <1>1, <1>4, SamePending

(* The controller takes the oldest change of one peer. *)
LEMMA RecvDelivers ==
  ASSUME AllKeepTheirMeaning, FeedInv, recv
  PROVE  \E p \in Peers : Feed!Deliver(p)
<1> DEFINE x == Head(bgp_updates)
           c == Change(x.update)
<1>0. controller /\ controller' /\ UNCHANGED controller
  BY DEF recv
<1>1. UNCHANGED <<sending, fsm_state_rx>>
      /\ bgp_updates # <<>> /\ bgp_updates' = Tail(bgp_updates)
      /\ rib' = Feed!Apply(rib, c)
  BY DEF recv, Feed!Apply
<1>2. bgp_updates \in Seq(Queued) /\ Tail(bgp_updates) \in Seq(Queued) /\ x \in Queued
  BY <1>1, HeadTailProperties DEF FeedInv
<1>3. c \in Changes
  BY <1>2, ContributionType
<1>11. PICK p \in Peers : x.peer = p
  BY <1>2 DEF Queued
<1> HIDE DEF x
<1>4. ASSUME NEW r \in Peers PROVE OnTheWay(r) = Contribution(r, x) \o OnTheWay(r)'
                                   /\ OnTheWay(r)' \in Seq(Changes)
  <2> DEFINE w == Way(r, Tail(bgp_updates), sending[r], fsm_state_rx[r])
  <2>1. bgp_updates \in Seq(Queued) /\ sending[r] \in Seq(Updates) /\ fsm_state_rx[r] \in Seq(Waiting)
    BY QueueTypes
  <2>2. Way(r, bgp_updates, sending[r], fsm_state_rx[r]) = Contribution(r, x) \o w
    BY <1>1, <2>1, WayRecv DEF x
  <2>3. OnTheWay(r)' = w
    BY <1>1, OnTheWayIsWay
  <2>4. w \in Seq(Changes)
    BY <1>2, <2>1, WayType
  <2>5. OnTheWay(r) = Way(r, bgp_updates, sending[r], fsm_state_rx[r])
    BY OnTheWayIsWay
  <2> HIDE DEF w
  <2> QED BY <2>2, <2>3, <2>4, <2>5
<1>5. ASSUME NEW r \in Peers, r # p PROVE OnTheWay(r)' = OnTheWay(r)
  <2>1. Contribution(r, x) = <<>>
    BY <1>5, <1>11 DEF Contribution
  <2> DEFINE v == OnTheWay(r)'
  <2>2. v \in Seq(Changes) /\ OnTheWay(r) = <<>> \o v
    BY <1>4, <2>1
  <2> HIDE DEF v
  <2>3. <<>> \o v = v
    BY <2>2, ConcatEmptySeq
  <2> QED BY <2>2, <2>3 DEF v
<1>6. OnTheWay(p) # <<>> /\ Head(OnTheWay(p)) = c /\ Tail(OnTheWay(p)) = OnTheWay(p)'
  <2>1. Contribution(p, x) = <<c>>
    BY <1>11 DEF Contribution
  <2> DEFINE v == OnTheWay(p)'
             w == OnTheWay(p)
  <2>2. v \in Seq(Changes) /\ w = <<c>> \o v
    BY <1>3, <1>4, <2>1
  <2> HIDE DEF v, w, c
  <2>3. w # <<>> /\ Head(w) = c /\ Tail(w) = v
    BY <1>3, <2>2, HeadTailOfCons
  <2> QED BY <2>3 DEF v, w
<1>7. Pending = [r \in Peers |-> OnTheWay(r)] /\ Pending' = [r \in Peers |-> OnTheWay(r)']
  BY <1>0 DEF Pending
<1> HIDE DEF c
<1>8. Pending' = [Pending EXCEPT ![p] = Tail(@)]
  BY <1>3, <1>5, <1>6, <1>7
<1>9. Pending[p] # <<>> /\ Head(Pending[p]) = c
  BY <1>3, <1>6, <1>7
<1>10. Feed!Deliver(p)
  BY <1>0, <1>1, <1>8, <1>9 DEF Feed!Deliver, Pending
<1> QED BY <1>3, <1>10

LEMMA InitMaps == Init => Feed!Init
<1> SUFFICES ASSUME Init PROVE Feed!Init
  OBVIOUS
<1>1. bgp_updates = <<>> /\ controller /\ controller = TRUE /\ rib = [r \in {} |-> r]
  BY DEF Init
<1>2. ASSUME NEW p \in Peers PROVE OnTheWay(p) = <<>>
  <2>1. sending[p] = <<>> /\ fsm_state_rx[p] = <<>>
    BY DEF Init
  <2>2. SentBy(p, <<>>) = <<>> /\ Reported(<<>>) = <<>>
    BY DEF SentBy, Reported
  <2>3. OnTheWay(p) = <<>> \o <<>> \o <<>>
    BY <1>1, <2>1, <2>2, FlattenEmpty DEF OnTheWay
  <2> QED BY <2>3
<1>3. Pending = [p \in Peers |-> <<>>]
  BY <1>1, <1>2 DEF Pending
<1> QED BY <1>1, <1>3 DEF Feed!Init, Pending

LEMMA StepMaps ==
  ASSUME AllKeepTheirMeaning, FeedInv, FeedInv', [Next]_vars
  PROVE  [Feed!Next]_(Feed!vars)
<1>0. ASSUME Pending' = Pending, UNCHANGED <<rib, controller>> PROVE UNCHANGED Feed!vars
  BY <1>0 DEF Feed!vars, Pending
<1>1. ASSUME NEW p \in Peers, NEW state, NEW event \in {Other, [type |-> "Err"]},
             Reports(p, state, event)
      PROVE  UNCHANGED Feed!vars
  <2>1. event \in Waiting /\ Promise(event) = <<>>
    BY EventsAreReports DEF Promise, Other
  <2>2. Pending' = Pending
    BY <1>1, <2>1, EmptyReport
  <2> QED BY <1>0, <1>1, <2>2 DEF Reports
<1>2. ASSUME NEW p \in Peers, Establish(p) \/ SessionLost(p) \/ PeerFails(p)
      PROVE  UNCHANGED Feed!vars
  BY <1>1, <1>2 DEF Establish, SessionLost, PeerFails
<1>3. ASSUME NEW p \in Peers, NEW m \in Messages, ReceiveUpdate(p, m)
      PROVE  [Feed!Next]_(Feed!vars)
  <2>1. CASE Refuses(m)
    BY <1>1, <1>3, <2>1 DEF ReceiveUpdate
  <2>2. CASE ~Refuses(m)
    <3>1. Event(m) \in Waiting /\ Reports(p, "Established", Event(m))
      BY <1>3, <2>2, EventsAreReports DEF ReceiveUpdate, Event
    <3>2. CASE Valid(m)
      <4>1. \/ Pending' = Pending /\ UNCHANGED <<rib, controller>>
            \/ Feed!Advertise(p, Meaning(m)) /\ Meaning(m) \in Changes
        BY <3>1, <3>2, ValidReport
      <4> QED BY <1>0, <4>1 DEF Feed!Next
    <3>3. CASE ~Valid(m)
      <4>1. Promise(Event(m)) = <<>>
        BY <3>3 DEF Promise, Event
      <4>2. Pending' = Pending
        BY <3>1, <4>1, EmptyReport
      <4> QED BY <1>0, <3>1, <4>2 DEF Reports
    <3> QED BY <3>2, <3>3
  <2> QED BY <2>1, <2>2
<1>4. ASSUME NEW p \in Peers, process_bgp_updates(p) PROVE UNCHANGED Feed!vars
  BY <1>0, <1>4, ProcessStutters DEF process_bgp_updates
<1>5. ASSUME NEW p \in Peers, send(p) PROVE UNCHANGED Feed!vars
  BY <1>0, <1>5, SendStutters DEF send
<1>6. ASSUME recv PROVE Feed!Next
  BY <1>6, RecvDelivers DEF Feed!Next
<1>7. ASSUME Shutdown PROVE Feed!Next
  <2>1. controller' = FALSE /\ ~controller' /\ UNCHANGED rib
    BY <1>7 DEF Shutdown
  <2>2. Pending' = [p \in Peers |-> <<>>]
    BY <2>1 DEF Pending
  <2>3. Feed!Unsubscribe
    BY <2>1, <2>2 DEF Feed!Unsubscribe, Pending
  <2> QED BY <2>3 DEF Feed!Next
<1>8. ASSUME UNCHANGED vars PROVE UNCHANGED Feed!vars
  <2>1. ASSUME NEW p \in Peers PROVE OnTheWay(p)' = OnTheWay(p)
    BY <1>8, OnTheWayIsWay DEF vars
  <2>2. UNCHANGED <<rib, controller>>
    BY <1>8 DEF vars
  <2> QED BY <1>0, <2>1, <2>2, SamePending
<1> QED BY <1>2, <1>3, <1>4, <1>5, <1>6, <1>7, <1>8 DEF Next, Ended

(* The speaker implements RouteFeed: the routes of every valid UPDATE reach  *)
(* the RIB once and in the order of their peer, and nothing does that the    *)
(* treatment of an error excludes, for any number of peers, any capacity of  *)
(* the shared channel and any set of messages without repeated attributes.   *)
THEOREM FeedIsImplemented ==
  ASSUME \A m \in Messages : NothingTwice(m.attributes)
  PROVE  Spec => ImplementsFeed
<1>1. AllKeepTheirMeaning
  <2>1. Messages \subseteq UpdateMessages(Routes)
    BY BgpUpdatesAssumption
  <2>2. ASSUME NEW m \in Messages PROVE Passes(m) <=> Valid(m)
    BY <2>1, PassedIfValid DEF Passes, Event
  <2>3. ASSUME NEW m \in Messages, Valid(m) PROVE Change(try_from(m)) = Meaning(m)
    BY <2>1, <2>3, ReadAsMeant
  <2> QED BY <2>2, <2>3 DEF AllKeepTheirMeaning
<1>2. FeedInv /\ FeedInv' /\ [Next]_vars => [Feed!Next]_(Feed!vars)
  BY <1>1, StepMaps
<1> QED BY FeedInvariant, InitMaps, <1>2, PTL DEF Spec, ImplementsFeed, Feed!Spec
=============================================================================
