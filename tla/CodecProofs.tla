---------------------------- MODULE CodecProofs ----------------------------
(***************************************************************************)
(* Proofs about the stream between two codecs, for every way TCP may cut it *)
(* and whatever the frames are that are no message. What the writers and    *)
(* the readers owe to one message at a time is a hypothesis, LengthsAreExact *)
(* and ReadBackExactly, that the run codec_stream checks for every message  *)
(* the ends can send: here is what the stream makes of it.                  *)
(***************************************************************************)
EXTENDS Codec, SequenceTheorems, WellFoundedInduction, TLAPS

(* A set of numbers that is not empty has a least one. *)
LEMMA Least ==
  ASSUME NEW T \in SUBSET Nat, T # {}
  PROVE  \E x \in T : \A y \in T : x <= y
<1> DEFINE Less == {ss \in Nat \X Nat : ss[1] < ss[2]}
<1>1. IsWellFoundedOn(Less, Nat)
  BY NatLessThanWellFounded DEF OpToRel
<1> HIDE DEF Less
<1>2. PICK x \in T : \A y \in T : ~(<<y, x>> \in Less)
  BY <1>1, WFMin
<1>3. ASSUME NEW y \in T PROVE x <= y
  <2>1. x \in Nat /\ y \in Nat
    OBVIOUS
  <2>2. ~(<<y, x>> \in Nat \X Nat /\ <<y, x>>[1] < <<y, x>>[2])
    BY <1>2 DEF Less
  <2> QED BY <2>1, <2>2
<1> QED BY <1>3

(* Induction up to n, over a set of the numbers that have a property. *)
LEMMA InductUpTo ==
  ASSUME NEW n \in Nat, NEW G, 0 \in G, \A i \in 1..n : i - 1 \in G => i \in G
  PROVE  \A i \in 0..n : i \in G
<1> DEFINE T == {i \in 0..n : i \notin G}
<1> SUFFICES ASSUME T # {} PROVE FALSE
  OBVIOUS
<1>1. T \in SUBSET Nat
  OBVIOUS
<1>2. PICK x \in T : \A y \in T : x <= y
  BY <1>1, Least
<1>3. x \in 1..n /\ x - 1 \in 0..n /\ x \notin G
  OBVIOUS
<1>4. x - 1 \notin G
  BY <1>3
<1>5. x - 1 \in T
  BY <1>3, <1>4
<1> QED BY <1>2, <1>3, <1>5

---------------------------------------------------------------------------
(* FlattenSeq. *)

(* Concatenation, under a name: the provers reason about the recursion      *)
(* without looking into it.                                                 *)
Join(s, t) == s \o t

(* The equation that the partial concatenations satisfy. *)
Partial(f, s, n) ==
  /\ DOMAIN f = 1..n
  /\ f[1] = s[1]
  /\ \A i \in 2..n : f[i] = Join(f[i - 1], s[i])

(* The equation has a solution. *)
LEMMA PartialExists ==
  ASSUME NEW s, NEW n \in Nat, n > 0
  PROVE  \E f : Partial(f, s, n)
<1> DEFINE G == {m \in Nat : \E f : Partial(f, s, m + 1)}
<1>1. 0 \in G
  <2> DEFINE f == [i \in 1..1 |-> s[1]]
  <2>1. Partial(f, s, 0 + 1)
    BY DEF Partial
  <2> QED BY <2>1
<1>2. ASSUME NEW m \in 1..(n - 1), m - 1 \in G PROVE m \in G
  <2>1. PICK f : Partial(f, s, m)
    BY <1>2
  <2> DEFINE g == [j \in 1..(m + 1) |-> IF j = m + 1 THEN Join(f[m], s[m + 1]) ELSE f[j]]
  <2>2. DOMAIN f = 1..m /\ f[1] = s[1] /\ \A j \in 2..m : f[j] = Join(f[j - 1], s[j])
    BY <2>1 DEF Partial
  <2>3. DOMAIN g = 1..(m + 1) /\ g[m + 1] = Join(f[m], s[m + 1]) /\ \A j \in 1..m : g[j] = f[j]
    OBVIOUS
  <2> HIDE DEF g
  <2>4. g[1] = s[1]
    BY <2>2, <2>3
  <2>5. ASSUME NEW j \in 2..(m + 1)
        PROVE  g[j] = Join(g[j - 1], s[j])
    <3>1. CASE j = m + 1
      <4>1. g[m] = f[m] /\ j - 1 = m
        BY <2>3, <3>1
      <4> QED BY <2>3, <3>1, <4>1
    <3>2. CASE j # m + 1
      <4>1. j \in 2..m /\ j \in 1..m /\ j - 1 \in 1..m
        BY <3>2
      <4>2. g[j] = f[j] /\ g[j - 1] = f[j - 1]
        BY <2>3, <4>1
      <4>3. f[j] = Join(f[j - 1], s[j])
        BY <2>2, <4>1
      <4> QED BY <4>2, <4>3
    <3> QED BY <3>1, <3>2
  <2>6. Partial(g, s, m + 1)
    BY <2>3, <2>4, <2>5 DEF Partial
  <2> QED BY <2>6
<1> HIDE DEF G
<1>3. \A i \in 0..(n - 1) : i \in G
  BY <1>1, <1>2, InductUpTo
<1>4. n - 1 \in G /\ (n - 1) + 1 = n
  BY <1>3
<1> QED BY <1>4 DEF G

(* FlattenSeq takes the last value of a solution. *)
LEMMA FlattenIsPartial ==
  ASSUME NEW s, Len(s) \in Nat, Len(s) > 0
  PROVE  \E f : Partial(f, s, Len(s)) /\ FlattenSeq(s) = f[Len(s)]
<1> DEFINE n == Len(s)
           body(f) == [i \in 1..n |-> IF i = 1 THEN s[i] ELSE Join(f[i - 1], s[i])]
           F == CHOOSE f : f = body(f)
<1>1. PICK f : Partial(f, s, n)
  BY PartialExists
<1>2. \E g : g = body(g)
  <2> DEFINE g == [i \in 1..n |-> f[i]]
  <2>0. DOMAIN g = 1..n /\ \A i \in 1..n : g[i] = f[i]
    OBVIOUS
  <2>1. ASSUME NEW i \in 1..n
        PROVE  g[i] = IF i = 1 THEN s[i] ELSE Join(g[i - 1], s[i])
    <3>1. CASE i = 1
      BY <1>1, <2>0, <3>1 DEF Partial
    <3>2. CASE i # 1
      <4>1. i \in 2..n /\ i - 1 \in 1..n
        BY <3>2
      <4>2. g[i] = f[i] /\ g[i - 1] = f[i - 1]
        BY <2>0, <4>1
      <4>3. f[i] = Join(f[i - 1], s[i])
        BY <1>1, <4>1 DEF Partial
      <4> QED BY <3>2, <4>2, <4>3
    <3> QED BY <3>1, <3>2
  <2>2. g = body(g)
    <3>1. body(g) = [i \in 1..n |-> g[i]]
      BY <2>1
    <3> QED BY <3>1
  <2> QED BY <2>2
<1>3. F = body(F)
  <2> HIDE DEF body
  <2> QED BY <1>2
<1>4. FlattenSeq(s) = F[n]
  BY DEF FlattenSeq, Join
<1> HIDE DEF F
<1>5. Partial(F, s, n)
  <2> DEFINE b == body(F)
  <2>1. DOMAIN b = 1..n /\ \A i \in 1..n : b[i] = IF i = 1 THEN s[i] ELSE Join(F[i - 1], s[i])
    OBVIOUS
  <2>2. F = b
    BY <1>3
  <2> HIDE DEF b
  <2>3. DOMAIN F = 1..n /\ \A i \in 1..n : F[i] = IF i = 1 THEN s[i] ELSE Join(F[i - 1], s[i])
    BY <2>1, <2>2
  <2>4. F[1] = s[1]
    BY <2>3
  <2>5. ASSUME NEW i \in 2..n PROVE F[i] = Join(F[i - 1], s[i])
    <3>1. i \in 1..n /\ i # 1
      OBVIOUS
    <3> QED BY <2>3, <3>1
  <2> QED BY <2>3, <2>4, <2>5 DEF Partial
<1> QED BY <1>4, <1>5

(* Partial concatenations are sequences of the same elements. *)
LEMMA PartialType ==
  ASSUME NEW D, NEW s \in Seq(Seq(D)), NEW f, Len(s) > 0, Partial(f, s, Len(s))
  PROVE  \A i \in 1..Len(s) : f[i] \in Seq(D)
<1> DEFINE n == Len(s)
           G == {m \in Nat : m = 0 \/ f[m] \in Seq(D)}
<1>1. n \in Nat /\ \A i \in 1..n : s[i] \in Seq(D)
  BY LenProperties, ElementOfSeq
<1>2. 0 \in G
  OBVIOUS
<1>3. ASSUME NEW i \in 1..n, i - 1 \in G PROVE i \in G
  <2>1. CASE i = 1
    BY <1>1, <2>1 DEF Partial
  <2>2. CASE i # 1
    <3>1. i \in 2..n /\ f[i - 1] \in Seq(D) /\ s[i] \in Seq(D)
      BY <1>1, <1>3, <2>2
    <3>2. f[i] = Join(f[i - 1], s[i])
      BY <3>1 DEF Partial
    <3>3. Join(f[i - 1], s[i]) \in Seq(D)
      BY <3>1, ConcatProperties DEF Join
    <3> QED BY <3>2, <3>3
  <2> QED BY <2>1, <2>2
<1> HIDE DEF G
<1>4. \A i \in 0..n : i \in G
  BY <1>1, <1>2, <1>3, InductUpTo
<1> QED BY <1>1, <1>4 DEF G

LEMMA FlattenEmpty == FlattenSeq(<<>>) = <<>>
BY DEF FlattenSeq

LEMMA FlattenType ==
  ASSUME NEW D, NEW s \in Seq(Seq(D))
  PROVE  FlattenSeq(s) \in Seq(D)
<1>1. Len(s) \in Nat
  BY LenProperties
<1>2. CASE Len(s) = 0
  <2>1. s = <<>>
    BY <1>2, EmptySeq
  <2> QED BY <2>1, FlattenEmpty, EmptySeq
<1>3. CASE Len(s) > 0
  <2>1. PICK f : Partial(f, s, Len(s)) /\ FlattenSeq(s) = f[Len(s)]
    BY <1>1, <1>3, FlattenIsPartial
  <2>2. \A i \in 1..Len(s) : f[i] \in Seq(D)
    BY <1>3, <2>1, PartialType
  <2> QED BY <1>1, <1>3, <2>1, <2>2
<1> QED BY <1>1, <1>2, <1>3

LEMMA JoinAssociative ==
  ASSUME NEW D, NEW s \in Seq(D), NEW t \in Seq(D), NEW u \in Seq(D)
  PROVE  Join(Join(s, t), u) = Join(s, Join(t, u))
<1>1. (s \o t) \o u = s \o (t \o u)
  BY ConcatAssociative
<1> QED BY <1>1 DEF Join

LEMMA FlattenAppend ==
  ASSUME NEW D, NEW s \in Seq(Seq(D)), NEW x \in Seq(D)
  PROVE  FlattenSeq(Append(s, x)) = FlattenSeq(s) \o x
<1> DEFINE n == Len(s)
           t == Append(s, x)
<1>1. n \in Nat /\ t \in Seq(Seq(D)) /\ Len(t) = n + 1 /\ t[n + 1] = x
      /\ \A i \in 1..n : t[i] = s[i]
  BY LenProperties, AppendProperties
<1> HIDE DEF t
<1>2. PICK g : Partial(g, t, n + 1) /\ FlattenSeq(t) = g[n + 1]
  <2>1. Len(t) \in Nat /\ Len(t) > 0
    BY <1>1
  <2>2. PICK g : Partial(g, t, Len(t)) /\ FlattenSeq(t) = g[Len(t)]
    BY <2>1, FlattenIsPartial
  <2> QED BY <1>1, <2>2
<1>3. CASE n = 0
  <2>1. s = <<>>
    BY <1>3, EmptySeq
  <2>2. g[n + 1] = x
    BY <1>1, <1>2, <1>3 DEF Partial
  <2>3. <<>> \o x = x
    BY ConcatEmptySeq
  <2> QED BY <1>2, <2>1, <2>2, <2>3, FlattenEmpty DEF t
<1>4. CASE n > 0
  <2>1. PICK f : Partial(f, s, n) /\ FlattenSeq(s) = f[n]
    BY <1>1, <1>4, FlattenIsPartial
  <2> DEFINE G == {m \in Nat : m = 0 \/ g[m] = f[m]}
  <2>2. ASSUME NEW i \in 1..n, i - 1 \in G PROVE i \in G
    <3>1. CASE i = 1
      BY <1>1, <1>2, <2>1, <3>1 DEF Partial
    <3>2. CASE i # 1
      <4>1. i \in 2..n /\ i \in 2..(n + 1)
        BY <1>1, <3>2
      <4>2. g[i - 1] = f[i - 1]
        BY <2>2, <3>2
      <4>3. f[i] = Join(f[i - 1], s[i]) /\ g[i] = Join(g[i - 1], t[i])
        BY <1>2, <2>1, <4>1 DEF Partial
      <4>4. t[i] = s[i]
        BY <1>1
      <4> QED BY <4>2, <4>3, <4>4
    <3> QED BY <3>1, <3>2
  <2>3. 0 \in G
    OBVIOUS
  <2> HIDE DEF G
  <2>4. \A i \in 0..n : i \in G
    BY <1>1, <2>2, <2>3, InductUpTo
  <2>5. g[n] = f[n]
    BY <1>1, <1>4, <2>4 DEF G
  <2>6. n + 1 \in 2..(n + 1) /\ (n + 1) - 1 = n
    BY <1>1, <1>4
  <2>7. g[n + 1] = Join(g[n], t[n + 1])
    BY <1>2, <2>6 DEF Partial
  <2> QED BY <1>1, <1>2, <2>1, <2>5, <2>7 DEF Join, t
<1> QED BY <1>1, <1>3, <1>4

LEMMA FlattenHead ==
  ASSUME NEW D, NEW s \in Seq(Seq(D)), s # <<>>
  PROVE  FlattenSeq(s) = Head(s) \o FlattenSeq(Tail(s))
<1> DEFINE n == Len(s)
           t == Tail(s)
           h == s[1]
<1>1. n \in Nat /\ n > 0 /\ t \in Seq(Seq(D)) /\ Len(t) = n - 1
      /\ \A i \in 1..(n - 1) : t[i] = s[i + 1]
  BY EmptySeq, HeadTailProperties
<1>2. Head(s) = h /\ h \in Seq(D)
  <2>1. Head(s) = h
    BY <1>1
  <2> QED BY <2>1, HeadTailProperties
<1> HIDE DEF t, h
<1>3. PICK f : Partial(f, s, n) /\ FlattenSeq(s) = f[n]
  BY <1>1, FlattenIsPartial
<1>4. f[1] = h
  BY <1>3 DEF Partial, h
<1>5. CASE n = 1
  <2>1. t = <<>>
    BY <1>1, <1>5, EmptySeq
  <2>2. h \o <<>> = h
    BY <1>2, ConcatEmptySeq
  <2> QED BY <1>2, <1>3, <1>4, <1>5, <2>1, <2>2, FlattenEmpty DEF t
<1>6. CASE n > 1
  <2>1. PICK g : Partial(g, t, n - 1) /\ FlattenSeq(t) = g[n - 1]
    <3>1. Len(t) \in Nat /\ Len(t) > 0
      BY <1>1, <1>6
    <3>2. PICK g : Partial(g, t, Len(t)) /\ FlattenSeq(t) = g[Len(t)]
      BY <3>1, FlattenIsPartial
    <3>3. Len(t) = n - 1
      BY <1>1
    <3> QED BY <3>2, <3>3
  <2>2. \A i \in 1..(n - 1) : g[i] \in Seq(D) /\ t[i] \in Seq(D)
    <3>0. Len(t) > 0 /\ Partial(g, t, Len(t))
      BY <1>1, <1>6, <2>1
    <3>1. \A i \in 1..Len(t) : g[i] \in Seq(D)
      BY <1>1, <3>0, PartialType
    <3>2. \A i \in 1..Len(t) : t[i] \in Seq(D)
      BY <1>1, ElementOfSeq
    <3> QED BY <1>1, <3>1, <3>2
  <2> DEFINE G == {m \in Nat : m = 0 \/ f[m + 1] = Join(h, g[m])}
  <2>3. ASSUME NEW i \in 1..(n - 1), i - 1 \in G PROVE i \in G
    <3>1. i + 1 \in 2..n /\ (i + 1) - 1 = i
      BY <1>1
    <3>2. f[i + 1] = Join(f[i], s[i + 1]) /\ t[i] = s[i + 1]
      BY <1>1, <1>3, <3>1 DEF Partial
    <3>3. CASE i = 1
      <4>1. g[1] = t[1]
        BY <2>1 DEF Partial
      <4> QED BY <1>4, <3>2, <3>3, <4>1
    <3>4. CASE i # 1
      <4>1. i \in 2..(n - 1) /\ i - 1 \in 1..(n - 1) /\ (i - 1) + 1 = i
        BY <3>4
      <4>2. f[i] = Join(h, g[i - 1])
        BY <2>3, <3>4, <4>1
      <4>3. g[i] = Join(g[i - 1], t[i])
        BY <2>1, <4>1 DEF Partial
      <4>4. Join(Join(h, g[i - 1]), t[i]) = Join(h, Join(g[i - 1], t[i]))
        <5>1. g[i - 1] \in Seq(D) /\ t[i] \in Seq(D)
          BY <2>2, <4>1
        <5> QED BY <1>2, <5>1, JoinAssociative
      <4> QED BY <3>2, <4>2, <4>3, <4>4
    <3> QED BY <3>3, <3>4
  <2>4. 0 \in G
    OBVIOUS
  <2> HIDE DEF G
  <2>5. n - 1 \in Nat /\ n - 1 # 0 /\ (n - 1) + 1 = n
    BY <1>1, <1>6
  <2>6. \A i \in 0..(n - 1) : i \in G
    BY <2>3, <2>4, <2>5, InductUpTo
  <2>7. f[n] = Join(h, g[n - 1])
    BY <2>5, <2>6 DEF G
  <2> QED BY <1>2, <1>3, <2>1, <2>7 DEF Join, t
<1> QED BY <1>1, <1>5, <1>6
---------------------------------------------------------------------------
(* A stream of octets. *)

(* A sequence, whatever its elements are. *)
IsSequence(s) == \E S : s \in Seq(S)

LEMMA AppendToAny ==
  ASSUME NEW s, NEW x, IsSequence(s)
  PROVE  /\ IsSequence(Append(s, x)) /\ Len(s) \in Nat /\ Len(Append(s, x)) = Len(s) + 1
         /\ DOMAIN s = 1..Len(s) /\ DOMAIN Append(s, x) = 1..(Len(s) + 1)
         /\ Append(s, x)[Len(s) + 1] = x /\ \A i \in 1..Len(s) : Append(s, x)[i] = s[i]
<1>1. PICK S : s \in Seq(S)
  BY DEF IsSequence
<1> DEFINE T == S \cup {x}
<1>2. s \in Seq(T) /\ x \in T
  BY <1>1, SeqMonotonic
<1> HIDE DEF T
<1>3. Append(s, x) \in Seq(T) /\ Len(Append(s, x)) = Len(s) + 1
      /\ Append(s, x)[Len(s) + 1] = x /\ \A i \in 1..Len(s) : Append(s, x)[i] = s[i]
  BY <1>2, AppendProperties
<1>4. Len(s) \in Nat /\ DOMAIN s = 1..Len(s) /\ DOMAIN Append(s, x) = 1..Len(Append(s, x))
  BY <1>2, <1>3, LenProperties
<1> QED BY <1>3, <1>4 DEF IsSequence

LEMMA AnySequence ==
  ASSUME NEW s, IsSequence(s)
  PROVE  Len(s) \in Nat /\ DOMAIN s = 1..Len(s) /\ (s = <<>> <=> Len(s) = 0)
<1>1. PICK S : s \in Seq(S)
  BY DEF IsSequence
<1> QED BY <1>1, LenProperties, EmptySeq

(* What was written of the messages of a list behind the first n. *)
FromBehind(s, n) == [i \in 1..(Len(s) - n) |-> s[n + i].written.octets]

(* All that is written are octets. *)
AllOctets(s) == \A i \in 1..Len(s) : s[i].written.octets \in Seq(Octet)

LEMMA BehindType ==
  ASSUME NEW s, IsSequence(s), AllOctets(s), NEW n \in 0..Len(s)
  PROVE  /\ FromBehind(s, n) \in Seq(Seq(Octet)) /\ Len(FromBehind(s, n)) = Len(s) - n
         /\ \A i \in 1..(Len(s) - n) : FromBehind(s, n)[i] = s[n + i].written.octets
<1> DEFINE d == Len(s) - n
           t == FromBehind(s, n)
<1>1. Len(s) \in Nat /\ d \in Nat
  BY AnySequence
<1>2. ASSUME NEW i \in 1..d PROVE s[n + i].written.octets \in Seq(Octet)
  <2>1. n + i \in 1..Len(s)
    BY <1>1
  <2> QED BY <2>1 DEF AllOctets
<1>3. t = [i \in 1..d |-> s[n + i].written.octets]
  BY DEF FromBehind
<1> HIDE DEF t, d
<1>4. t \in [1..d -> Seq(Octet)] /\ \A i \in 1..d : t[i] = s[n + i].written.octets
  BY <1>2, <1>3
<1>5. t \in Seq(Seq(Octet)) /\ Len(t) = d
  BY <1>1, <1>4
<1> QED BY <1>4, <1>5 DEF t, d

(* One more message is sent. *)
LEMMA BehindAppend ==
  ASSUME NEW s, IsSequence(s), AllOctets(s), NEW x, x.written.octets \in Seq(Octet),
         NEW n \in 0..Len(s)
  PROVE  /\ AllOctets(Append(s, x))
         /\ FlattenSeq(FromBehind(Append(s, x), n)) = FlattenSeq(FromBehind(s, n)) \o x.written.octets
<1> DEFINE t == Append(s, x)
           old == FromBehind(s, n)
           new == FromBehind(t, n)
           o == x.written.octets
<1>1. /\ IsSequence(t) /\ Len(s) \in Nat /\ Len(t) = Len(s) + 1
      /\ t[Len(s) + 1] = x /\ \A i \in 1..Len(s) : t[i] = s[i]
  BY AppendToAny
<1> HIDE DEF t
<1>2. AllOctets(t)
  <2> SUFFICES ASSUME NEW i \in 1..Len(t) PROVE t[i].written.octets \in Seq(Octet)
    BY DEF AllOctets
  <2>1. CASE i \in 1..Len(s)
    BY <1>1, <2>1 DEF AllOctets
  <2>2. CASE i = Len(s) + 1
    BY <1>1, <2>2
  <2> QED BY <1>1, <2>1, <2>2
<1>3. n \in 0..Len(t)
  BY <1>1
<1>4. /\ old \in Seq(Seq(Octet)) /\ Len(old) = Len(s) - n
      /\ \A i \in 1..(Len(s) - n) : old[i] = s[n + i].written.octets
  BY BehindType
<1>5. /\ new \in Seq(Seq(Octet)) /\ Len(new) = Len(t) - n
      /\ \A i \in 1..(Len(t) - n) : new[i] = t[n + i].written.octets
  BY <1>1, <1>2, <1>3, BehindType
<1> HIDE DEF old, new, o
<1>6. o \in Seq(Octet)
  BY DEF o
<1>7. /\ Append(old, o) \in Seq(Seq(Octet)) /\ Len(Append(old, o)) = Len(old) + 1
      /\ Append(old, o)[Len(old) + 1] = o /\ \A i \in 1..Len(old) : Append(old, o)[i] = old[i]
  BY <1>4, <1>6, AppendProperties
<1>8. Len(new) = Len(Append(old, o))
  BY <1>1, <1>4, <1>5, <1>7
<1>9. ASSUME NEW i \in 1..Len(new) PROVE new[i] = Append(old, o)[i]
  <2>1. CASE i \in 1..Len(old)
    <3>1. n + i \in 1..Len(s) /\ i \in 1..(Len(s) - n) /\ i \in 1..(Len(t) - n)
      BY <1>1, <1>4, <2>1
    <3> QED BY <1>1, <1>4, <1>5, <1>7, <2>1, <3>1
  <2>2. CASE i = Len(old) + 1
    <3>1. n + i = Len(s) + 1 /\ i \in 1..(Len(t) - n)
      BY <1>1, <1>4, <2>2
    <3> QED BY <1>1, <1>5, <1>7, <2>2, <3>1 DEF o
  <2>3. i \in 1..Len(old) \/ i = Len(old) + 1
    BY <1>1, <1>4, <1>5
  <2> QED BY <2>1, <2>2, <2>3
<1>10. new = Append(old, o)
  BY <1>5, <1>7, <1>8, <1>9, SeqEqual
<1>11. FlattenSeq(new) = FlattenSeq(old) \o o
  BY <1>4, <1>6, <1>10, FlattenAppend
<1> QED BY <1>2, <1>11 DEF old, new, o, t

(* One message is taken off. *)
LEMMA BehindHead ==
  ASSUME NEW s, IsSequence(s), AllOctets(s), NEW n \in Nat, n < Len(s)
  PROVE  FlattenSeq(FromBehind(s, n)) = s[n + 1].written.octets \o FlattenSeq(FromBehind(s, n + 1))
<1> DEFINE old == FromBehind(s, n)
           new == FromBehind(s, n + 1)
<1>1. Len(s) \in Nat /\ n \in 0..Len(s) /\ n + 1 \in 0..Len(s)
  BY AnySequence
<1>2. /\ old \in Seq(Seq(Octet)) /\ Len(old) = Len(s) - n
      /\ \A i \in 1..(Len(s) - n) : old[i] = s[n + i].written.octets
  BY <1>1, BehindType
<1>3. /\ new \in Seq(Seq(Octet)) /\ Len(new) = Len(s) - (n + 1)
      /\ \A i \in 1..(Len(s) - (n + 1)) : new[i] = s[(n + 1) + i].written.octets
  BY <1>1, BehindType
<1> HIDE DEF old, new
<1>4. old # <<>>
  <2>1. Len(old) # 0 /\ Len(<<>>) = 0
    BY <1>1, <1>2
  <2> QED BY <2>1
<1>5. /\ Tail(old) \in Seq(Seq(Octet)) /\ Len(Tail(old)) = Len(old) - 1
      /\ \A i \in 1..Len(Tail(old)) : Tail(old)[i] = old[i + 1]
  BY <1>2, <1>4, HeadTailProperties
<1>6. Head(old) = s[n + 1].written.octets
  <2>1. Head(old) = old[1]
    BY <1>2, <1>4
  <2>2. 1 \in 1..(Len(s) - n)
    BY <1>1
  <2> QED BY <1>2, <2>1, <2>2
<1>7. Len(Tail(old)) = Len(new)
  BY <1>1, <1>2, <1>3, <1>5
<1>8. ASSUME NEW i \in 1..Len(new) PROVE new[i] = Tail(old)[i]
  <2>1. i + 1 \in 1..(Len(s) - n) /\ i \in 1..(Len(s) - (n + 1)) /\ n + (i + 1) = (n + 1) + i
    BY <1>1, <1>3
  <2> QED BY <1>2, <1>3, <1>5, <1>7, <2>1
<1>9. new = Tail(old)
  BY <1>3, <1>5, <1>7, <1>8, SeqEqual
<1>10. FlattenSeq(old) = Head(old) \o FlattenSeq(Tail(old))
  BY <1>2, <1>4, FlattenHead
<1> QED BY <1>6, <1>9, <1>10 DEF old, new

LEMMA OctetsAssociative ==
  ASSUME NEW a \in Seq(Octet), NEW b \in Seq(Octet), NEW c \in Seq(Octet)
  PROVE  (a \o b) \o c = a \o (b \o c)
BY ConcatAssociative

(* n octets of w move to the end of b. *)
LEMMA Moved ==
  ASSUME NEW b \in Seq(Octet), NEW w \in Seq(Octet), NEW n \in 1..Len(w)
  PROVE  /\ Drop(w, n) \in Seq(Octet) /\ b \o SubSeq(w, 1, n) \in Seq(Octet)
         /\ (b \o SubSeq(w, 1, n)) \o Drop(w, n) = b \o w
<1> DEFINE x == SubSeq(w, 1, n)
           y == SubSeq(w, n + 1, Len(w))
<1>1. Len(w) \in Nat /\ n \in 0..Len(w) /\ Len(w) \in n..Len(w) /\ 1 \in 1..(Len(w) + 1) /\ n \in (1 - 1)..Len(w)
  BY LenProperties
<1>2. x \o y = SubSeq(w, 1, Len(w))
  BY <1>1, ConcatAdjacentSubSeq
<1>3. SubSeq(w, 1, Len(w)) = w
  BY SubSeqFull
<1>4. x \in Seq(Octet) /\ y \in Seq(Octet)
  <2>1. \A i \in 1..Len(w) : w[i] \in Octet
    BY ElementOfSeq
  <2>2. \A i \in 1..n : w[i] \in Octet
    BY <1>1, <2>1
  <2>3. \A i \in (n + 1)..Len(w) : w[i] \in Octet
    BY <1>1, <2>1
  <2>4. n \in Int /\ n + 1 \in Int /\ Len(w) \in Int
    BY <1>1
  <2> QED BY <2>2, <2>3, <2>4, SubSeqProperties
<1> HIDE DEF x, y
<1>5. b \o x \in Seq(Octet)
  BY <1>4, ConcatProperties
<1>6. (b \o x) \o y = b \o (x \o y)
  <2>1. b \in Seq(Octet) /\ x \in Seq(Octet) /\ y \in Seq(Octet)
    BY <1>4
  <2> QED BY <2>1, OctetsAssociative
<1>7. Drop(w, n) = y
  BY DEF Drop, y
<1> QED BY <1>2, <1>3, <1>4, <1>5, <1>6, <1>7 DEF x

(* When a buffer b holds all of a first message o, dropping as many octets  *)
(* leaves what is behind it.                                                *)
LEMMA TakenOff ==
  ASSUME NEW b \in Seq(Octet), NEW w \in Seq(Octet), NEW o \in Seq(Octet), NEW r \in Seq(Octet),
         b \o w = o \o r, Len(o) <= Len(b)
  PROVE  Drop(b, Len(o)) \in Seq(Octet) /\ Drop(b, Len(o)) \o w = r
<1> DEFINE d == SubSeq(b, Len(o) + 1, Len(b))
<1>1. Len(b) \in Nat /\ Len(w) \in Nat /\ Len(o) \in Nat /\ Len(r) \in Nat
  BY LenProperties
<1>2. d \in Seq(Octet) /\ Len(d) = Len(b) - Len(o)
      /\ \A i \in 1..(Len(b) - Len(o)) : d[i] = b[Len(o) + i]
  <2>1. \A i \in 1..Len(b) : b[i] \in Octet
    BY ElementOfSeq
  <2>2. \A i \in (Len(o) + 1)..Len(b) : b[i] \in Octet
    BY <1>1, <2>1
  <2>3. Len(o) + 1 \in Int /\ Len(b) \in Int
    BY <1>1
  <2>4. d \in Seq(Octet) /\ Len(d) = (IF Len(o) + 1 <= Len(b) THEN Len(b) - (Len(o) + 1) + 1 ELSE 0)
        /\ \A i \in 1..(Len(b) - (Len(o) + 1) + 1) : d[i] = b[(Len(o) + 1) + i - 1]
    BY <2>2, <2>3, SubSeqProperties
  <2>5. Len(d) = Len(b) - Len(o)
    BY <1>1, <2>4
  <2>6. ASSUME NEW i \in 1..(Len(b) - Len(o)) PROVE d[i] = b[Len(o) + i]
    <3>1. i \in 1..(Len(b) - (Len(o) + 1) + 1) /\ (Len(o) + 1) + i - 1 = Len(o) + i
      BY <1>1
    <3> QED BY <2>4, <3>1
  <2> QED BY <2>4, <2>5, <2>6
<1>3. /\ Len(b \o w) = Len(b) + Len(w)
      /\ \A i \in 1..(Len(b) + Len(w)) : (b \o w)[i] = IF i <= Len(b) THEN b[i] ELSE w[i - Len(b)]
  BY ConcatProperties
<1>4. /\ Len(o \o r) = Len(o) + Len(r)
      /\ \A i \in 1..(Len(o) + Len(r)) : (o \o r)[i] = IF i <= Len(o) THEN o[i] ELSE r[i - Len(o)]
  BY ConcatProperties
<1> HIDE DEF d
<1>5. /\ d \o w \in Seq(Octet) /\ Len(d \o w) = Len(d) + Len(w)
      /\ \A i \in 1..(Len(d) + Len(w)) : (d \o w)[i] = IF i <= Len(d) THEN d[i] ELSE w[i - Len(d)]
  BY <1>2, ConcatProperties
<1>6. Len(d \o w) = Len(r)
  BY <1>1, <1>2, <1>3, <1>4, <1>5
<1>7. ASSUME NEW i \in 1..Len(r) PROVE (d \o w)[i] = r[i]
  <2> DEFINE j == Len(o) + i
  <2>1. j \in 1..(Len(o) + Len(r)) /\ ~(j <= Len(o)) /\ j - Len(o) = i /\ j \in 1..(Len(b) + Len(w))
        /\ i \in 1..(Len(d) + Len(w))
    BY <1>1, <1>2, <1>3, <1>4
  <2>2. r[i] = (b \o w)[j]
    BY <1>4, <2>1
  <2>3. CASE i <= Len(d)
    <3>1. j <= Len(b) /\ i \in 1..(Len(b) - Len(o))
      BY <1>1, <1>2, <2>3
    <3>2. (b \o w)[j] = b[j] /\ d[i] = b[j] /\ (d \o w)[i] = d[i]
      BY <1>2, <1>3, <1>5, <2>1, <2>3, <3>1
    <3> QED BY <2>2, <3>2
  <2>4. CASE ~(i <= Len(d))
    <3>1. ~(j <= Len(b)) /\ j - Len(b) = i - Len(d)
      BY <1>1, <1>2, <2>4
    <3>2. (b \o w)[j] = w[j - Len(b)] /\ (d \o w)[i] = w[i - Len(d)]
      BY <1>3, <1>5, <2>1, <2>4, <3>1
    <3> QED BY <2>2, <3>1, <3>2
  <2> QED BY <2>3, <2>4
<1>8. d \o w = r
  BY <1>5, <1>6, <1>7, SeqEqual
<1>9. Drop(b, Len(o)) = d
  BY DEF Drop, d
<1> QED BY <1>2, <1>8, <1>9

(* A buffer that begins like o announces what o announces. *)
LEMMA SameHeader ==
  ASSUME NEW b \in Seq(Octet), NEW w \in Seq(Octet), NEW o \in Seq(Octet), NEW r \in Seq(Octet),
         b \o w = o \o r, Len(b) >= 19, Len(o) >= 19
  PROVE  Announces(b) = Num(SubSeq(o, 17, 18))
<1>1. Len(b) \in Nat /\ Len(o) \in Nat
  BY LenProperties
<1>2. 17 \in 1..Len(b) /\ 18 \in 1..Len(b) /\ 17 \in 1..Len(o) /\ 18 \in 1..Len(o)
  BY <1>1
<1>3. SubSeq(b \o w, 17, 18) = SubSeq(b, 17, 18)
  BY <1>2, SubSeqOfConcat1
<1>4. SubSeq(o \o r, 17, 18) = SubSeq(o, 17, 18)
  BY <1>2, SubSeqOfConcat1
<1>5. SubSeq(b, 17, 18) = SubSeq(o, 17, 18)
  BY <1>3, <1>4
<1> QED BY <1>5 DEF Announces

---------------------------------------------------------------------------
(* Decoding keeps in step with what was sent: of one direction, s is what   *)
(* was sent, n the number of messages decoded, b the buffer and w the       *)
(* octets on their way.                                                     *)

RightLength(x) == IsMessage(x.message) /\ IsSized(x.message)

(* The header of a message of the right length announces that length. *)
Exact(s) ==
  \A i \in 1..Len(s) : RightLength(s[i]) =>
    LET o == s[i].written.octets IN Len(o) >= 19 /\ Num(SubSeq(o, 17, 18)) = Len(o)

SizedUpTo(s, n) == \A i \in 1..n : i \in 1..Len(s) => RightLength(s[i])

InStep(s, n, b, w) ==
  SizedUpTo(s, n) =>
    b \in Seq(Octet) /\ n <= Len(s) /\ b \o w = FlattenSeq(FromBehind(s, n))

LEMMA SendInStep ==
  ASSUME NEW s, IsSequence(s), AllOctets(s), NEW x, x.written.octets \in Seq(Octet),
         NEW n \in Nat, NEW b, NEW w \in Seq(Octet), InStep(s, n, b, w)
  PROVE  InStep(Append(s, x), n, b, w \o x.written.octets)
<1> DEFINE t == Append(s, x)
           o == x.written.octets
<1>1. /\ Len(s) \in Nat /\ Len(t) = Len(s) + 1 /\ \A i \in 1..Len(s) : t[i] = s[i]
  BY AppendToAny
<1> HIDE DEF t
<1> SUFFICES ASSUME SizedUpTo(t, n)
             PROVE  /\ b \in Seq(Octet) /\ n <= Len(t)
                    /\ b \o (w \o o) = FlattenSeq(FromBehind(t, n))
  BY DEF InStep, t
<1>2. SizedUpTo(s, n)
  BY <1>1 DEF SizedUpTo
<1>3. b \in Seq(Octet) /\ n <= Len(s) /\ b \o w = FlattenSeq(FromBehind(s, n))
  BY <1>2 DEF InStep
<1>4. n \in 0..Len(s)
  BY <1>1, <1>3
<1>5. FlattenSeq(FromBehind(t, n)) = FlattenSeq(FromBehind(s, n)) \o o
  BY <1>4, BehindAppend DEF t
<1>6. (b \o w) \o o = b \o (w \o o)
  <2>1. o \in Seq(Octet)
    OBVIOUS
  <2> HIDE DEF o
  <2>2. b \in Seq(Octet)
    BY <1>3
  <2> QED BY <2>1, <2>2, OctetsAssociative
<1>7. n <= Len(t)
  BY <1>1, <1>3
<1> QED BY <1>3, <1>5, <1>6, <1>7

LEMMA DeliverInStep ==
  ASSUME NEW s, NEW k, NEW b, NEW w \in Seq(Octet), InStep(s, k, b, w),
         NEW n \in 1..Len(w)
  PROVE  InStep(s, k, b \o SubSeq(w, 1, n), Drop(w, n))
BY Moved DEF InStep

(* What is at the head of a buffer that is in step. *)
LEMMA HeadInStep ==
  ASSUME NEW s, IsSequence(s), AllOctets(s), Exact(s), NEW n \in Nat, NEW b,
         NEW w \in Seq(Octet), InStep(s, n, b, w), SizedUpTo(s, n), n < Len(s), RightLength(s[n + 1]),
         Len(b) >= 19
  PROVE  Announces(b) = Len(s[n + 1].written.octets)
<1> DEFINE o == s[n + 1].written.octets
           r == FlattenSeq(FromBehind(s, n + 1))
<1>1. Len(s) \in Nat /\ n + 1 \in 1..Len(s) /\ n + 1 \in 0..Len(s)
  BY AnySequence
<1>2. o \in Seq(Octet) /\ Len(o) >= 19 /\ Num(SubSeq(o, 17, 18)) = Len(o)
  BY <1>1 DEF AllOctets, Exact
<1>3. r \in Seq(Octet)
  BY <1>1, BehindType, FlattenType
<1>4. b \in Seq(Octet) /\ b \o w = o \o r
  BY BehindHead DEF InStep
<1> HIDE DEF o, r
<1>5. Announces(b) = Num(SubSeq(o, 17, 18))
  BY <1>2, <1>3, <1>4, SameHeader
<1> QED BY <1>2, <1>5 DEF o

(* decode consumes the message at the head of the stream, no more and no    *)
(* less.                                                                    *)
LEMMA DecodeInStep ==
  ASSUME NEW s, IsSequence(s), AllOctets(s), Exact(s), NEW n \in Nat, NEW b,
         NEW w \in Seq(Octet), InStep(s, n, b, w), HasMessage(b)
  PROVE  InStep(s, n + 1, Drop(b, Announces(b)), w)
<1> SUFFICES ASSUME SizedUpTo(s, n + 1)
             PROVE  /\ Drop(b, Announces(b)) \in Seq(Octet) /\ n + 1 <= Len(s)
                    /\ Drop(b, Announces(b)) \o w = FlattenSeq(FromBehind(s, n + 1))
  BY DEF InStep
<1> DEFINE o == s[n + 1].written.octets
           r == FlattenSeq(FromBehind(s, n + 1))
<1>1. SizedUpTo(s, n)
  BY DEF SizedUpTo
<1>2. b \in Seq(Octet) /\ n <= Len(s) /\ b \o w = FlattenSeq(FromBehind(s, n))
  BY <1>1 DEF InStep
<1>3. Len(s) \in Nat /\ Len(b) \in Nat /\ Len(b) >= 19 /\ Len(b) >= Announces(b)
  BY <1>2, AnySequence, LenProperties DEF HasMessage
<1>4. n < Len(s)
  <2> SUFFICES ASSUME n = Len(s) PROVE FALSE
    BY <1>3, <1>2
  <2>1. n \in 0..Len(s)
    BY <1>3
  <2> DEFINE q == FromBehind(s, n)
  <2>2. q \in Seq(Seq(Octet)) /\ Len(q) = 0
    <3>1. q \in Seq(Seq(Octet)) /\ Len(q) = Len(s) - n
      BY <2>1, BehindType
    <3> QED BY <1>3, <3>1
  <2> HIDE DEF q
  <2>3. q = <<>>
    BY <2>2, EmptySeq
  <2>4. b \o w = <<>>
    BY <1>2, <2>3, FlattenEmpty DEF q
  <2>5. b = <<>>
    BY <1>2, <2>4, ConcatEqualIffEmpty
  <2>6. Len(b) = 0
    BY <2>5
  <2> QED BY <1>3, <2>6
<1>5. n + 1 \in 1..Len(s) /\ n + 1 \in 1..(n + 1) /\ n + 1 \in 0..Len(s)
  BY <1>3, <1>4
<1>6. RightLength(s[n + 1])
  BY <1>5 DEF SizedUpTo
<1>7. Announces(b) = Len(o)
  BY <1>3, <1>1, <1>4, <1>6, HeadInStep
<1>8. o \in Seq(Octet) /\ r \in Seq(Octet)
  BY <1>5, BehindType, FlattenType DEF AllOctets
<1>9. b \o w = o \o r
  BY <1>2, <1>4, BehindHead
<1> HIDE DEF o, r
<1>10. Len(o) <= Len(b)
  BY <1>3, <1>7, <1>8, LenProperties
<1>11. Drop(b, Len(o)) \in Seq(Octet) /\ Drop(b, Len(o)) \o w = r
  BY <1>2, <1>8, <1>9, <1>10, TakenOff
<1>12. n + 1 <= Len(s)
  BY <1>5
<1> QED BY <1>7, <1>11, <1>12 DEF r

---------------------------------------------------------------------------
(* The steps. *)

LEMMA OtherEnd ==
  /\ Other("local") = "peer" /\ Other("peer") = "local"
  /\ \A e \in End : Other(e) \in End /\ Other(e) # e /\ Other(Other(e)) = e
BY DEF Other, End

Offers == {<<>>, <<TRUE>>, <<FALSE>>}
IsCodec(c) ==
  /\ DOMAIN c = {"asn4_sent", "asn4_received", "buf"}
  /\ c.asn4_sent \in Offers /\ c.asn4_received \in Offers

Types ==
  /\ DOMAIN codec = End /\ \A e \in End : IsCodec(codec[e])
  /\ wire \in [End -> Seq(Octet)]
  /\ DOMAIN sent = End /\ DOMAIN got = End /\ DOMAIN refused = End
  /\ \A e \in End : IsSequence(sent[e]) /\ IsSequence(got[e]) /\ AllOctets(sent[e])

StreamInv ==
  /\ Types
  /\ \A e \in End : InStep(sent[Other(e)], Len(got[e]), codec[e].buf, wire[e])

(* One more message x is sent by e. *)
Sends(e, x) ==
  /\ sent' = [sent EXCEPT ![e] = Append(@, x)]
  /\ wire' = [wire EXCEPT ![Other(e)] = @ \o x.written.octets]
  /\ x.written.octets \in Seq(Octet)
  /\ DOMAIN codec' = End
  /\ \A f \in End : /\ IsCodec(codec'[f])
                    /\ codec'[f].buf = codec[f].buf
                    /\ codec'[f].asn4_received = codec[f].asn4_received
                    /\ codec'[f].asn4_sent =
                         IF f = e /\ x.message.kind = "Open" THEN <<HasFourOctetAs(x.message.value)>>
                         ELSE codec[f].asn4_sent
  /\ UNCHANGED <<got, refused>>

(* The OPEN of a session that goes on. *)
SessionOpen(m) == m.kind = "Open" /\ m.value.params \in SessionParameters

(* When a message m may be sent by e. *)
Proper(e, m) ==
  /\ m.kind = "Open" \/ e = "local" => sent[e] = <<>>
  /\ e = "local" => SessionOpen(m)
  /\ m.kind = "Update" => /\ e = "peer" /\ Len(sent["peer"]) = 1
                          /\ SessionOpen(sent["peer"][1].message)
                          /\ codec["peer"].asn4_received # <<>>

LEMMA OfferType == \A v : <<HasFourOctetAs(v)>> \in Offers
<1> SUFFICES ASSUME NEW v PROVE <<HasFourOctetAs(v)>> \in Offers
  OBVIOUS
<1>1. HasFourOctetAs(v) = TRUE \/ HasFourOctetAs(v) = FALSE
  BY DEF HasFourOctetAs
<1> QED BY <1>1 DEF Offers

LEMMA EncodeSends ==
  ASSUME Types, LengthsAreExact', NEW e \in End, NEW m, IsMessage(m), Encode(e, m)
  PROVE  Sends(e, [message |-> m, written |-> WriteMessage(m)])
<1> DEFINE w == WriteMessage(m)
           x == [message |-> m, written |-> w]
<1>1. /\ wire' = [wire EXCEPT ![Other(e)] = @ \o w.octets]
      /\ sent' = [sent EXCEPT ![e] = Append(@, x)]
      /\ UNCHANGED <<got, refused>>
  BY DEF Encode, Put
<1>2. codec' = IF m.kind = "Open" THEN [codec EXCEPT ![e].asn4_sent = <<HasFourOctetAs(m.value)>>]
               ELSE codec
  BY DEF Encode
<1>3. x.message = m /\ x.written = w
  OBVIOUS
<1> HIDE DEF w, x
<1>4. x.written.octets \in Seq(Octet)
  <2>1. sent'[e] = Append(sent[e], x)
    BY <1>1 DEF Types
  <2>2. DOMAIN sent'[e] = 1..(Len(sent[e]) + 1) /\ sent'[e][Len(sent[e]) + 1] = x /\ Len(sent[e]) \in Nat
    BY <2>1, AppendToAny DEF Types
  <2>3. Len(sent[e]) + 1 \in DOMAIN sent'[e]
    BY <2>2
  <2>4. \A i \in DOMAIN sent'[e] :
          IsMessage(sent'[e][i].message) => sent'[e][i].written.octets \in Seq(Octet)
    BY DEF LengthsAreExact
  <2> QED BY <1>3, <2>2, <2>3, <2>4
<1> DEFINE h == <<HasFourOctetAs(m.value)>>
<1>5. DOMAIN codec' = End
      /\ \A f \in End : /\ IsCodec(codec'[f])
                        /\ codec'[f].buf = codec[f].buf
                        /\ codec'[f].asn4_received = codec[f].asn4_received
                        /\ codec'[f].asn4_sent =
                             IF f = e /\ m.kind = "Open" THEN h ELSE codec[f].asn4_sent
  <2>1. h \in Offers
    BY OfferType
  <2>2. DOMAIN codec = End /\ \A f \in End : IsCodec(codec[f])
    BY DEF Types
  <2>3. CASE m.kind = "Open"
    <3> DEFINE c == [codec[e] EXCEPT !.asn4_sent = h]
    <3>1. IsCodec(codec[e])
      BY <2>2
    <3>2. codec' = [codec EXCEPT ![e] = c]
      BY <1>2, <2>3
    <3> HIDE DEF h
    <3>3. IsCodec(c) /\ c.buf = codec[e].buf /\ c.asn4_received = codec[e].asn4_received
          /\ c.asn4_sent = h
      BY <2>1, <3>1 DEF IsCodec
    <3> HIDE DEF c
    <3> QED BY <2>2, <2>3, <3>2, <3>3
  <2>4. CASE m.kind # "Open"
    BY <1>2, <2>2, <2>4
  <2> QED BY <2>3, <2>4
<1> HIDE DEF h
<1>6. x.message.kind = m.kind /\ <<HasFourOctetAs(x.message.value)>> = h
  BY <1>3 DEF h
<1> QED BY <1>1, <1>3, <1>4, <1>5, <1>6 DEF Sends, x, w

LEMMA MalformedSends ==
  ASSUME Types, SendMalformed
  PROVE  \E x : Sends("peer", x) /\ x.message.kind = "Malformed" /\ codec' = codec
<1>1. PICK f \in Malformed :
        /\ Put("peer", Message("Malformed", f), W(Len(f.octets), f.octets))
        /\ UNCHANGED <<codec, got, refused>>
  BY DEF SendMalformed
<1> DEFINE x == [message |-> Message("Malformed", f), written |-> W(Len(f.octets), f.octets)]
<1>2. x.written.octets = f.octets /\ f.octets \in Seq(Octet) /\ x.message.kind = "Malformed"
  BY MalformedAssumption DEF W, Message
<1>3. /\ wire' = [wire EXCEPT ![Other("peer")] = @ \o x.written.octets]
      /\ sent' = [sent EXCEPT !["peer"] = Append(@, x)]
  BY <1>1 DEF Put
<1> HIDE DEF x
<1>4. DOMAIN codec' = End /\ codec' = codec /\ \A e \in End : IsCodec(codec'[e])
  BY <1>1 DEF Types
<1>5. Sends("peer", x)
  BY <1>1, <1>2, <1>3, <1>4 DEF Sends
<1> QED BY <1>2, <1>4, <1>5

(* Every step is one of these: a message or a frame is sent, octets arrive, *)
(* or a message is decoded.                                                 *)
LEMMA Steps ==
  ASSUME Types, LengthsAreExact', Next
  PROVE  \/ \E e \in End : \E x : Sends(e, x) /\ Proper(e, x.message)
         \/ \E e \in End : \E n \in 1..Len(wire[e]) : Deliver(e, n)
         \/ \E e \in End : Decode(e)
<1>1. "peer" \in End /\ "local" # "peer"
  BY DEF End
<1> DEFINE Done == \E e \in End : \E x : Sends(e, x) /\ Proper(e, x.message)
<1>2. ASSUME NEW e \in End, NEW m, IsMessage(m), Encode(e, m), Proper(e, m) PROVE Done
  <2> DEFINE x == [message |-> m, written |-> WriteMessage(m)]
  <2>1. Sends(e, x)
    BY <1>2, EncodeSends
  <2>2. x.message = m
    OBVIOUS
  <2> HIDE DEF x
  <2>3. Proper(e, x.message)
    BY <1>2, <2>2
  <2> QED BY <2>1, <2>3
<1> HIDE DEF Done
<1>3. ASSUME NEW kind, NEW value, kind \notin {"Malformed", "Open", "Update"},
             Encode("peer", Message(kind, value))
      PROVE  Done
  <2>1. IsMessage(Message(kind, value)) /\ Proper("peer", Message(kind, value))
    BY <1>1, <1>3 DEF IsMessage, Message, Proper
  <2> QED BY <1>1, <1>2, <1>3, <2>1
<1>4. ASSUME NEW value, HasOnlyOpened, Established, Encode("peer", Message("Update", value))
      PROVE  Done
  <2>1. Len(sent["peer"]) = 1 /\ LastSent("peer") = sent["peer"][1].message
    BY <1>4 DEF HasOnlyOpened, LastSent, Last
  <2>2. SessionOpen(sent["peer"][1].message) /\ codec["peer"].asn4_received # <<>>
    BY <1>4, <2>1 DEF HasOnlyOpened, SessionOpen, Established
  <2>3. IsMessage(Message("Update", value)) /\ Proper("peer", Message("Update", value))
    BY <1>1, <2>1, <2>2 DEF IsMessage, Message, Proper
  <2> QED BY <1>1, <1>2, <1>4, <2>3
<1>5. ASSUME NEW e \in End, NEW params, sent[e] = <<>>, e = "peer" \/ params \in SessionParameters,
             Encode(e, Message("Open", BgpOpenMessage(params)))
      PROVE  Done
  <2> DEFINE m == Message("Open", BgpOpenMessage(params))
  <2>1. m.kind = "Open" /\ m.value.params = params
    BY DEF Message, BgpOpenMessage
  <2> HIDE DEF m
  <2>2. IsMessage(m) /\ Proper(e, m)
    BY <1>1, <1>5, <2>1 DEF IsMessage, Proper, SessionOpen
  <2>3. Encode(e, m)
    BY <1>5 DEF m
  <2> QED BY <1>2, <2>2, <2>3
<1>6. ASSUME \E e \in End : SendOpen(e) PROVE Done
  BY <1>5, <1>6 DEF SendOpen
<1>7. CASE \E e \in End : DeliverAll(e) \/ DeliverPart(e)
  BY <1>7 DEF DeliverAll, DeliverPart, Deliver
<1>8. ASSUME OfferCapability PROVE Done
  BY <1>1, <1>5, <1>8 DEF OfferCapability
<1>9. ASSUME SendNotification PROVE Done
  BY <1>3, <1>9 DEF SendNotification
<1>10. ASSUME SendRouteRefresh PROVE Done
  BY <1>3, <1>10 DEF SendRouteRefresh
<1>11. ASSUME SendAttribute PROVE Done
  BY <1>4, <1>11 DEF SendAttribute
<1>12. ASSUME SendRoutes PROVE Done
  BY <1>4, <1>12 DEF SendRoutes
<1>13. ASSUME SendKeepAlive PROVE Done
  BY <1>3, <1>13 DEF SendKeepAlive
<1>14. CASE SendMalformed
  <2>1. PICK x : Sends("peer", x) /\ x.message.kind = "Malformed"
    BY <1>14, MalformedSends
  <2>2. Proper("peer", x.message)
    BY <1>1, <2>1 DEF Proper
  <2> QED BY <1>1, <2>1, <2>2 DEF Done
<1> QED BY <1>6, <1>7, <1>8, <1>9, <1>10, <1>11, <1>12, <1>13, <1>14 DEF Next, Done
(* What decode leaves behind when it has read a message v. *)
Reads(e, v) ==
  /\ got' = [got EXCEPT ![e] = Append(@, v)]
  /\ DOMAIN codec' = End
  /\ IsCodec(codec'[e])
  /\ codec'[e].buf = Drop(codec[e].buf, Announces(codec[e].buf))
  /\ codec'[e].asn4_received = (IF v.kind = "Open" THEN <<HasFourOctetAs(v.value)>>
                                ELSE codec[e].asn4_received)
  /\ codec'[e].asn4_sent = codec[e].asn4_sent
  /\ \A f \in End : f # e => codec'[f] = codec[f]
  /\ UNCHANGED <<wire, sent, refused>>

LEMMA DecodeReads ==
  ASSUME Types, NEW e \in End, Decode(e)
  PROVE  \/ DOMAIN refused' = End /\ UNCHANGED <<codec, wire, sent, got>>
         \/ \E v : Reads(e, v)
<1> DEFINE r == ReadMessage(Asn4(codec[e]), codec[e].buf)
<1>1. Decoded(e, r) /\ UNCHANGED <<wire, sent>>
  BY DEF Decode
<1> HIDE DEF r
<1>2. CASE ~r.ok
  BY <1>1, <1>2 DEF Decoded, Types
<1>3. CASE r.ok
  <2> DEFINE v == r.v
             h == IF v.kind = "Open" THEN <<HasFourOctetAs(v.value)>> ELSE codec[e].asn4_received
             d == Drop(codec[e].buf, Announces(codec[e].buf))
             c == [codec[e] EXCEPT !.buf = d]
             c2 == [c EXCEPT !.asn4_received = h]
  <2>1. DOMAIN codec = End /\ IsCodec(codec[e])
    BY DEF Types
  <2>2. h \in Offers
    <3>1. <<HasFourOctetAs(v.value)>> \in Offers
      BY OfferType
    <3>2. codec[e].asn4_received \in Offers
      BY <2>1 DEF IsCodec
    <3> QED BY <3>1, <3>2
  <2>3. /\ got' = [got EXCEPT ![e] = Append(@, v)] /\ refused' = refused
        /\ codec' = [codec EXCEPT
             ![e].buf = Drop(@, Announces(@)),
             ![e].asn4_received = IF v.kind = "Open" THEN <<HasFourOctetAs(v.value)>> ELSE @]
    BY <1>1, <1>3 DEF Decoded
  <2>4. c.asn4_received = codec[e].asn4_received
    BY <2>1 DEF IsCodec
  <2>5. codec' = [codec EXCEPT ![e] = c2]
    BY <2>1, <2>3, <2>4
  <2> HIDE DEF h, d, v
  <2>6. IsCodec(c2) /\ c2.buf = d /\ c2.asn4_received = h /\ c2.asn4_sent = codec[e].asn4_sent
    BY <2>1, <2>2 DEF IsCodec
  <2> HIDE DEF c2, c
  <2>7. DOMAIN codec' = End /\ codec'[e] = c2 /\ \A f \in End : f # e => codec'[f] = codec[f]
    BY <2>1, <2>5
  <2>8. Reads(e, v)
    BY <1>1, <2>3, <2>6, <2>7 DEF Reads, h, d
  <2> QED BY <2>8
<1> QED BY <1>2, <1>3

LEMMA DeliverTypes ==
  ASSUME Types, NEW e \in End, NEW n \in 1..Len(wire[e]), Deliver(e, n)
  PROVE  /\ Types'
         /\ wire'[e] = Drop(wire[e], n) /\ codec'[e].buf = codec[e].buf \o SubSeq(wire[e], 1, n)
         /\ \A f \in End : /\ codec'[f].asn4_sent = codec[f].asn4_sent
                           /\ codec'[f].asn4_received = codec[f].asn4_received
                           /\ f # e => wire'[f] = wire[f] /\ codec'[f] = codec[f]
         /\ UNCHANGED <<sent, got, refused>>
<1> DEFINE d == codec[e].buf \o SubSeq(wire[e], 1, n)
           c == [codec[e] EXCEPT !.buf = d]
<1>1. /\ wire' = [wire EXCEPT ![e] = Drop(@, n)] /\ codec' = [codec EXCEPT ![e] = c]
      /\ UNCHANGED <<sent, got, refused>>
  BY DEF Deliver
<1>2. /\ DOMAIN codec = End /\ (\A f \in End : IsCodec(codec[f]))
      /\ wire \in [End -> Seq(Octet)]
  BY DEF Types
<1> HIDE DEF d
<1>3. IsCodec(c) /\ c.buf = d /\ c.asn4_sent = codec[e].asn4_sent
      /\ c.asn4_received = codec[e].asn4_received
  <2>1. IsCodec(codec[e])
    BY <1>2
  <2> QED BY <2>1 DEF IsCodec
<1> HIDE DEF c
<1>4. Drop(wire[e], n) \in Seq(Octet)
  <2>1. wire[e] \in Seq(Octet) /\ <<>> \in Seq(Octet)
    BY <1>2
  <2> QED BY <2>1, Moved
<1>5. wire' \in [End -> Seq(Octet)] /\ wire'[e] = Drop(wire[e], n)
      /\ \A f \in End : f # e => wire'[f] = wire[f]
  BY <1>1, <1>2, <1>4
<1>6. DOMAIN codec' = End /\ codec'[e] = c /\ \A f \in End : f # e => codec'[f] = codec[f]
  BY <1>1, <1>2
<1>7. \A f \in End : IsCodec(codec'[f]) /\ codec'[f].asn4_sent = codec[f].asn4_sent
                     /\ codec'[f].asn4_received = codec[f].asn4_received
  BY <1>2, <1>3, <1>6
<1>8. Types'
  BY <1>1, <1>5, <1>6, <1>7 DEF Types
<1> QED BY <1>1, <1>3, <1>5, <1>6, <1>7, <1>8 DEF d

LEMMA SendsTypes ==
  ASSUME Types, NEW e \in End, NEW x, Sends(e, x)
  PROVE  /\ Types'
         /\ sent'[e] = Append(sent[e], x) /\ wire'[Other(e)] = wire[Other(e)] \o x.written.octets
         /\ \A f \in End : f # e => sent'[f] = sent[f] /\ wire'[Other(f)] = wire[Other(f)]
<1>1. /\ sent' = [sent EXCEPT ![e] = Append(@, x)] /\ DOMAIN sent = End
      /\ wire' = [wire EXCEPT ![Other(e)] = @ \o x.written.octets] /\ wire \in [End -> Seq(Octet)]
      /\ x.written.octets \in Seq(Octet)
  BY DEF Types, Sends
<1> DEFINE o == x.written.octets
<1> HIDE DEF o
<1>2. wire[Other(e)] \o o \in Seq(Octet)
  <2>1. wire[Other(e)] \in Seq(Octet) /\ o \in Seq(Octet)
    BY <1>1, OtherEnd DEF o
  <2> QED BY <2>1, ConcatProperties
<1>3. wire' = [wire EXCEPT ![Other(e)] = wire[Other(e)] \o o]
  BY <1>1 DEF o
<1>4. \A f \in End : f # e => Other(f) # Other(e) /\ Other(f) \in End
  BY DEF Other, End
<1>5. wire' \in [End -> Seq(Octet)] /\ wire'[Other(e)] = wire[Other(e)] \o o
      /\ \A f \in End : f # e => wire'[Other(f)] = wire[Other(f)]
  BY <1>1, <1>2, <1>3, <1>4, OtherEnd
<1>6. DOMAIN sent' = End /\ sent'[e] = Append(sent[e], x) /\ \A f \in End : f # e => sent'[f] = sent[f]
  BY <1>1
<1>7. IsSequence(Append(sent[e], x)) /\ AllOctets(Append(sent[e], x))
  <2>1. IsSequence(sent[e]) /\ AllOctets(sent[e])
    BY DEF Types
  <2>2. 0 \in 0..Len(sent[e])
    BY <2>1, AnySequence
  <2> QED BY <1>1, <2>1, <2>2, AppendToAny, BehindAppend
<1>8. \A f \in End : IsSequence(sent'[f]) /\ AllOctets(sent'[f])
  BY <1>6, <1>7 DEF Types
<1>9. Types'
  BY <1>5, <1>6, <1>8 DEF Types, Sends
<1> QED BY <1>5, <1>6, <1>9 DEF o

LEMMA ReadsTypes ==
  ASSUME Types, NEW e \in End, NEW v, Reads(e, v)
  PROVE  /\ Types' /\ got'[e] = Append(got[e], v) /\ Len(got'[e]) = Len(got[e]) + 1
         /\ \A f \in End : f # e => got'[f] = got[f]
<1>1. got' = [got EXCEPT ![e] = Append(@, v)] /\ DOMAIN got = End /\ IsSequence(got[e])
  BY DEF Types, Reads
<1>2. DOMAIN got' = End /\ got'[e] = Append(got[e], v) /\ \A f \in End : f # e => got'[f] = got[f]
  BY <1>1
<1>3. IsSequence(Append(got[e], v)) /\ Len(Append(got[e], v)) = Len(got[e]) + 1
  BY <1>1, AppendToAny
<1>4. \A f \in End : IsSequence(got'[f])
  BY <1>2, <1>3 DEF Types
<1>5. DOMAIN codec' = End /\ \A f \in End : IsCodec(codec'[f])
  BY DEF Types, Reads
<1>6. Types'
  BY <1>2, <1>4, <1>5 DEF Types, Reads
<1> QED BY <1>2, <1>3, <1>6

LEMMA InitStream == Init => StreamInv
<1> SUFFICES ASSUME Init PROVE StreamInv
  OBVIOUS
<1>1. /\ codec = [e \in End |-> NewCodec] /\ wire = [e \in End |-> <<>>]
      /\ sent = [e \in End |-> <<>>] /\ got = [e \in End |-> <<>>] /\ refused = [e \in End |-> <<>>]
  BY DEF Init
<1>2. IsCodec(NewCodec) /\ NewCodec.buf = <<>>
  BY DEF NewCodec, IsCodec, Offers
<1>3. IsSequence(<<>>) /\ <<>> \in Seq(Octet) /\ Len(<<>>) = 0
  BY EmptySeq DEF IsSequence
<1>4. AllOctets(<<>>)
  BY <1>3 DEF AllOctets
<1>5. Types
  BY <1>1, <1>2, <1>3, <1>4 DEF Types
<1>6. FromBehind(<<>>, 0) = <<>>
  <2>1. 0 \in 0..Len(<<>>)
    BY <1>3
  <2>2. FromBehind(<<>>, 0) \in Seq(Seq(Octet)) /\ Len(FromBehind(<<>>, 0)) = Len(<<>>) - 0
    BY <1>3, <1>4, <2>1, BehindType
  <2>3. Len(FromBehind(<<>>, 0)) = 0
    BY <1>3, <2>2
  <2> QED BY <2>2, <2>3, EmptySeq
<1>7. <<>> \o <<>> = <<>>
  BY <1>3, ConcatEmptySeq
<1>8. InStep(<<>>, 0, <<>>, <<>>)
  BY <1>3, <1>6, <1>7, FlattenEmpty DEF InStep
<1>9. ASSUME NEW e \in End PROVE InStep(sent[Other(e)], Len(got[e]), codec[e].buf, wire[e])
  <2>1. sent[Other(e)] = <<>> /\ got[e] = <<>> /\ codec[e].buf = <<>> /\ wire[e] = <<>>
    BY <1>1, <1>2, OtherEnd
  <2> QED BY <1>3, <1>8, <2>1
<1> QED BY <1>5, <1>9 DEF StreamInv

LEMMA ExactMessages ==
  ASSUME Types, LengthsAreExact, NEW e \in End
  PROVE  Exact(sent[e])
<1> SUFFICES ASSUME NEW i \in 1..Len(sent[e]), RightLength(sent[e][i])
             PROVE  LET o == sent[e][i].written.octets IN Len(o) >= 19 /\ Num(SubSeq(o, 17, 18)) = Len(o)
  BY DEF Exact
<1>1. i \in DOMAIN sent[e]
  BY AnySequence DEF Types
<1> DEFINE m == sent[e][i].message
           w == sent[e][i].written
<1>2. IsMessage(m) /\ IsSized(m)
  BY DEF RightLength
<1>3. IsMessage(m) =>
         /\ w.octets \in Seq(Octet)
         /\ (Len(w.octets) = w.len) = IsSized(m)
         /\ IsSized(m) => /\ Len(w.octets) >= BGP_MIN_MESSAGE_LENGTH
                          /\ Num(SubSeq(w.octets, 17, 18)) = w.len
  BY <1>1 DEF LengthsAreExact
<1> HIDE DEF m, w
<1>4. Len(w.octets) = w.len
  BY <1>2, <1>3, Zenon
<1>5. Len(w.octets) >= 19 /\ Num(SubSeq(w.octets, 17, 18)) = w.len
  BY <1>2, <1>3 DEF BGP_MIN_MESSAGE_LENGTH
<1> QED BY <1>4, <1>5 DEF w

LEMMA NextStream == StreamInv /\ LengthsAreExact /\ LengthsAreExact' /\ [Next]_vars => StreamInv'
<1> SUFFICES ASSUME StreamInv, LengthsAreExact, LengthsAreExact', [Next]_vars PROVE StreamInv'
  OBVIOUS
<1>0. /\ Types /\ (\A e \in End : InStep(sent[Other(e)], Len(got[e]), codec[e].buf, wire[e]))
      /\ \A e \in End : /\ IsSequence(sent[e]) /\ AllOctets(sent[e]) /\ IsSequence(got[e])
                        /\ Len(got[e]) \in Nat /\ wire[e] \in Seq(Octet)
  BY AnySequence DEF StreamInv, Types
<1>1. CASE \E e \in End : \E x : Sends(e, x)
  <2>0. PICK e \in End : \E x : Sends(e, x)
    BY <1>1
  <2>1. PICK x : Sends(e, x)
    BY <2>0
  <2>2. /\ Types'
        /\ sent'[e] = Append(sent[e], x) /\ wire'[Other(e)] = wire[Other(e)] \o x.written.octets
        /\ \A f \in End : f # e => sent'[f] = sent[f] /\ wire'[Other(f)] = wire[Other(f)]
    BY <1>0, <2>1, SendsTypes
  <2>3. got' = got /\ (\A f \in End : codec'[f].buf = codec[f].buf) /\ x.written.octets \in Seq(Octet)
    BY <2>1 DEF Sends
  <2>4. ASSUME NEW f \in End PROVE InStep(sent'[Other(f)], Len(got'[f]), codec'[f].buf, wire'[f])
    <3>1. Other(f) \in End /\ Other(Other(f)) = f
      BY OtherEnd
    <3>2. InStep(sent[Other(f)], Len(got[f]), codec[f].buf, wire[f])
      BY <1>0
    <3>3. CASE Other(f) = e
      <4>1. sent'[Other(f)] = Append(sent[Other(f)], x) /\ wire'[f] = wire[f] \o x.written.octets
        BY <2>2, <3>1, <3>3
      <4>2. InStep(Append(sent[Other(f)], x), Len(got[f]), codec[f].buf, wire[f] \o x.written.octets)
        BY <1>0, <2>3, <3>1, <3>2, SendInStep
      <4> QED BY <2>3, <4>1, <4>2
    <3>4. CASE Other(f) # e
      <4>1. sent'[Other(f)] = sent[Other(f)] /\ wire'[f] = wire[f]
        BY <2>2, <3>1, <3>4
      <4> QED BY <2>3, <3>2, <4>1
    <3> QED BY <3>3, <3>4
  <2> QED BY <2>2, <2>4 DEF StreamInv
<1>2. CASE \E e \in End : \E n \in 1..Len(wire[e]) : Deliver(e, n)
  <2>1. PICK e \in End : \E n \in 1..Len(wire[e]) : Deliver(e, n)
    BY <1>2
  <2>2. PICK n \in 1..Len(wire[e]) : Deliver(e, n)
    BY <2>1
  <2>3. /\ Types'
        /\ wire'[e] = Drop(wire[e], n) /\ codec'[e].buf = codec[e].buf \o SubSeq(wire[e], 1, n)
        /\ \A f \in End : f # e => wire'[f] = wire[f] /\ codec'[f] = codec[f]
        /\ UNCHANGED <<sent, got, refused>>
    BY <1>0, <2>2, DeliverTypes
  <2>4. ASSUME NEW f \in End PROVE InStep(sent'[Other(f)], Len(got'[f]), codec'[f].buf, wire'[f])
    <3>1. CASE f # e
      BY <1>0, <2>3, <3>1
    <3>2. CASE f = e
      <4>1. InStep(sent[Other(e)], Len(got[e]), codec[e].buf \o SubSeq(wire[e], 1, n), Drop(wire[e], n))
        BY <1>0, DeliverInStep
      <4> QED BY <2>3, <3>2, <4>1
    <3> QED BY <3>1, <3>2
  <2> QED BY <2>3, <2>4 DEF StreamInv
<1>3. CASE \E e \in End : Decode(e)
  <2>1. PICK e \in End : Decode(e)
    BY <1>3
  <2>2. CASE DOMAIN refused' = End /\ UNCHANGED <<codec, wire, sent, got>>
    BY <1>0, <2>2 DEF StreamInv, Types
  <2>3. CASE \E v : Reads(e, v)
    <3>1. PICK v : Reads(e, v)
      BY <2>3
    <3>2. /\ Types' /\ Len(got'[e]) = Len(got[e]) + 1
          /\ \A f \in End : f # e => got'[f] = got[f]
      BY <1>0, <3>1, ReadsTypes
    <3>3. /\ codec'[e].buf = Drop(codec[e].buf, Announces(codec[e].buf))
          /\ (\A f \in End : f # e => codec'[f] = codec[f]) /\ wire' = wire /\ sent' = sent
      BY <3>1 DEF Reads
    <3>4. HasMessage(codec[e].buf)
      BY <2>1 DEF Decode
    <3>5. ASSUME NEW f \in End PROVE InStep(sent'[Other(f)], Len(got'[f]), codec'[f].buf, wire'[f])
      <4>1. CASE f # e
        BY <1>0, <3>2, <3>3, <4>1
      <4>2. CASE f = e
        <5>1. Other(e) \in End /\ Exact(sent[Other(e)])
          BY <1>0, OtherEnd, ExactMessages
        <5>2. InStep(sent[Other(e)], Len(got[e]) + 1,
                     Drop(codec[e].buf, Announces(codec[e].buf)), wire[e])
          BY <1>0, <3>4, <5>1, DecodeInStep
        <5> QED BY <3>2, <3>3, <4>2, <5>2
      <4> QED BY <4>1, <4>2
    <3> QED BY <3>2, <3>5 DEF StreamInv
  <2> QED BY <1>0, <2>1, <2>2, <2>3, DecodeReads
<1>4. CASE UNCHANGED vars
  BY <1>4 DEF vars, StreamInv, Types
<1> QED BY <1>0, <1>1, <1>2, <1>3, <1>4, Steps

LEMMA StreamInvariant == Spec /\ []LengthsAreExact => []StreamInv
BY InitStream, NextStream, PTL DEF Spec

(* What is coming, in terms of what was sent. *)
LEMMA ComingIsSent ==
  ASSUME Types, NEW e \in End
  PROVE  LET s == sent[Other(e)] IN
         /\ Len(s) \in Nat /\ Len(Coming(e)) = Len(s) /\ DOMAIN Coming(e) = 1..Len(s)
         /\ \A i \in 1..Len(s) : Coming(e)[i] = s[i].message
         /\ \A n : AlignedUpTo(e, n) <=> SizedUpTo(s, n)
<1> DEFINE s == sent[Other(e)]
           c == [i \in 1..Len(s) |-> s[i].message]
<1>1. IsSequence(s)
  BY OtherEnd DEF Types
<1>2. Len(s) \in Nat /\ DOMAIN s = 1..Len(s)
  BY <1>1, AnySequence
<1>3. Coming(e) = c
  BY <1>2 DEF Coming
<1> HIDE DEF s
<1>4. Len(c) = Len(s) /\ DOMAIN c = 1..Len(s) /\ \A i \in 1..Len(s) : c[i] = s[i].message
  BY <1>2
<1> HIDE DEF c
<1>5. ASSUME NEW n PROVE AlignedUpTo(e, n) <=> SizedUpTo(s, n)
  <2>1. SizedUpTo(s, n) <=> \A i \in 1..n : i \in 1..Len(s) => IsMessage(s[i].message) /\ IsSized(s[i].message)
    BY DEF SizedUpTo, RightLength
  <2>2. AlignedUpTo(e, n) <=> \A i \in 1..n : i \in 1..Len(s) => IsMessage(c[i]) /\ IsSized(c[i])
    BY <1>3, <1>4 DEF AlignedUpTo
  <2> QED BY <1>4, <2>1, <2>2
<1> QED BY <1>2, <1>3, <1>4, <1>5 DEF s

---------------------------------------------------------------------------
(* The theorems. *)

(* However TCP cuts the stream: as long as len() is exact for the messages  *)
(* that were sent, decode takes the messages off the stream one by one, and *)
(* what is left is what was sent behind them, octet for octet.              *)
THEOREM FramingIsKept == Spec /\ []LengthsAreExact => []StreamStaysAligned
<1>1. StreamInv => StreamStaysAligned
  <2> SUFFICES ASSUME StreamInv, NEW e \in End, AlignedUpTo(e, Len(got[e]))
               PROVE  /\ Len(got[e]) <= Len(Coming(e))
                      /\ codec[e].buf \o wire[e] =
                           FlattenSeq([i \in 1 .. Len(Coming(e)) - Len(got[e]) |->
                                         sent[Other(e)][Len(got[e]) + i].written.octets])
    BY DEF StreamStaysAligned
  <2>1. Types /\ InStep(sent[Other(e)], Len(got[e]), codec[e].buf, wire[e])
    BY DEF StreamInv
  <2>2. Len(Coming(e)) = Len(sent[Other(e)]) /\ SizedUpTo(sent[Other(e)], Len(got[e]))
    BY <2>1, ComingIsSent
  <2>3. /\ Len(got[e]) <= Len(sent[Other(e)])
        /\ codec[e].buf \o wire[e] = FlattenSeq(FromBehind(sent[Other(e)], Len(got[e])))
    BY <2>1, <2>2 DEF InStep
  <2> QED BY <2>2, <2>3 DEF FromBehind
<1> QED BY <1>1, StreamInvariant, PTL

(* A message that survives has the right length. *)
LEMMA AttributesAreSized ==
  ASSUME NEW a, AttributeSurvives(a)
  PROVE  AttributeIsSized(a)
<1>1. Countable(a) /\ TlvsSurvive(a)
  BY DEF AttributeSurvives
<1>2. CASE a.kind = "MpReachNlri"
  <2>1. MpReachSurvives(a.value)
    BY <1>2 DEF AttributeSurvives
  <2>2. a.value.family # "Unknown"
    BY <2>1 DEF MpReachSurvives
  <2>3. ASSUME a.value.family = "L2VpnBgpEvpn", NEW i \in DOMAIN a.value.nlri
        PROVE  a.value.nlri[i].route.kind # "Unknown"
    <3>1. RouteSurvives(a.value.family, a.value.family \in ForcedAddPath, a.value.nlri[i])
      BY <2>1, <2>3 DEF MpReachSurvives, Every
    <3> QED BY <2>3, <3>1 DEF RouteSurvives
  <2> QED BY <1>1, <1>2, <2>2, <2>3 DEF AttributeIsSized, Every
<1>3. CASE a.kind = "MpUnreachNlri"
  <2>1. MpUnreachSurvives(a.value)
    BY <1>3 DEF AttributeSurvives
  <2>2. ASSUME a.value.family = "L2VpnBgpEvpn", NEW i \in DOMAIN a.value.nlri
        PROVE  a.value.nlri[i].route.kind # "Unknown"
    <3>1. RouteSurvives(a.value.family, a.value.family = "Ipv4Unicast", a.value.nlri[i])
      BY <2>1, <2>2 DEF MpUnreachSurvives, Every
    <3> QED BY <2>2, <3>1 DEF RouteSurvives
  <2> QED BY <1>1, <1>3, <2>2 DEF AttributeIsSized, Every
<1>4. CASE a.kind \notin {"MpReachNlri", "MpUnreachNlri"}
  BY <1>1, <1>4 DEF AttributeIsSized
<1> QED BY <1>2, <1>3, <1>4

LEMMA SurvivorsAreSized ==
  ASSUME NEW m, Survives(m)
  PROVE  IsSized(m)
<1>1. CASE m.kind = "Open"
  <2> DEFINE cs == capabilities(m.value)
  <2>1. Every(CapabilitySurvives, cs)
    BY <1>1 DEF Survives
  <2> HIDE DEF cs
  <2>2. ASSUME NEW i \in DOMAIN cs PROVE cs[i].kind # "MultipleLabelsCapability"
    <3>1. CapabilitySurvives(cs[i])
      BY <2>1 DEF Every
    <3> QED BY <3>1 DEF CapabilitySurvives
  <2>3. Every(LAMBDA c : c.kind # "MultipleLabelsCapability", cs)
    BY <2>2 DEF Every
  <2> QED BY <1>1, <2>3 DEF IsSized, cs
<1>2. CASE m.kind = "Update"
  <2> DEFINE as == m.value.path_attributes
  <2>1. Every(AttributeSurvives, as)
    BY <1>2 DEF Survives, UpdateSurvives
  <2>2. \A i \in DOMAIN as : AttributeIsSized(as[i])
    BY <2>1, AttributesAreSized DEF Every
  <2> HIDE DEF as
  <2>3. Every(AttributeIsSized, as)
    BY <2>2 DEF Every
  <2> QED BY <1>2, <2>3 DEF IsSized, as
<1>3. CASE m.kind \notin {"Open", "Update"}
  BY <1>3 DEF IsSized
<1> QED BY <1>1, <1>2, <1>3

(* A buffer that holds all that is left holds the next message. *)
LEMMA AllHasMessage ==
  ASSUME NEW s, IsSequence(s), AllOctets(s), Exact(s), NEW n \in Nat, NEW b,
         InStep(s, n, b, <<>>), SizedUpTo(s, n), n < Len(s), RightLength(s[n + 1])
  PROVE  HasMessage(b)
<1> DEFINE o == s[n + 1].written.octets
           r == FlattenSeq(FromBehind(s, n + 1))
<1>1. Len(s) \in Nat /\ n + 1 \in 1..Len(s) /\ n + 1 \in 0..Len(s) /\ <<>> \in Seq(Octet)
  BY AnySequence
<1>2. o \in Seq(Octet) /\ Len(o) >= 19
  BY <1>1 DEF AllOctets, Exact
<1>3. r \in Seq(Octet)
  BY <1>1, BehindType, FlattenType
<1>4. b \in Seq(Octet) /\ b \o <<>> = o \o r
  BY BehindHead DEF InStep
<1> HIDE DEF o, r
<1>5. b = o \o r
  BY <1>4, ConcatEmptySeq
<1>6. Len(b) = Len(o) + Len(r) /\ Len(o) \in Nat /\ Len(r) \in Nat
  BY <1>2, <1>3, <1>5, ConcatProperties, LenProperties
<1>7. Len(b) >= 19 /\ Len(b) >= Len(o)
  BY <1>2, <1>6
<1>8. Announces(b) = Len(o)
  BY <1>1, <1>7, HeadInStep DEF o
<1> QED BY <1>7, <1>8 DEF HasMessage

(* A decoder that asks for more octets when none are left has decoded all   *)
(* that was sent, if the messages it was sent are ones it can read.         *)
THEOREM AllIsRead == Spec /\ []LengthsAreExact /\ []ReadBackExactly => []NothingIsLeftUnread
<1>1. StreamInv /\ LengthsAreExact /\ ReadBackExactly => NothingIsLeftUnread
  <2> SUFFICES ASSUME StreamInv, LengthsAreExact, ReadBackExactly, NEW e \in End,
                      wire[e] = <<>>, ~HasMessage(codec[e].buf),
                      \A i \in DOMAIN Coming(e) : IsMessage(Coming(e)[i]) /\ Survives(Coming(e)[i])
               PROVE  got[e] = Coming(e)
    BY DEF NothingIsLeftUnread
  <2> DEFINE s == sent[Other(e)]
             n == Len(got[e])
             b == codec[e].buf
  <2>1. Types /\ InStep(s, n, b, <<>>)
    BY DEF StreamInv
  <2>2. /\ Len(s) \in Nat /\ Len(Coming(e)) = Len(s) /\ DOMAIN Coming(e) = 1..Len(s)
        /\ \A i \in 1..Len(s) : Coming(e)[i] = s[i].message
        /\ \A k : AlignedUpTo(e, k) <=> SizedUpTo(s, k)
    BY <2>1, ComingIsSent
  <2>3. IsSequence(s) /\ AllOctets(s) /\ Exact(s)
    BY <2>1, OtherEnd, ExactMessages DEF Types
  <2>4. n \in Nat /\ DOMAIN got[e] = 1..n /\ IsSequence(got[e])
    BY <2>1, AnySequence DEF Types
  <2> HIDE DEF s, n, b
  <2>5. \A i \in 1..Len(s) : RightLength(s[i])
    BY <2>2, SurvivorsAreSized DEF RightLength
  <2>6. \A k : SizedUpTo(s, k)
    BY <2>5 DEF SizedUpTo
  <2>7. n <= Len(s)
    BY <2>1, <2>6 DEF InStep
  <2>8. n = Len(s)
    <3>0. Len(s) \in Nat /\ n \in Nat
      BY <2>2, <2>4
    <3> SUFFICES ASSUME n < Len(s) PROVE FALSE
      BY <2>7, <3>0
    <3>1. RightLength(s[n + 1])
      BY <2>2, <2>4, <2>5
    <3>2. HasMessage(b)
      BY <2>1, <2>3, <2>4, <2>6, <3>1, AllHasMessage
    <3> QED BY <3>2 DEF b
  <2>9. ASSUME NEW i \in 1..n PROVE got[e][i] = Coming(e)[i]
    <3>1. i \in DOMAIN got[e] \cap DOMAIN Coming(e)
      BY <2>2, <2>4, <2>8
    <3>2. AlignedUpTo(e, i) /\ Survives(Coming(e)[i])
      BY <2>2, <2>6, <3>1
    <3>3. (got[e][i] = Coming(e)[i]) = Survives(Coming(e)[i])
      BY <3>1, <3>2 DEF ReadBackExactly
    <3> QED BY <3>2, <3>3, Zenon
  <2>10. Coming(e) = [i \in 1..n |-> Coming(e)[i]]
    BY <2>2, <2>8 DEF Coming
  <2>11. got[e] = [i \in 1..n |-> got[e][i]]
    <3>1. PICK S : got[e] \in Seq(S)
      BY <2>4 DEF IsSequence
    <3> QED BY <2>4, <3>1
  <2> QED BY <2>9, <2>10, <2>11
<1> QED BY <1>1, StreamInvariant, PTL

---------------------------------------------------------------------------
(* The width of AS numbers. *)

LEMMA SessionOpensSurvive ==
  ASSUME NEW m, SessionOpen(m)
  PROVE  IsMessage(m) /\ Survives(m) /\ IsSized(m)
<1> DEFINE c == [kind |-> "FourOctetAs", value |-> Ramp(4)]
           cs == capabilities(m.value)
<1>1. m.kind = "Open" /\ (m.value.params = <<>> \/ m.value.params = <<<<c>>>>)
  BY DEF SessionOpen, SessionParameters, NoParameters, OnlyAsn4
<1>2. c.kind = "FourOctetAs"
  OBVIOUS
<1> HIDE DEF c
<1>3. cs = <<>> \/ cs = <<c>>
  <2>1. CASE m.value.params = <<>>
    BY <2>1, FlattenEmpty DEF capabilities
  <2>2. CASE m.value.params = <<<<c>>>>
    <3>1. <<>> \in Seq(Seq({c})) /\ <<c>> \in Seq({c}) /\ <<>> \in Seq({c})
      OBVIOUS
    <3>2. FlattenSeq(Append(<<>>, <<c>>)) = FlattenSeq(<<>>) \o <<c>>
      BY <3>1, FlattenAppend
    <3>3. Append(<<>>, <<c>>) = <<<<c>>>>
      OBVIOUS
    <3>4. <<>> \o <<c>> = <<c>>
      BY <3>1, ConcatEmptySeq
    <3> QED BY <2>2, <3>2, <3>3, <3>4, FlattenEmpty DEF capabilities
  <2> QED BY <1>1, <2>1, <2>2
<1> HIDE DEF cs
<1>4. \A i \in DOMAIN cs : cs[i] = c
  BY <1>3
<1>5. CapabilitySurvives(c)
  BY <1>2 DEF CapabilitySurvives
<1>6. Every(CapabilitySurvives, cs)
  BY <1>4, <1>5 DEF Every
<1>7. Survives(m)
  BY <1>1, <1>6 DEF Survives, cs
<1> QED BY <1>1, <1>7, SurvivorsAreSized DEF IsMessage

(* What a codec knows of the OPEN it has received, after at most one        *)
(* message.                                                                 *)
Knows(g, offer) ==
  /\ Len(g) = 0 => offer = <<>>
  /\ Len(g) = 1 => offer = IF g[1].kind = "Open" THEN <<HasFourOctetAs(g[1].value)>> ELSE <<>>

(* What the local side has sent, and what its codec knows of it. *)
LocalOpens(s, offer) ==
  \/ s = <<>>
  \/ Len(s) = 1 /\ SessionOpen(s[1].message) /\ offer = <<HasFourOctetAs(s[1].message.value)>>

(* What the peer has sent: an UPDATE is second, behind an OPEN and after    *)
(* the OPEN of the local side has been read.                                *)
PeerOpens(s, offer, received) ==
  /\ Len(s) > 0 /\ s[1].message.kind = "Open" => offer = <<HasFourOctetAs(s[1].message.value)>>
  /\ \A i \in 1..Len(s) : s[i].message.kind = "Update" =>
       i = 2 /\ SessionOpen(s[1].message) /\ received # <<>>

SessionInv ==
  /\ \A e \in End : Knows(got[e], codec[e].asn4_received)
  /\ LocalOpens(sent["local"], codec["local"].asn4_sent)
  /\ PeerOpens(sent["peer"], codec["peer"].asn4_sent, codec["peer"].asn4_received)

LEMMA InitSession == Init => SessionInv
<1> SUFFICES ASSUME Init PROVE SessionInv
  OBVIOUS
<1>1. \A e \in End : got[e] = <<>> /\ sent[e] = <<>> /\ codec[e].asn4_received = <<>>
  BY DEF Init, NewCodec
<1>2. Len(<<>>) = 0 /\ "local" \in End /\ "peer" \in End
  BY DEF End
<1> QED BY <1>1, <1>2 DEF SessionInv, Knows, LocalOpens, PeerOpens

LEMMA SendsKeepSession ==
  ASSUME Types, SessionInv, NEW e \in End, NEW x, Sends(e, x), Proper(e, x.message)
  PROVE  SessionInv'
<1>1. /\ sent'[e] = Append(sent[e], x) /\ \A f \in End : f # e => sent'[f] = sent[f]
  BY SendsTypes
<1>2. /\ got' = got
      /\ \A f \in End : /\ codec'[f].asn4_received = codec[f].asn4_received
                        /\ codec'[f].asn4_sent =
                             IF f = e /\ x.message.kind = "Open" THEN <<HasFourOctetAs(x.message.value)>>
                             ELSE codec[f].asn4_sent
  BY DEF Sends
<1>3. /\ Len(sent[e]) \in Nat /\ Len(sent'[e]) = Len(sent[e]) + 1
      /\ sent'[e][Len(sent[e]) + 1] = x /\ \A i \in 1..Len(sent[e]) : sent'[e][i] = sent[e][i]
      /\ (sent[e] = <<>> <=> Len(sent[e]) = 0)
  BY <1>1, AppendToAny, AnySequence DEF Types
<1>4. e = "local" \/ e = "peer"
  BY DEF End
<1>5. "local" \in End /\ "peer" \in End /\ "local" # "peer"
  BY DEF End
<1>6. \A f \in End : Knows(got'[f], codec'[f].asn4_received)
  BY <1>2 DEF SessionInv
<1>7. CASE e = "local"
  <2>1. SessionOpen(x.message) /\ sent["local"] = <<>>
    BY <1>7 DEF Proper
  <2>2. Len(sent'["local"]) = 1 /\ sent'["local"][1] = x
    BY <1>3, <1>7, <2>1
  <2>3. codec'["local"].asn4_sent = <<HasFourOctetAs(x.message.value)>>
    BY <1>2, <1>5, <1>7, <2>1 DEF SessionOpen
  <2>4. LocalOpens(sent'["local"], codec'["local"].asn4_sent)
    BY <2>1, <2>2, <2>3 DEF LocalOpens
  <2>5. sent'["peer"] = sent["peer"] /\ codec'["peer"].asn4_sent = codec["peer"].asn4_sent
        /\ codec'["peer"].asn4_received = codec["peer"].asn4_received
    BY <1>1, <1>2, <1>5, <1>7
  <2> QED BY <1>6, <2>4, <2>5 DEF SessionInv
<1>8. CASE e = "peer"
  <2>1. sent'["local"] = sent["local"] /\ codec'["local"].asn4_sent = codec["local"].asn4_sent
        /\ codec'["peer"].asn4_received = codec["peer"].asn4_received
    BY <1>1, <1>2, <1>5, <1>8
  <2> DEFINE s == sent["peer"]
             t == sent'["peer"]
             old == codec["peer"].asn4_sent
             new == codec'["peer"].asn4_sent
             received == codec["peer"].asn4_received
  <2>2. PeerOpens(s, old, received)
    BY DEF SessionInv
  <2>3. /\ Len(s) \in Nat /\ Len(t) = Len(s) + 1
        /\ t[Len(s) + 1] = x /\ \A i \in 1..Len(s) : t[i] = s[i]
        /\ (s = <<>> <=> Len(s) = 0)
    BY <1>3, <1>8
  <2>4. new = IF x.message.kind = "Open" THEN <<HasFourOctetAs(x.message.value)>> ELSE old
    BY <1>2, <1>5, <1>8
  <2>5. /\ x.message.kind = "Open" => s = <<>>
        /\ x.message.kind = "Update" => Len(s) = 1 /\ SessionOpen(s[1].message) /\ received # <<>>
    BY <1>8 DEF Proper
  <2> HIDE DEF s, t, old, new, received
  <2>6. Len(t) > 0 /\ t[1].message.kind = "Open" => new = <<HasFourOctetAs(t[1].message.value)>>
    <3>1. CASE Len(s) = 0
      BY <2>3, <2>4, <3>1
    <3>2. CASE Len(s) > 0
      <4>1. t[1] = s[1] /\ new = old
        BY <2>3, <2>4, <2>5, <3>2
      <4> QED BY <2>2, <3>2, <4>1 DEF PeerOpens
    <3> QED BY <2>3, <3>1, <3>2
  <2>7. ASSUME NEW i \in 1..Len(t), t[i].message.kind = "Update"
        PROVE  i = 2 /\ SessionOpen(t[1].message) /\ received # <<>>
    <3>1. CASE i \in 1..Len(s)
      <4>1. t[i] = s[i] /\ t[1] = s[1]
        BY <2>3, <3>1
      <4> QED BY <2>2, <2>7, <3>1, <4>1 DEF PeerOpens
    <3>2. CASE i = Len(s) + 1
      <4>1. t[i] = x
        BY <2>3, <3>2
      <4>2. Len(s) = 1 /\ SessionOpen(s[1].message) /\ received # <<>>
        BY <2>5, <2>7, <4>1
      <4> QED BY <2>3, <3>2, <4>2
    <3> QED BY <2>3, <3>1, <3>2
  <2>8. PeerOpens(t, new, received)
    BY <2>6, <2>7 DEF PeerOpens
  <2>9. PeerOpens(sent'["peer"], codec'["peer"].asn4_sent, codec'["peer"].asn4_received)
    BY <2>1, <2>8 DEF t, new, received
  <2> QED BY <1>6, <2>1, <2>9 DEF SessionInv
<1> QED BY <1>4, <1>7, <1>8

LEMMA ReadsKeepSession ==
  ASSUME Types, SessionInv, NEW e \in End, NEW v, Reads(e, v)
  PROVE  SessionInv'
<1>1. /\ got'[e] = Append(got[e], v) /\ \A f \in End : f # e => got'[f] = got[f]
  BY ReadsTypes
<1> DEFINE offer == <<HasFourOctetAs(v.value)>>
<1>2. /\ sent' = sent /\ codec'[e].asn4_sent = codec[e].asn4_sent
      /\ (\A f \in End : f # e => codec'[f] = codec[f])
      /\ codec'[e].asn4_received = (IF v.kind = "Open" THEN offer ELSE codec[e].asn4_received)
  BY DEF Reads
<1>3. /\ Len(got[e]) \in Nat /\ Len(got'[e]) = Len(got[e]) + 1
      /\ got'[e][Len(got[e]) + 1] = v
  BY <1>1, AppendToAny DEF Types
<1>4. "local" \in End /\ "peer" \in End
  BY DEF End
<1>5. Len(offer) = 1 /\ Len(<<>>) = 0
  OBVIOUS
<1>6. Knows(got'[e], codec'[e].asn4_received)
  <2>1. Knows(got[e], codec[e].asn4_received)
    BY DEF SessionInv
  <2>2. Len(got'[e]) # 0
    BY <1>3
  <2>3. ASSUME Len(got'[e]) = 1
        PROVE  got'[e][1] = v /\ codec[e].asn4_received = <<>>
    <3>1. Len(got[e]) = 0
      BY <1>3, <2>3
    <3> QED BY <1>3, <2>1, <3>1 DEF Knows
  <2> QED BY <1>2, <2>2, <2>3 DEF Knows
<1>7. \A f \in End : Knows(got'[f], codec'[f].asn4_received)
  BY <1>1, <1>2, <1>6 DEF SessionInv
<1>8. codec'["local"].asn4_sent = codec["local"].asn4_sent
      /\ codec'["peer"].asn4_sent = codec["peer"].asn4_sent
  BY <1>2, <1>4
<1>9. codec["peer"].asn4_received # <<>> => codec'["peer"].asn4_received # <<>>
  <2>1. offer # <<>>
    BY <1>5
  <2> HIDE DEF offer
  <2> QED BY <1>2, <1>4, <2>1
<1>10. PeerOpens(sent'["peer"], codec'["peer"].asn4_sent, codec'["peer"].asn4_received)
  <2>1. PeerOpens(sent["peer"], codec["peer"].asn4_sent, codec["peer"].asn4_received)
    BY DEF SessionInv
  <2> QED BY <1>2, <1>8, <1>9, <2>1 DEF PeerOpens
<1> QED BY <1>2, <1>7, <1>8, <1>10 DEF SessionInv

LEMMA NextSession ==
  StreamInv /\ SessionInv /\ LengthsAreExact' /\ [Next]_vars => SessionInv'
<1> SUFFICES ASSUME StreamInv, SessionInv, LengthsAreExact', [Next]_vars PROVE SessionInv'
  OBVIOUS
<1>0. Types
  BY DEF StreamInv
<1>1. CASE \E e \in End : \E x : Sends(e, x) /\ Proper(e, x.message)
  BY <1>0, <1>1, SendsKeepSession
<1>2. CASE \E e \in End : \E n \in 1..Len(wire[e]) : Deliver(e, n)
  <2>1. UNCHANGED <<sent, got>>
        /\ \A f \in End : /\ codec'[f].asn4_sent = codec[f].asn4_sent
                          /\ codec'[f].asn4_received = codec[f].asn4_received
    BY <1>0, <1>2, DeliverTypes
  <2>2. "local" \in End /\ "peer" \in End
    BY DEF End
  <2> QED BY <2>1, <2>2 DEF SessionInv
<1>3. CASE \E e \in End : Decode(e)
  <2>1. PICK e \in End : Decode(e)
    BY <1>3
  <2>2. CASE UNCHANGED <<codec, wire, sent, got>>
    BY <2>2 DEF SessionInv
  <2>3. CASE \E v : Reads(e, v)
    BY <1>0, <2>3, ReadsKeepSession
  <2> QED BY <1>0, <2>1, <2>2, <2>3, DecodeReads
<1>4. CASE UNCHANGED vars
  BY <1>4 DEF vars, SessionInv
<1> QED BY <1>0, <1>1, <1>2, <1>3, <1>4, Steps

(* An end that has been sent a session's OPEN first, and has read one       *)
(* message, knows what that OPEN offers.                                    *)
LEMMA OpenIsKnown ==
  ASSUME Types, SessionInv, ReadBackExactly, NEW e \in End, Len(got[e]) = 1,
         Len(sent[Other(e)]) > 0, SessionOpen(sent[Other(e)][1].message)
  PROVE  codec[e].asn4_received = <<HasFourOctetAs(sent[Other(e)][1].message.value)>>
<1> DEFINE s == sent[Other(e)]
           m == s[1].message
<1>1. /\ Len(s) \in Nat /\ DOMAIN Coming(e) = 1..Len(s)
      /\ \A i \in 1..Len(s) : Coming(e)[i] = s[i].message
      /\ \A n : AlignedUpTo(e, n) <=> SizedUpTo(s, n)
  BY ComingIsSent
<1>2. DOMAIN got[e] = 1..1
  BY AnySequence DEF Types
<1> HIDE DEF s
<1>3. Len(s) > 0 /\ SessionOpen(m)
  BY DEF s
<1>4. 1 \in 1..Len(s) /\ 1 \in 1..1
  BY <1>1, <1>3
<1>5. IsMessage(m) /\ IsSized(m) /\ Survives(m) /\ m.kind = "Open"
  BY <1>3, SessionOpensSurvive DEF SessionOpen
<1>6. SizedUpTo(s, 1)
  <2>1. RightLength(s[1])
    BY <1>5 DEF RightLength
  <2> QED BY <2>1 DEF SizedUpTo
<1>7. Coming(e)[1] = m /\ AlignedUpTo(e, 1) /\ 1 \in DOMAIN got[e] \cap DOMAIN Coming(e)
  BY <1>1, <1>2, <1>4, <1>6
<1> HIDE DEF m
<1>8. got[e][1] = m
  <2>1. (got[e][1] = Coming(e)[1]) = Survives(Coming(e)[1])
    BY <1>7 DEF ReadBackExactly
  <2>2. (got[e][1] = m) = Survives(m)
    BY <1>7, <2>1
  <2> QED BY <1>5, <2>2, Zenon
<1>9. Knows(got[e], codec[e].asn4_received)
  BY DEF SessionInv
<1> QED BY <1>5, <1>8, <1>9 DEF Knows, m, s

(* Whatever the two OPENs offer and however the stream is cut: when an      *)
(* UPDATE is next to be read, the reader's codec and the writer's have      *)
(* agreed on the same width of AS numbers.                                  *)
THEOREM WidthIsAgreed == Spec /\ []LengthsAreExact /\ []ReadBackExactly => []AsnWidthAgreed
<1>1. StreamInv /\ SessionInv /\ LengthsAreExact /\ ReadBackExactly => AsnWidthAgreed
  <2> SUFFICES ASSUME StreamInv, SessionInv, ReadBackExactly, NEW e \in End,
                      Len(got[e]) + 1 \in DOMAIN Coming(e),
                      Coming(e)[Len(got[e]) + 1].kind = "Update"
               PROVE  Asn4(codec[e]) = Asn4(codec[Other(e)])
    BY DEF AsnWidthAgreed
  <2> DEFINE s == sent[Other(e)]
             n == Len(got[e]) + 1
  <2>1. Types /\ (\A f \in End : InStep(sent[Other(f)], Len(got[f]), codec[f].buf, wire[f]))
    BY DEF StreamInv
  <2>2. n \in 1..Len(s) /\ s[n].message.kind = "Update" /\ Len(s) \in Nat
    <3>1. /\ Len(s) \in Nat /\ DOMAIN Coming(e) = 1..Len(s)
          /\ \A i \in 1..Len(s) : Coming(e)[i] = s[i].message
      BY <2>1, ComingIsSent
    <3> QED BY <3>1
  <2>3. LocalOpens(sent["local"], codec["local"].asn4_sent)
        /\ PeerOpens(sent["peer"], codec["peer"].asn4_sent, codec["peer"].asn4_received)
    BY DEF SessionInv
  <2>4. e = "local"
    <3> SUFFICES ASSUME e = "peer" PROVE FALSE
      BY DEF End
    <3>1. LocalOpens(s, codec["local"].asn4_sent)
      BY <2>3, OtherEnd
    <3>2. CASE s = <<>>
      <4>1. Len(s) = 0
        BY <3>2
      <4> QED BY <2>2, <4>1
    <3>3. CASE Len(s) = 1 /\ SessionOpen(s[1].message)
      <4>1. n = 1
        BY <2>2, <3>3
      <4> QED BY <2>2, <3>3, <4>1 DEF SessionOpen
    <3> QED BY <3>1, <3>2, <3>3 DEF LocalOpens
  <2>5. s = sent["peer"] /\ Other(e) = "peer" /\ "peer" \in End
    BY <2>4, OtherEnd DEF End
  <2>6. n = 2 /\ SessionOpen(s[1].message) /\ codec["peer"].asn4_received # <<>>
    BY <2>2, <2>3, <2>5 DEF PeerOpens
  <2>7. Len(got["local"]) = 1 /\ Len(s) > 0
    <3>1. Len(got[e]) \in Nat
      BY <2>1, AnySequence DEF Types
    <3> DEFINE g == Len(got[e])
               k == Len(s)
    <3>2. g \in Nat /\ k \in Nat /\ g + 1 \in 1..k /\ g + 1 = 2
      BY <2>2, <2>6, <3>1
    <3> HIDE DEF g, k
    <3>3. g = 1 /\ k > 0
      BY <3>2
    <3> QED BY <2>4, <3>3 DEF g, k
  <2>8. codec["local"].asn4_received = <<HasFourOctetAs(s[1].message.value)>>
    BY <2>1, <2>4, <2>6, <2>7, OpenIsKnown
  <2>9. codec["peer"].asn4_sent = <<HasFourOctetAs(s[1].message.value)>>
    BY <2>3, <2>5, <2>6, <2>7 DEF PeerOpens, SessionOpen
  <2> DEFINE q == sent["local"]
  <2>10. Other("peer") = "local" /\ Len(got["peer"]) \in Nat /\ IsSequence(q) /\ Len(q) \in Nat
    BY <2>1, <2>5, OtherEnd, AnySequence DEF Types, End
  <2>11. Len(got["peer"]) # 0
    BY <2>5, <2>6 DEF SessionInv, Knows
  <2>12. Len(q) <= 1 /\ \A i \in 1..Len(q) : SessionOpen(q[i].message)
    <3>1. CASE q = <<>>
      <4>1. Len(q) = 0
        BY <3>1
      <4> QED BY <4>1
    <3>2. CASE Len(q) = 1 /\ SessionOpen(q[1].message)
      BY <3>2
    <3> QED BY <2>3, <3>1, <3>2 DEF LocalOpens
  <2> HIDE DEF q
  <2>13. SizedUpTo(q, Len(got["peer"]))
    BY <2>12, SessionOpensSurvive DEF SizedUpTo, RightLength
  <2>14. Len(got["peer"]) <= Len(q)
    BY <2>1, <2>5, <2>10, <2>13 DEF InStep, q
  <2>15. Len(got["peer"]) = 1 /\ Len(q) = 1
    <3> DEFINE g == Len(got["peer"])
               k == Len(q)
    <3>1. g \in Nat /\ k \in Nat /\ g # 0 /\ k <= 1 /\ g <= k
      BY <2>10, <2>11, <2>12, <2>14
    <3> HIDE DEF g, k
    <3>2. g = 1 /\ k = 1
      BY <3>1
    <3> QED BY <3>2 DEF g, k
  <2>16. SessionOpen(q[1].message) /\ codec["local"].asn4_sent = <<HasFourOctetAs(q[1].message.value)>>
    <3>1. q # <<>>
      BY <2>10, <2>15, AnySequence
    <3> QED BY <2>3, <3>1 DEF LocalOpens, q
  <2>17. codec["peer"].asn4_received = <<HasFourOctetAs(q[1].message.value)>>
    BY <2>1, <2>5, <2>10, <2>15, <2>16, OpenIsKnown DEF q
  <2>18. /\ codec["local"].asn4_received = codec["peer"].asn4_sent
         /\ codec["local"].asn4_sent = codec["peer"].asn4_received
    BY <2>8, <2>9, <2>16, <2>17
  <2> QED BY <2>4, <2>5, <2>18 DEF Asn4
<1>2. StreamInv /\ SessionInv /\ LengthsAreExact /\ LengthsAreExact' /\ [Next]_vars
        => StreamInv' /\ SessionInv'
  BY NextStream, NextSession
<1> QED BY <1>1, <1>2, InitStream, InitSession, PTL DEF Spec
=============================================================================
