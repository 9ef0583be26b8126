---------------------------- MODULE LocalCacheProofs ---------------------------
(***************************************************************************)
(* The accounting of the cache, for any number of callers, chunks, sizes   *)
(* and restarts: what the two tiers hold is what they were meant to.       *)
(*                                                                         *)
(* The first part is about sums.  Induction over a sequence is an argument *)
(* about the least number at which a claim fails.                          *)
(***************************************************************************)
EXTENDS LocalCache, WellFoundedInduction, NaturalsInduction, SequenceTheorems, TLAPS

(* Sums *)

\* A set of numbers has a least one.
LEMMA Least ==
  ASSUME NEW S \in SUBSET Nat, S # {}
  PROVE  \E n \in S : \A m \in S : n <= m
<1>1. OpToRel(<, Nat) = {ss \in Nat \X Nat : ss[1] < ss[2]}
  BY Zenon DEF OpToRel
<1>2. IsWellFoundedOn({ss \in Nat \X Nat : ss[1] < ss[2]}, Nat)
  BY <1>1, NatLessThanWellFounded, Zenon
<1>3. PICK n \in S : \A m \in S : ~(<<m, n>> \in {ss \in Nat \X Nat : ss[1] < ss[2]})
  BY <1>2, WFMin, Zenon
<1>4. \A m \in S : ~(m < n) BY <1>3, Zenon
<1> QED BY <1>4

\* What the recursive definition of Sums says.
Summed(f, w) == f = [i \in 0..Len(w) |-> IF i = 0 THEN 0 ELSE f[i - 1] + w[i]]

LEMMA SummedExists ==
  ASSUME NEW w \in Seq(Nat)
  PROVE  \E f : Summed(f, w)
<1> DEFINE Fails == {n \in Nat : \E u \in Seq(Nat) : Len(u) = n /\ ~\E f : Summed(f, u)}
<1>1. SUFFICES Fails = {}
  <2>1. Len(w) \in Nat OBVIOUS
  <2> QED BY <1>1, <2>1, Zenon
<1>2. ASSUME Fails # {} PROVE FALSE
  <2>1. PICK n \in Fails : \A m \in Fails : n <= m BY <1>2, Least, Zenon
  <2>2. PICK u \in Seq(Nat) : Len(u) = n /\ ~\E f : Summed(f, u) BY <2>1, Zenon
  <2>3. n # 0
    <3>1. ASSUME n = 0 PROVE Summed([i \in 0..0 |-> 0], u)
      BY <2>2, <3>1 DEF Summed
    <3> QED BY <2>2, <3>1, Zenon
  <2>4. n \in Nat /\ n - 1 \in Nat /\ n - 1 \notin Fails BY <2>1, <2>3
  <2>5. SubSeq(u, 1, n - 1) \in Seq(Nat) /\ Len(SubSeq(u, 1, n - 1)) = n - 1
    BY <2>2, <2>4
  <2>6. PICK f : Summed(f, SubSeq(u, 1, n - 1)) BY <2>4, <2>5, Zenon
  <2>7. f = [i \in 0..(n - 1) |-> IF i = 0 THEN 0 ELSE f[i - 1] + u[i]]
    <3>1. \A i \in 1..(n - 1) : SubSeq(u, 1, n - 1)[i] = u[i] BY <2>2, <2>4
    <3>2. DOMAIN f = 0..(n - 1) BY <2>5, <2>6, Zenon DEF Summed
    <3>3. \A i \in 0..(n - 1) : f[i] = IF i = 0 THEN 0 ELSE f[i - 1] + u[i]
      BY <2>4, <2>5, <2>6, <3>1 DEF Summed
    <3>4. f = [i \in DOMAIN f |-> f[i]] BY <2>6, Zenon DEF Summed
    <3> QED BY <3>2, <3>3, <3>4, Zenon
  <2> DEFINE g == [i \in 0..n |-> IF i = n THEN f[n - 1] + u[n] ELSE f[i]]
  <2>8. Summed(g, u)
    <3>1. g = [i \in 0..n |-> IF i = 0 THEN 0 ELSE g[i - 1] + u[i]]
      <4>1. \A i \in 0..n : g[i] = IF i = 0 THEN 0 ELSE g[i - 1] + u[i]
        BY <2>3, <2>4, <2>7
      <4> QED BY <4>1, Zenon
    <3> QED BY <2>2, <3>1, Zenon DEF Summed
  <2> QED BY <2>2, <2>8, Zenon
<1> QED BY <1>2, Zenon

\* The partial sums of w.
LEMMA SumsOf ==
  ASSUME NEW w \in Seq(Nat)
  PROVE  /\ Sums(w) \in [0..Len(w) -> Nat] /\ Sums(w)[0] = 0
         /\ \A i \in 1..Len(w) : Sums(w)[i] = Sums(w)[i - 1] + w[i]
<1> DEFINE f == Sums(w)
<1>1. Summed(f, w)
  <2>1. f = CHOOSE sum : Summed(sum, w) BY Zenon DEF Sums, Summed
  <2> QED BY <2>1, SummedExists, Zenon
<1>0. Len(w) \in Nat OBVIOUS
<1> HIDE DEF f
<1>2. DOMAIN f = 0..Len(w) /\ f = [i \in DOMAIN f |-> f[i]] BY <1>1, Zenon DEF Summed
<1>3. f[0] = 0 /\ \A i \in 1..Len(w) : f[i] = f[i - 1] + w[i]
  <2>1. \A i \in 0..Len(w) : f[i] = IF i = 0 THEN 0 ELSE f[i - 1] + w[i]
    BY <1>1, Zenon DEF Summed
  <2> QED BY <1>0, <2>1
<1>4. \A i \in 0..Len(w) : f[i] \in Nat
  <2> DEFINE Fails == {i \in 0..Len(w) : f[i] \notin Nat}
  <2>1. ASSUME Fails # {} PROVE FALSE
    <3>1. Fails \in SUBSET Nat BY <1>0
    <3>2. PICK n \in Fails : \A m \in Fails : n <= m BY <2>1, <3>1, Least, Zenon
    <3>3. n \in 1..Len(w) BY <1>0, <1>3, <3>2
    <3>4. n - 1 \notin Fails /\ n - 1 \in 0..Len(w) BY <1>0, <3>2, <3>3
    <3>5. f[n - 1] \in Nat /\ w[n] \in Nat BY <3>3, <3>4
    <3> QED BY <1>3, <3>2, <3>3, <3>5
  <2> QED BY <2>1, Zenon
<1>5. f \in [0..Len(w) -> Nat] BY <1>2, <1>4, Zenon
<1> QED BY <1>3, <1>5, Zenon DEF f

LEMMA TotalNat ==
  ASSUME NEW w \in Seq(Nat)
  PROVE  Total(w) \in Nat
<1>1. Len(w) \in 0..Len(w) OBVIOUS
<1> QED BY <1>1, SumsOf, Zenon DEF Total

LEMMA TotalEmpty == Total(<<>>) = 0
<1>1. <<>> \in Seq(Nat) /\ Len(<<>>) = 0 OBVIOUS
<1> QED BY <1>1, SumsOf, Zenon DEF Total

LEMMA TotalOne ==
  ASSUME NEW x \in Nat
  PROVE  Total(<<x>>) = x
<1>1. <<x>> \in Seq(Nat) /\ Len(<<x>>) = 1 /\ <<x>>[1] = x OBVIOUS
<1>2. Sums(<<x>>)[0] = 0 /\ Sums(<<x>>)[1] = Sums(<<x>>)[1 - 1] + <<x>>[1]
  <2>1. 1 \in 1..Len(<<x>>) BY <1>1
  <2> QED BY <1>1, <2>1, SumsOf, Zenon
<1>3. Total(<<x>>) = Sums(<<x>>)[1] BY <1>1, Zenon DEF Total
<1> QED BY <1>1, <1>2, <1>3

\* What follows is said of every i up to some number, and fails first at one.
LEMMA TotalConcat ==
  ASSUME NEW u \in Seq(Nat), NEW v \in Seq(Nat)
  PROVE  Total(u \o v) = Total(u) + Total(v)
<1> DEFINE f == Sums(u \o v)
           g == Sums(u)
           h == Sums(v)
<1>1. u \o v \in Seq(Nat) /\ Len(u \o v) = Len(u) + Len(v) /\ Len(u) \in Nat /\ Len(v) \in Nat
  OBVIOUS
<1>2. /\ \A i \in 1..Len(u) : (u \o v)[i] = u[i]
      /\ \A j \in 1..Len(v) : (u \o v)[Len(u) + j] = v[j]
  OBVIOUS
<1>3. /\ f \in [0..(Len(u) + Len(v)) -> Nat] /\ f[0] = 0
      /\ \A i \in 1..(Len(u) + Len(v)) : f[i] = f[i - 1] + (u \o v)[i]
  BY <1>1, SumsOf, Zenon
<1>4. g \in [0..Len(u) -> Nat] /\ g[0] = 0 /\ \A i \in 1..Len(u) : g[i] = g[i - 1] + u[i]
  BY SumsOf, Zenon
<1>5. h \in [0..Len(v) -> Nat] /\ h[0] = 0 /\ \A i \in 1..Len(v) : h[i] = h[i - 1] + v[i]
  BY SumsOf, Zenon
<1> HIDE DEF f, g, h
<1>6. \A i \in 0..Len(u) : f[i] = g[i]
  <2> DEFINE Fails == {i \in 0..Len(u) : f[i] # g[i]}
  <2>1. ASSUME Fails # {} PROVE FALSE
    <3>1. Fails \in SUBSET Nat BY <1>1
    <3>2. PICK n \in Fails : \A m \in Fails : n <= m BY <2>1, <3>1, Least, Zenon
    <3>3. n \in 1..Len(u) BY <1>1, <1>3, <1>4, <3>2
    <3>4. n - 1 \notin Fails /\ n - 1 \in 0..Len(u) BY <1>1, <3>2, <3>3
    <3> QED BY <1>1, <1>2, <1>3, <1>4, <3>2, <3>3, <3>4
  <2> QED BY <2>1, Zenon
<1>7. \A j \in 0..Len(v) : f[Len(u) + j] = g[Len(u)] + h[j]
  <2> DEFINE Fails == {j \in 0..Len(v) : f[Len(u) + j] # g[Len(u)] + h[j]}
  <2>1. ASSUME Fails # {} PROVE FALSE
    <3>1. Fails \in SUBSET Nat BY <1>1
    <3>2. PICK n \in Fails : \A m \in Fails : n <= m BY <2>1, <3>1, Least, Zenon
    <3>3. n \in 1..Len(v)
      <4>1. Len(u) \in 0..Len(u) BY <1>1
      <4>2. f[Len(u)] = g[Len(u)] /\ g[Len(u)] \in Nat BY <1>4, <1>6, <4>1, Zenon
      <4>3. f[Len(u) + 0] = g[Len(u)] + h[0] BY <1>1, <1>5, <4>2
      <4>4. n # 0 /\ n \in 0..Len(v) BY <3>2, <4>3, Zenon
      <4> QED BY <1>1, <4>4
    <3>4. n - 1 \notin Fails /\ n - 1 \in 0..Len(v) BY <1>1, <3>2, <3>3
    <3>5. f[Len(u) + (n - 1)] = g[Len(u)] + h[n - 1] BY <3>4, Zenon
    <3>6. f[Len(u) + n] = f[Len(u) + (n - 1)] + v[n] 
      <4>1. Len(u) + n \in 1..(Len(u) + Len(v)) /\ (Len(u) + n) - 1 = Len(u) + (n - 1) BY <1>1, <3>3
      <4>2. f[Len(u) + n] = f[(Len(u) + n) - 1] + (u \o v)[Len(u) + n] BY <1>3, <4>1, Zenon
      <4>3. (u \o v)[Len(u) + n] = v[n] BY <1>2, <3>3, Zenon
      <4> QED BY <4>1, <4>2, <4>3, Zenon
    <3>7. h[n] = h[n - 1] + v[n] BY <1>5, <3>3, Zenon
    <3>8. g[Len(u)] \in Nat /\ h[n - 1] \in Nat /\ v[n] \in Nat
      <4>1. Len(u) \in 0..Len(u) BY <1>1
      <4>2. v[n] \in Nat BY <3>3
      <4> QED BY <1>4, <1>5, <3>4, <4>1, <4>2, Zenon
    <3> QED BY <3>2, <3>5, <3>6, <3>7, <3>8
  <2> QED BY <2>1, Zenon
<1>8. f[Len(u) + Len(v)] = g[Len(u)] + h[Len(v)] BY <1>1, <1>7
<1> QED BY <1>1, <1>8, Zenon DEF f, g, h, Total

LEMMA TotalLess ==
  ASSUME NEW u \in Seq(Nat), NEW v \in Seq(Nat), Len(u) = Len(v),
         \A i \in 1..Len(u) : u[i] <= v[i]
  PROVE  Total(u) <= Total(v)
<1> DEFINE g == Sums(u)
           h == Sums(v)
<1>1. Len(u) \in Nat OBVIOUS
<1>4. g \in [0..Len(u) -> Nat] /\ g[0] = 0 /\ \A i \in 1..Len(u) : g[i] = g[i - 1] + u[i]
  BY SumsOf, Zenon
<1>5. h \in [0..Len(u) -> Nat] /\ h[0] = 0 /\ \A i \in 1..Len(u) : h[i] = h[i - 1] + v[i]
  BY SumsOf, Zenon
<1> HIDE DEF g, h
<1>6. \A i \in 0..Len(u) : g[i] <= h[i]
  <2> DEFINE Fails == {i \in 0..Len(u) : ~(g[i] <= h[i])}
  <2>1. ASSUME Fails # {} PROVE FALSE
    <3>1. Fails \in SUBSET Nat BY <1>1
    <3>2. PICK n \in Fails : \A m \in Fails : n <= m BY <2>1, <3>1, Least, Zenon
    <3>3. n \in 1..Len(u) BY <1>1, <1>4, <1>5, <3>2
    <3>4. n - 1 \notin Fails /\ n - 1 \in 0..Len(u) BY <1>1, <3>2, <3>3
    <3>5. g[n - 1] \in Nat /\ h[n - 1] \in Nat /\ g[n - 1] <= h[n - 1] BY <1>4, <1>5, <3>4, Zenon
    <3>6. u[n] \in Nat /\ v[n] \in Nat /\ u[n] <= v[n] BY <1>1, <3>3
    <3>7. g[n] = g[n - 1] + u[n] /\ h[n] = h[n - 1] + v[n] BY <1>4, <1>5, <3>3, Zenon
    <3> QED BY <3>2, <3>5, <3>6, <3>7
  <2> QED BY <2>1, Zenon
<1>7. g[Len(u)] <= h[Len(u)] BY <1>1, <1>6
<1> QED BY <1>7, Zenon DEF g, h, Total

(* The bytes of a sequence of files or of chunks *)

Sizes(items) == [i \in 1..Len(items) |-> items[i].size]

LEMMA SizesSeq ==
  ASSUME NEW I, \A x \in I : x.size \in Nat, NEW s \in Seq(I)
  PROVE  Sizes(s) \in Seq(Nat) /\ Len(Sizes(s)) = Len(s) /\ Bytes(s) = Total(Sizes(s))
<1>1. Len(s) \in Nat /\ \A i \in 1..Len(s) : s[i] \in I OBVIOUS
<1>2. Sizes(s) \in [1..Len(s) -> Nat] BY <1>1, Zenon DEF Sizes
<1>3. Sizes(s) \in Seq(Nat) /\ Len(Sizes(s)) = Len(s) BY <1>1, <1>2
<1>4. Bytes(s) = Total(Sizes(s)) BY Zenon DEF Bytes, Sizes
<1> QED BY <1>3, <1>4, Zenon

LEMMA BytesNat ==
  ASSUME NEW I, \A x \in I : x.size \in Nat, NEW s \in Seq(I)
  PROVE  Bytes(s) \in Nat
BY SizesSeq, TotalNat, Zenon

LEMMA BytesEmpty == Bytes(<<>>) = 0
<1>1. Sizes(<<>>) = <<>> BY DEF Sizes
<1> QED BY <1>1, TotalEmpty, Zenon DEF Bytes, Sizes

LEMMA BytesConcat ==
  ASSUME NEW I, \A x \in I : x.size \in Nat, NEW s \in Seq(I), NEW t \in Seq(I)
  PROVE  Bytes(s \o t) = Bytes(s) + Bytes(t)
<1>1. /\ s \o t \in Seq(I) /\ Len(s \o t) = Len(s) + Len(t) /\ Len(s) \in Nat /\ Len(t) \in Nat
      /\ \A i \in 1..Len(s) : (s \o t)[i] = s[i]
      /\ \A i \in (Len(s) + 1)..(Len(s) + Len(t)) : (s \o t)[i] = t[i - Len(s)]
  OBVIOUS
<1>2. /\ Sizes(s) \in Seq(Nat) /\ Len(Sizes(s)) = Len(s) /\ Bytes(s) = Total(Sizes(s))
      /\ Sizes(t) \in Seq(Nat) /\ Len(Sizes(t)) = Len(t) /\ Bytes(t) = Total(Sizes(t))
      /\ Bytes(s \o t) = Total(Sizes(s \o t))
  BY <1>1, SizesSeq, Zenon
<1>3. Sizes(s \o t) = Sizes(s) \o Sizes(t)
  <2> DEFINE n == Len(s) + Len(t)
             u == Sizes(s) \o Sizes(t)
             v == Sizes(s \o t)
  <2>1. /\ u \in Seq(Nat) /\ Len(u) = n
        /\ \A i \in 1..n : u[i] = IF i <= Len(s) THEN Sizes(s)[i] ELSE Sizes(t)[i - Len(s)]
    <3> DEFINE a == Sizes(s)
               b == Sizes(t)
    <3>1. a \in Seq(Nat) /\ b \in Seq(Nat) /\ Len(a) = Len(s) /\ Len(b) = Len(t) BY <1>2, Zenon
    <3> HIDE DEF a, b
    <3>2. /\ a \o b \in Seq(Nat) /\ Len(a \o b) = Len(a) + Len(b)
          /\ \A i \in 1..(Len(a) + Len(b)) : (a \o b)[i] = IF i <= Len(a) THEN a[i] ELSE b[i - Len(a)]
      BY <3>1, ConcatProperties, Zenon
    <3> QED BY <3>1, <3>2, Zenon DEF a, b
  <2>2. v \in Seq(Nat) /\ Len(v) = n BY <1>1, SizesSeq, Zenon
  <2>3. \A i \in 1..n : v[i] = (s \o t)[i].size BY <1>1, Zenon DEF Sizes
  <2>4. \A i \in 1..n : u[i] = v[i]
    <3>1. ASSUME NEW i \in 1..n PROVE u[i] = v[i]
      <4>1. CASE i <= Len(s)
        <5>1. i \in 1..Len(s) BY <1>1, <4>1
        <5>2. u[i] = s[i].size BY <2>1, <4>1, <5>1, Zenon DEF Sizes
        <5> QED BY <1>1, <2>3, <5>1, <5>2, Zenon
      <4>2. CASE ~(i <= Len(s))
        <5>1. i \in (Len(s) + 1)..(Len(s) + Len(t)) /\ i - Len(s) \in 1..Len(t) BY <1>1, <4>2
        <5>2. u[i] = t[i - Len(s)].size BY <2>1, <4>2, <5>1, Zenon DEF Sizes
        <5> QED BY <1>1, <2>3, <5>1, <5>2, Zenon
      <4> QED BY <4>1, <4>2, Zenon
    <3> QED BY <3>1, Zenon
  <2> HIDE DEF u, v
  <2>5. Len(u) = Len(v) /\ \A i \in 1..Len(u) : u[i] = v[i] BY <2>1, <2>2, <2>4, Zenon
  <2>6. u = v BY <2>1, <2>2, <2>5, SeqEqual, Zenon
  <2> QED BY <2>6, Zenon DEF u, v
<1> QED BY <1>2, <1>3, TotalConcat, Zenon

LEMMA BytesOne ==
  ASSUME NEW x, x.size \in Nat
  PROVE  Bytes(<<x>>) = x.size
<1>1. Sizes(<<x>>) = <<x.size>> BY DEF Sizes
<1> QED BY <1>1, TotalOne, Zenon DEF Bytes, Sizes

LEMMA BytesAppend ==
  ASSUME NEW I, \A x \in I : x.size \in Nat, NEW s \in Seq(I), NEW x \in I
  PROVE  Bytes(Append(s, x)) = Bytes(s) + x.size
<1>1. <<x>> \in Seq(I) /\ Append(s, x) = s \o <<x>> OBVIOUS
<1> QED BY <1>1, BytesConcat, BytesOne, Zenon

LEMMA BytesSplit ==
  ASSUME NEW I, \A x \in I : x.size \in Nat, NEW s \in Seq(I), NEW k \in 0..Len(s)
  PROVE  /\ SubSeq(s, 1, k) \in Seq(I) /\ SubSeq(s, k + 1, Len(s)) \in Seq(I)
         /\ Bytes(s) = Bytes(SubSeq(s, 1, k)) + Bytes(SubSeq(s, k + 1, Len(s)))
<1> DEFINE a == SubSeq(s, 1, k)
           b == SubSeq(s, k + 1, Len(s))
<1>0. Len(s) \in Nat /\ k \in Nat /\ k <= Len(s) OBVIOUS
<1>1. a \in Seq(I) /\ Len(a) = k /\ \A i \in 1..k : a[i] = s[i] BY <1>0
<1>2. b \in Seq(I) /\ Len(b) = Len(s) - k /\ \A i \in 1..(Len(s) - k) : b[i] = s[k + i] BY <1>0
<1>3. s = a \o b
  <2>1. 1 \in 1..(Len(s) + 1) /\ k \in (1 - 1)..Len(s) /\ Len(s) \in k..Len(s) BY <1>0
  <2>2. a \o b = SubSeq(s, 1, Len(s)) BY <2>1, ConcatAdjacentSubSeq, Zenon
  <2> QED BY <2>2, SubSeqFull, Zenon
<1> HIDE DEF a, b
<1> QED BY <1>1, <1>2, <1>3, BytesConcat, Zenon DEF a, b

LEMMA BytesRemoveAt ==
  ASSUME NEW I, \A x \in I : x.size \in Nat, NEW s \in Seq(I), NEW i \in 1..Len(s)
  PROVE  RemoveAt(s, i) \in Seq(I) /\ Bytes(s) = Bytes(RemoveAt(s, i)) + s[i].size
<1> DEFINE a == SubSeq(s, 1, i - 1)
           b == SubSeq(s, i, Len(s))
           c == SubSeq(s, i + 1, Len(s))
<1>0. i - 1 \in 0..Len(s) /\ (i - 1) + 1 = i /\ i \in Nat /\ Len(s) \in Nat /\ s[i] \in I OBVIOUS
<1>1. a \in Seq(I) /\ b \in Seq(I) /\ Bytes(s) = Bytes(a) + Bytes(b)
  BY <1>0, BytesSplit, Zenon
<1>2. c \in Seq(I) /\ b = <<s[i]>> \o c
  BY <1>0
<1>3. <<s[i]>> \in Seq(I) BY <1>0
<1>4. RemoveAt(s, i) = a \o c BY Zenon DEF RemoveAt
<1> HIDE DEF a, b, c
<1>5. a \o c \in Seq(I) BY <1>1, <1>2
<1>6. Bytes(b) = s[i].size + Bytes(c) BY <1>0, <1>2, <1>3, BytesConcat, BytesOne, Zenon
<1>7. Bytes(a \o c) = Bytes(a) + Bytes(c) BY <1>1, <1>2, BytesConcat, Zenon
<1>8. Bytes(a) \in Nat /\ Bytes(c) \in Nat /\ s[i].size \in Nat BY <1>0, <1>1, <1>2, BytesNat, Zenon
<1>9. Bytes(s) = Bytes(a \o c) + s[i].size BY <1>1, <1>6, <1>7, <1>8
<1> QED BY <1>4, <1>5, <1>9, Zenon

LEMMA BytesLess ==
  ASSUME NEW I, \A x \in I : x.size \in Nat, NEW s \in Seq(I), NEW t \in Seq(I), Len(s) = Len(t),
         \A i \in 1..Len(s) : s[i].size <= t[i].size
  PROVE  Bytes(s) <= Bytes(t)
<1>1. /\ Sizes(s) \in Seq(Nat) /\ Len(Sizes(s)) = Len(s) /\ Bytes(s) = Total(Sizes(s))
      /\ Sizes(t) \in Seq(Nat) /\ Len(Sizes(t)) = Len(t) /\ Bytes(t) = Total(Sizes(t))
  BY SizesSeq, Zenon
<1>2. \A i \in 1..Len(s) : Sizes(s)[i] <= Sizes(t)[i] BY Zenon DEF Sizes
<1> QED BY <1>1, <1>2, TotalLess, Zenon

-----------------------------------------------------------------------------
(* The inductive invariant *)

FileType == [id : Chunks, temp : BOOLEAN, whole : BOOLEAN, size : Nat]
ChunkType == [id : Chunks \cup {None}, whole : BOOLEAN, size : Nat]
Pcs == {"idle", "Get", "GetRange", "touch", "touchPut", "putMemory", "write", "evict"}
Answers == {None, "whole", "broken", "miss", "error", "ok"}

\* A Put has the mutex to itself, and only a chunk is put.
Locked(p) ==
  /\ pc[p] \in {"write", "evict"} <=> mu = p
  /\ pc[p] # "idle" => arg[p].id \in Chunks

\* A Put that writes can still take back what it has done to the directory,
\* and one that evicts owes the limit.
Writing(p) ==
  /\ pc[p] = "write" => disk # <<>> /\ (settled => Bytes(Front(disk)) <= MaxSize)
  /\ pc[p] = "evict" => ~settled

AllWhole(items) == \A i \in 1..Len(items) : items[i].whole
Distinct(items) == \A i, j \in 1..Len(items) : items[i].id = items[j].id => i = j

\* Without a power failure what is cached is whole, and so is what is on its
\* way into the cache.
CallersFine ==
  /\ mu \in Callers \cup {Nobody} /\ torn \in BOOLEAN
  /\ pc \in [Callers -> Pcs] /\ arg \in [Callers -> ChunkType] /\ ret \in [Callers -> Answers]
  /\ ~torn => \A p \in Callers : arg[p].whole
  /\ HitsAreWhole
  /\ \A p \in Callers : Locked(p)

MemoryFine ==
  /\ memory \in Seq(ChunkType) /\ memoryBytes \in Nat
  /\ MemoryConsistent
  /\ ~torn => AllWhole(memory)

DiskFine ==
  /\ disk \in Seq(FileType) /\ settled \in BOOLEAN
  /\ DiskBounded
  /\ ~torn => AllWhole(disk)

Inv == CallersFine /\ MemoryFine /\ DiskFine /\ \A p \in Callers : Writing(p)

(* What the operations on lists keep *)

LEMMA RemoveAtItems ==
  ASSUME NEW I, NEW s \in Seq(I), NEW i \in 1..Len(s)
  PROVE  /\ RemoveAt(s, i) \in Seq(I) /\ Len(RemoveAt(s, i)) = Len(s) - 1
         /\ \A j \in 1..(Len(s) - 1) : RemoveAt(s, i)[j] = s[IF j < i THEN j ELSE j + 1]
<1> DEFINE a == SubSeq(s, 1, i - 1)
           c == SubSeq(s, i + 1, Len(s))
<1>0. Len(s) \in Nat /\ i \in Nat /\ 1 <= i /\ i <= Len(s) OBVIOUS
<1>1. a \in Seq(I) /\ Len(a) = i - 1 /\ \A j \in 1..(i - 1) : a[j] = s[j] BY <1>0
<1>2. c \in Seq(I) /\ Len(c) = Len(s) - i /\ \A j \in 1..(Len(s) - i) : c[j] = s[i + j] BY <1>0
<1>3. RemoveAt(s, i) = a \o c BY Zenon DEF RemoveAt
<1> HIDE DEF a, c
<1>4. /\ a \o c \in Seq(I) /\ Len(a \o c) = Len(a) + Len(c)
      /\ \A j \in 1..(Len(a) + Len(c)) : (a \o c)[j] = IF j <= Len(a) THEN a[j] ELSE c[j - Len(a)]
  BY <1>1, <1>2, ConcatProperties, Zenon
<1>5. Len(a) + Len(c) = Len(s) - 1 BY <1>0, <1>1, <1>2
<1>6. ASSUME NEW j \in 1..(Len(s) - 1) PROVE (a \o c)[j] = s[IF j < i THEN j ELSE j + 1]
  <2>1. CASE j < i
    <3>1. j <= Len(a) /\ j \in 1..(i - 1) BY <1>0, <1>1, <2>1
    <3> QED BY <1>1, <1>4, <1>5, <2>1, <3>1, Zenon
  <2>2. CASE ~(j < i)
    <3>1. ~(j <= Len(a)) /\ j - Len(a) \in 1..(Len(s) - i) /\ i + (j - Len(a)) = j + 1
      BY <1>0, <1>1, <2>2
    <3> QED BY <1>2, <1>4, <1>5, <2>2, <3>1, Zenon
  <2> QED BY <2>1, <2>2, Zenon
<1> QED BY <1>3, <1>4, <1>5, <1>6, Zenon

LEMMA RemoveAtKeeps ==
  ASSUME NEW I, NEW s \in Seq(I), NEW i \in 1..Len(s)
  PROVE  /\ AllWhole(s) => AllWhole(RemoveAt(s, i))
         /\ Distinct(s) => /\ Distinct(RemoveAt(s, i))
                           /\ \A j \in 1..Len(RemoveAt(s, i)) : RemoveAt(s, i)[j].id # s[i].id
<1> DEFINE r == RemoveAt(s, i)
           At1(j) == IF j < i THEN j ELSE j + 1
<1>0. Len(s) \in Nat /\ i \in Nat OBVIOUS
<1>1. Len(r) = Len(s) - 1 /\ \A j \in 1..(Len(s) - 1) : r[j] = s[At1(j)] BY RemoveAtItems, Zenon
<1> HIDE DEF r
<1>2. \A j \in 1..(Len(s) - 1) : At1(j) \in 1..Len(s) /\ At1(j) # i BY <1>0
<1>3. \A j, k \in 1..(Len(s) - 1) : At1(j) = At1(k) => j = k BY <1>0
<1> HIDE DEF At1
<1>4. AllWhole(s) => AllWhole(r) BY <1>1, <1>2, Zenon DEF AllWhole
<1>5. Distinct(s) => Distinct(r) /\ \A j \in 1..Len(r) : r[j].id # s[i].id
  <2> SUFFICES ASSUME Distinct(s) PROVE Distinct(r) /\ \A j \in 1..Len(r) : r[j].id # s[i].id
    BY Zenon
  <2>1. \A j \in 1..Len(r) : r[j].id # s[i].id BY <1>1, <1>2, Zenon DEF Distinct
  <2>2. ASSUME NEW j \in 1..Len(r), NEW k \in 1..Len(r), r[j].id = r[k].id PROVE j = k
    <3>1. j \in 1..(Len(s) - 1) /\ k \in 1..(Len(s) - 1) BY <1>1, Zenon
    <3>2. s[At1(j)].id = s[At1(k)].id BY <1>1, <2>2, <3>1, Zenon
    <3>3. At1(j) = At1(k) BY <1>2, <3>1, <3>2, Zenon DEF Distinct
    <3> QED BY <1>3, <3>1, <3>3, Zenon
  <2> QED BY <2>1, <2>2, Zenon DEF Distinct
<1> QED BY <1>4, <1>5, Zenon DEF r

LEMMA AppendKeeps ==
  ASSUME NEW I, NEW s \in Seq(I), NEW x \in I
  PROVE  /\ Append(s, x) \in Seq(I)
         /\ AllWhole(s) /\ x.whole => AllWhole(Append(s, x))
         /\ Distinct(s) /\ (\A j \in 1..Len(s) : s[j].id # x.id) => Distinct(Append(s, x))
<1> DEFINE r == Append(s, x)
<1>0. Len(s) \in Nat OBVIOUS
<1>1. /\ r \in Seq(I) /\ Len(r) = Len(s) + 1 /\ r[Len(s) + 1] = x
      /\ \A j \in 1..Len(s) : r[j] = s[j]
  OBVIOUS
<1>2. \A j \in 1..(Len(s) + 1) : j \in 1..Len(s) \/ j = Len(s) + 1 BY <1>0
<1> HIDE DEF r
<1>3. AllWhole(s) /\ x.whole => AllWhole(r) BY <1>1, <1>2, Zenon DEF AllWhole
<1>4. Distinct(s) /\ (\A j \in 1..Len(s) : s[j].id # x.id) => Distinct(r)
  BY <1>1, <1>2, Zenon DEF Distinct
<1> QED BY <1>1, <1>3, <1>4, Zenon DEF r

\* A stretch of a sequence.
LEMMA StretchKeeps ==
  ASSUME NEW I, NEW s \in Seq(I), NEW k \in 0..Len(s), NEW m \in 0..Len(s)
  PROVE  /\ SubSeq(s, k + 1, m) \in Seq(I)
         /\ AllWhole(s) => AllWhole(SubSeq(s, k + 1, m))
         /\ Distinct(s) => Distinct(SubSeq(s, k + 1, m))
<1> DEFINE r == SubSeq(s, k + 1, m)
<1>0. Len(s) \in Nat /\ k \in Nat /\ m \in Nat OBVIOUS
<1>1. r \in Seq(I) /\ Len(r) \in Nat /\ \A j \in 1..Len(r) : j + k \in 1..Len(s) /\ r[j] = s[j + k]
  BY <1>0
<1> HIDE DEF r
<1>2. \A i, j \in 1..Len(r) : i + k = j + k => i = j BY <1>0, <1>1
<1>3. AllWhole(s) => AllWhole(r) BY <1>1, Zenon DEF AllWhole
<1>4. Distinct(s) => Distinct(r) BY <1>1, <1>2, Zenon DEF Distinct
<1> QED BY <1>1, <1>3, <1>4, Zenon DEF r

LEMMA ToBackKeeps ==
  ASSUME NEW I, \A x \in I : x.size \in Nat, NEW s \in Seq(I), NEW i \in 1..Len(s)
  PROVE  /\ ToBack(s, i) \in Seq(I) /\ Bytes(ToBack(s, i)) = Bytes(s)
         /\ AllWhole(s) => AllWhole(ToBack(s, i))
         /\ Distinct(s) => Distinct(ToBack(s, i))
<1>1. s[i] \in I OBVIOUS
<1>2. RemoveAt(s, i) \in Seq(I) /\ Bytes(s) = Bytes(RemoveAt(s, i)) + s[i].size
  BY BytesRemoveAt, Zenon
<1>3. AllWhole(s) => s[i].whole BY Zenon DEF AllWhole
<1>4. Bytes(Append(RemoveAt(s, i), s[i])) = Bytes(RemoveAt(s, i)) + s[i].size
  BY <1>1, <1>2, BytesAppend, Zenon
<1> QED BY <1>1, <1>2, <1>3, <1>4, RemoveAtKeeps, AppendKeeps, Zenon DEF ToBack

LEMMA TypesSized == (\A x \in FileType : x.size \in Nat) /\ (\A x \in ChunkType : x.size \in Nat)
BY Zenon DEF FileType, ChunkType

\* The list after an eviction.
LEMMA EvictMemory ==
  ASSUME NEW items \in Seq(ChunkType), Distinct(items), ~torn => AllWhole(items), torn' = torn,
         evictMemoryLocked(items, Bytes(items))
  PROVE  MemoryFine'
<1> DEFINE n == Bytes(items)
<1>1. PICK k \in 0..Len(items) :
        /\ n - Bytes(SubSeq(items, 1, k)) <= MemoryMax \/ k = Len(items)
        /\ memory' = SubSeq(items, k + 1, Len(items))
        /\ memoryBytes' = n - Bytes(SubSeq(items, 1, k))
  BY Zenon DEF evictMemoryLocked
<1>2. /\ SubSeq(items, 1, k) \in Seq(ChunkType) /\ SubSeq(items, k + 1, Len(items)) \in Seq(ChunkType)
      /\ n = Bytes(SubSeq(items, 1, k)) + Bytes(SubSeq(items, k + 1, Len(items)))
  BY TypesSized, BytesSplit, Zenon
<1>3. /\ Bytes(SubSeq(items, 1, k)) \in Nat /\ Bytes(SubSeq(items, k + 1, Len(items))) \in Nat
  BY <1>2, TypesSized, BytesNat, Zenon
<1>4. memoryBytes' = Bytes(memory)' /\ memoryBytes' \in Nat
  <2>1. n - Bytes(SubSeq(items, 1, k)) = Bytes(SubSeq(items, k + 1, Len(items))) BY <1>2, <1>3
  <2>2. Bytes(memory)' = Bytes(SubSeq(items, k + 1, Len(items))) BY <1>1, Zenon DEF Bytes
  <2> QED BY <1>1, <1>3, <2>1, <2>2, Zenon
<1>5. memoryBytes' <= MemoryMax
  <2>1. CASE k = Len(items)
    <3>1. SubSeq(items, k + 1, Len(items)) = <<>> BY <2>1
    <3>2. memoryBytes' = 0 BY <1>1, <1>4, <3>1, BytesEmpty, Zenon DEF Bytes
    <3> QED BY <3>2, CacheAssumption
  <2> QED BY <1>1, <2>1, Zenon
<1>6. Len(items) \in 0..Len(items) OBVIOUS
<1>7. Distinct(memory)' /\ (~torn => AllWhole(memory)')
  <2>1. Distinct(SubSeq(items, k + 1, Len(items))) /\ (~torn => AllWhole(SubSeq(items, k + 1, Len(items))))
    BY <1>6, StretchKeeps, Zenon
  <2> QED BY <1>1, <2>1, Zenon DEF Distinct, AllWhole
<1>8. MemoryConsistent' BY <1>4, <1>5, <1>7, Zenon DEF MemoryConsistent, Distinct
<1> QED BY <1>1, <1>2, <1>4, <1>7, <1>8, Zenon DEF MemoryFine

\* putMemoryLocked keeps the list in order, whatever it holds already.
LEMMA PutMemory ==
  ASSUME MemoryFine, NEW chunk \in ChunkType, ~torn => chunk.whole, torn' = torn,
         putMemoryLocked(chunk)
  PROVE  MemoryFine'
<1>0. /\ memory \in Seq(ChunkType) /\ memoryBytes \in Nat /\ (~torn => AllWhole(memory))
      /\ memoryBytes = Bytes(memory) /\ Distinct(memory) /\ chunk.size \in Nat
  BY TypesSized, Zenon DEF MemoryFine, MemoryConsistent, Distinct
<1>1. CASE UNCHANGED <<memory, memoryBytes>>
  BY <1>1, Zenon DEF MemoryFine, MemoryConsistent, AllWhole, Bytes
<1>2. CASE /\ Listed(chunk.id) = {}
           /\ evictMemoryLocked(Append(memory, chunk), memoryBytes + chunk.size)
  <2>1. \A j \in 1..Len(memory) : memory[j].id # chunk.id BY <1>2, Zenon DEF Listed
  <2>2. /\ Append(memory, chunk) \in Seq(ChunkType) /\ Distinct(Append(memory, chunk))
        /\ ~torn => AllWhole(Append(memory, chunk))
    BY <1>0, <2>1, AppendKeeps, Zenon
  <2>3. Bytes(Append(memory, chunk)) = memoryBytes + chunk.size
    BY <1>0, TypesSized, BytesAppend, Zenon
  <2>4. evictMemoryLocked(Append(memory, chunk), Bytes(Append(memory, chunk))) BY <1>2, <2>3, Zenon
  <2> QED BY <2>2, <2>4, EvictMemory, Zenon
<1>3. ASSUME NEW i \in Listed(chunk.id),
             evictMemoryLocked(Append(RemoveAt(memory, i), chunk),
                               memoryBytes - memory[i].size + chunk.size)
      PROVE  MemoryFine'
  <2> DEFINE rest == RemoveAt(memory, i)
  <2>1. i \in 1..Len(memory) /\ memory[i].id = chunk.id BY Zenon DEF Listed
  <2>2. memory[i] \in ChunkType BY <1>0, <2>1
  <2>3. memory[i].size \in Nat BY <2>2, TypesSized, Zenon
  <2>4. rest \in Seq(ChunkType) /\ Bytes(memory) = Bytes(rest) + memory[i].size
    BY <1>0, <2>1, TypesSized, BytesRemoveAt, Zenon
  <2>5. Distinct(rest) /\ (\A j \in 1..Len(rest) : rest[j].id # chunk.id) /\ (~torn => AllWhole(rest))
    BY <1>0, <2>1, RemoveAtKeeps, Zenon
  <2>6. Bytes(rest) \in Nat BY <2>4, TypesSized, BytesNat, Zenon
  <2> HIDE DEF rest
  <2>7. /\ Append(rest, chunk) \in Seq(ChunkType) /\ Distinct(Append(rest, chunk))
        /\ ~torn => AllWhole(Append(rest, chunk))
    BY <2>4, <2>5, AppendKeeps, Zenon
  <2>8. Bytes(Append(rest, chunk)) = Bytes(rest) + chunk.size
    BY <2>4, TypesSized, BytesAppend, Zenon
  <2>9. memoryBytes - memory[i].size + chunk.size = Bytes(rest) + chunk.size
    BY <1>0, <2>3, <2>4, <2>6
  <2>10. evictMemoryLocked(Append(rest, chunk), Bytes(Append(rest, chunk)))
    BY <1>3, <2>8, <2>9, Zenon DEF rest
  <2> QED BY <2>7, <2>10, EvictMemory, Zenon
<1> QED BY <1>1, <1>2, <1>3, Zenon DEF putMemoryLocked

LEMMA FrontKeeps ==
  ASSUME NEW I, \A x \in I : x.size \in Nat, NEW s \in Seq(I), s # <<>>
  PROVE  /\ Front(s) \in Seq(I) /\ Bytes(Front(s)) <= Bytes(s)
         /\ AllWhole(s) => AllWhole(Front(s))
<1>1. Len(s) \in Nat /\ Len(s) >= 1 OBVIOUS
<1>2. 0 \in 0..Len(s) /\ Len(s) - 1 \in 0..Len(s) /\ 0 + 1 = 1 BY <1>1
<1>3. Front(s) = SubSeq(s, 0 + 1, Len(s) - 1) BY <1>2, Zenon DEF Front
<1>4. Front(s) \in Seq(I) /\ (AllWhole(s) => AllWhole(Front(s)))
  BY <1>2, <1>3, StretchKeeps, Zenon
<1> DEFINE t == SubSeq(s, (Len(s) - 1) + 1, Len(s))
<1>5. t \in Seq(I) /\ Bytes(s) = Bytes(Front(s)) + Bytes(t)
  BY <1>2, BytesSplit, Zenon DEF Front
<1>6. Bytes(t) \in Nat /\ Bytes(Front(s)) \in Nat BY <1>4, <1>5, BytesNat, Zenon
<1> HIDE DEF t
<1>7. Bytes(Front(s)) <= Bytes(s) BY <1>5, <1>6
<1> QED BY <1>4, <1>7, Zenon

LEMMA TailKeeps ==
  ASSUME NEW I, NEW s \in Seq(I), s # <<>>
  PROVE  Tail(s) \in Seq(I) /\ (AllWhole(s) => AllWhole(Tail(s)))
<1>1. Len(s) \in Nat /\ Len(s) >= 1 OBVIOUS
<1>2. 1 \in 0..Len(s) /\ Len(s) \in 0..Len(s) BY <1>1
<1>3. Tail(s) = SubSeq(s, 1 + 1, Len(s)) BY <1>1
<1> QED BY <1>2, <1>3, StretchKeeps, Zenon

LEMMA WithoutKeeps ==
  ASSUME NEW files \in Seq(FileType), NEW c
  PROVE  Without(files, c) \in Seq(FileType) /\ (AllWhole(files) => AllWhole(Without(files, c)))
<1>1. CASE Files(files, c) = {} BY <1>1, Zenon DEF Without
<1>2. CASE Files(files, c) # {}
  <2> DEFINE i == CHOOSE i \in Files(files, c) : TRUE
  <2>1. i \in Files(files, c) BY <1>2, Zenon
  <2>2. i \in 1..Len(files) BY <2>1, Zenon DEF Files
  <2>3. Without(files, c) = RemoveAt(files, i) BY <1>2, Zenon DEF Without
  <2> HIDE DEF i
  <2> QED BY <2>2, <2>3, RemoveAtItems, RemoveAtKeeps, Zenon
<1> QED BY <1>1, <1>2, Zenon

LEMMA ChunkFacts ==
  /\ \A c \in Chunks, n \in Nat : Chunk(c, n) \in ChunkType /\ Chunk(c, n).whole /\ Chunk(c, n).id = c
  /\ Nothing \in ChunkType /\ Nothing.whole
BY Zenon DEF Chunk, Nothing, ChunkType

LEMMA FileFacts ==
  ASSUME NEW c \in Chunks
  PROVE  /\ File(c) \in FileType /\ File(c).whole
         /\ \A n \in Nat : Temp(c, n) \in FileType /\ Temp(c, n).whole
BY CacheAssumption, Zenon DEF File, Temp, FileType

-----------------------------------------------------------------------------
(* One lemma per action *)

Busy == {"write", "evict"}

\* A step of one caller leaves the others where they are.
LEMMA CallerSteps ==
  ASSUME CallersFine, NEW p \in Callers, NEW to \in Pcs, NEW a \in ChunkType, NEW r \in Answers,
         pc' = [pc EXCEPT ![p] = to], arg' = [arg EXCEPT ![p] = a], ret' = [ret EXCEPT ![p] = r],
         torn' = torn, ~torn => a.whole, r = "broken" => torn,
         to # "idle" => a.id \in Chunks,
         to \in Busy <=> mu' = p, mu' \in {mu, p, Nobody}, mu' # mu => mu \in {p, Nobody}
  PROVE  CallersFine' /\ pc'[p] = to /\ \A q \in Callers : q # p => pc'[q] = pc[q]
<1>1. /\ ~torn => \A q \in Callers : arg[q].whole
      /\ HitsAreWhole
      /\ \A q \in Callers : Locked(q)
  BY Zenon DEF CallersFine
<1>2. /\ mu \in Callers \cup {Nobody} /\ torn \in BOOLEAN
      /\ pc \in [Callers -> Pcs] /\ arg \in [Callers -> ChunkType] /\ ret \in [Callers -> Answers]
  BY Zenon DEF CallersFine
<1>3. /\ pc' \in [Callers -> Pcs] /\ arg' \in [Callers -> ChunkType] /\ ret' \in [Callers -> Answers]
  BY <1>2, Zenon
<1>4. mu' \in Callers \cup {Nobody} /\ torn' \in BOOLEAN BY <1>2, Zenon
<1>5. ASSUME NEW q \in Callers, q # p
      PROVE  pc'[q] = pc[q] /\ arg'[q] = arg[q] /\ ret'[q] = ret[q] /\ (mu' = q <=> mu = q)
  <2>1. q # Nobody BY CacheAssumption, Zenon
  <2> QED BY <1>2, <1>5, <2>1, Zenon
<1>6. pc'[p] = to /\ arg'[p] = a /\ ret'[p] = r BY <1>2, Zenon
<1>7. ~torn' => \A q \in Callers : arg'[q].whole BY <1>1, <1>5, <1>6, Zenon
<1>8. HitsAreWhole' BY <1>1, <1>5, <1>6, Zenon DEF HitsAreWhole
<1>9. ASSUME NEW q \in Callers PROVE Locked(q)'
  <2>1. CASE q = p BY <1>6, <2>1, Zenon DEF Locked, Busy
  <2>2. CASE q # p BY <1>1, <1>5, <2>2, Zenon DEF Locked
  <2> QED BY <2>1, <2>2, Zenon
<1> QED BY <1>3, <1>4, <1>5, <1>6, <1>7, <1>8, <1>9, Zenon DEF CallersFine

\* Nobody else writes or evicts while the mutex is free or one's own.
LEMMA Alone ==
  ASSUME CallersFine, NEW p \in Callers, mu \in {p, Nobody}, NEW q \in Callers, q # p
  PROVE  pc[q] \notin Busy
<1>1. q # Nobody BY CacheAssumption, Zenon
<1> QED BY <1>1, Zenon DEF CallersFine, Locked, Busy

LEMMA Quiet == ASSUME CallersFine', mu' = Nobody PROVE \A q \in Callers : Writing(q)'
<1>1. \A q \in Callers : q # Nobody BY CacheAssumption, Zenon
<1> QED BY <1>1, Zenon DEF CallersFine, Locked, Writing

\* The list and the directory when a step leaves them alone.
LEMMA SameMemory ==
  ASSUME MemoryFine, UNCHANGED <<memory, memoryBytes, torn>>
  PROVE  MemoryFine'
BY Zenon DEF MemoryFine, MemoryConsistent, AllWhole, Bytes

LEMMA SameDisk ==
  ASSUME DiskFine, UNCHANGED <<disk, settled, torn, mu>>
  PROVE  DiskFine'
BY Zenon DEF DiskFine, DiskBounded, AllWhole, Bytes

\* What a caller has at hand.
LEMMA AtHand ==
  ASSUME CallersFine, NEW p \in Callers
  PROVE  /\ pc[p] \in Pcs /\ arg[p] \in ChunkType /\ ret[p] \in Answers /\ arg[p].size \in Nat
         /\ ~torn => arg[p].whole
         /\ pc[p] # "idle" => arg[p].id \in Chunks
         /\ pc[p] \in Busy <=> mu = p
         /\ ret[p] = "broken" => torn
         /\ pc = [pc EXCEPT ![p] = pc[p]] /\ arg = [arg EXCEPT ![p] = arg[p]]
         /\ ret = [ret EXCEPT ![p] = ret[p]]
<1>1. /\ pc \in [Callers -> Pcs] /\ arg \in [Callers -> ChunkType] /\ ret \in [Callers -> Answers]
  BY Zenon DEF CallersFine
<1>2. pc[p] \in Pcs /\ arg[p] \in ChunkType /\ ret[p] \in Answers BY <1>1, Zenon
<1>3. arg[p].size \in Nat BY <1>2, TypesSized, Zenon
<1>4. /\ pc = [pc EXCEPT ![p] = pc[p]] /\ arg = [arg EXCEPT ![p] = arg[p]]
      /\ ret = [ret EXCEPT ![p] = ret[p]]
  BY <1>1, Zenon
<1>5. /\ ~torn => arg[p].whole
      /\ pc[p] # "idle" => arg[p].id \in Chunks
      /\ pc[p] \in Busy <=> mu = p
      /\ ret[p] = "broken" => torn
  BY Zenon DEF CallersFine, Locked, HitsAreWhole, Busy
<1> QED BY <1>2, <1>3, <1>4, <1>5, Zenon

LEMMA StepGetMemory == ASSUME Inv, NEW p \in Callers, getMemory(p) PROVE Inv'
<1>0. CallersFine /\ MemoryFine /\ DiskFine BY Zenon DEF Inv
<1>1. PICK op \in {"Get", "GetRange"}, c \in Chunks :
        /\ pc[p] = "idle" /\ mu = Nobody
        /\ \/ \E i \in Listed(c) :
                memory' = ToBack(memory, i) /\ Return(p, Hit(memory[i])) /\ UNCHANGED <<pc, arg>>
           \/ /\ Listed(c) = {} /\ Return(p, None) /\ UNCHANGED memory
              /\ pc' = [pc EXCEPT ![p] = op] /\ arg' = [arg EXCEPT ![p] = Chunk(c, 0)]
        /\ UNCHANGED <<disk, memoryBytes, mu, settled, torn, crashes>>
  BY Zenon DEF getMemory
<1>2. DiskFine' BY <1>0, <1>1, SameDisk, Zenon
<1>3. p # Nobody BY CacheAssumption, Zenon
<1>4. CASE Listed(c) = {} /\ Return(p, None) /\ UNCHANGED memory
           /\ pc' = [pc EXCEPT ![p] = op] /\ arg' = [arg EXCEPT ![p] = Chunk(c, 0)]
  <2>1. op \in Pcs /\ op \notin Busy /\ None \in Answers /\ None # "broken" /\ 0 \in Nat
    BY Zenon DEF Pcs, Busy, Answers, None
  <2>2. Chunk(c, 0) \in ChunkType /\ Chunk(c, 0).whole /\ Chunk(c, 0).id \in Chunks
    BY <2>1, ChunkFacts, Zenon
  <2>3. CallersFine' BY <1>0, <1>1, <1>3, <1>4, <2>1, <2>2, CallerSteps, Zenon DEF Return
  <2>4. MemoryFine' BY <1>0, <1>1, <1>4, SameMemory, Zenon
  <2> QED BY <1>1, <1>2, <2>3, <2>4, Quiet, Zenon DEF Inv
<1>5. ASSUME NEW i \in Listed(c), memory' = ToBack(memory, i), Return(p, Hit(memory[i])),
             UNCHANGED <<pc, arg>>
      PROVE  Inv'
  <2>1. i \in 1..Len(memory) BY Zenon DEF Listed
  <2>2. Hit(memory[i]) \in Answers /\ (Hit(memory[i]) = "broken" => torn)
    BY <1>0, <2>1, Zenon DEF MemoryFine, AllWhole, Hit, Answers
  <2>3. CallersFine'
    <3> DEFINE to == pc[p]
               a == arg[p]
               r == Hit(memory[i])
    <3>1. pc' = [pc EXCEPT ![p] = to] /\ arg' = [arg EXCEPT ![p] = a] /\ ret' = [ret EXCEPT ![p] = r]
      BY <1>0, <1>5, AtHand, Zenon DEF Return
    <3>2. /\ to \in Pcs /\ a \in ChunkType /\ (~torn => a.whole) /\ (to # "idle" => a.id \in Chunks)
          /\ (to \in Busy <=> mu = p) /\ r \in Answers /\ (r = "broken" => torn)
      BY <1>0, <2>2, AtHand, Zenon
    <3> HIDE DEF to, a, r
    <3> QED BY <1>0, <1>1, <1>3, <3>1, <3>2, CallerSteps, Zenon
  <2>4. /\ memory \in Seq(ChunkType) /\ Distinct(memory) /\ (~torn => AllWhole(memory))
        /\ memoryBytes \in Nat /\ memoryBytes = Bytes(memory) /\ memoryBytes <= MemoryMax
    BY <1>0, Zenon DEF MemoryFine, MemoryConsistent, Distinct
  <2>5. /\ ToBack(memory, i) \in Seq(ChunkType) /\ Bytes(ToBack(memory, i)) = Bytes(memory)
        /\ Distinct(ToBack(memory, i)) /\ (~torn => AllWhole(ToBack(memory, i)))
    BY <2>1, <2>4, ToBackKeeps, TypesSized, Zenon
  <2>6. MemoryFine'
    <3>1. memoryBytes' = memoryBytes /\ torn' = torn BY <1>1, Zenon
    <3>2. Bytes(memory)' = memoryBytes' BY <1>5, <2>4, <2>5, <3>1, Zenon DEF Bytes
    <3>3. Distinct(memory)' /\ (~torn' => AllWhole(memory)')
      BY <1>5, <2>5, <3>1, Zenon DEF Distinct, AllWhole
    <3>4. MemoryConsistent' BY <2>4, <3>1, <3>2, <3>3, Zenon DEF MemoryConsistent, Distinct
    <3> QED BY <1>5, <2>4, <2>5, <3>1, <3>3, <3>4, Zenon DEF MemoryFine
  <2> QED BY <1>1, <1>2, <2>3, <2>6, Quiet, Zenon DEF Inv
<1> QED BY <1>1, <1>4, <1>5, Zenon

LEMMA StepReadFile == ASSUME Inv, NEW p \in Callers, ReadFile(p) PROVE Inv'
<1>0. CallersFine /\ MemoryFine /\ DiskFine BY Zenon DEF Inv
<1>1. UNCHANGED <<disk, memory, memoryBytes, mu, settled, torn, crashes>> /\ pc[p] \in {"Get", "GetRange"}
  BY Zenon DEF ReadFile
<1>2. DiskFine' /\ MemoryFine' BY <1>0, <1>1, SameDisk, SameMemory, Zenon
<1>3. pc[p] # "idle" /\ pc[p] \notin Busy BY <1>1, Zenon DEF Busy
<1>4. mu # p /\ arg[p] \in ChunkType /\ arg[p].id \in Chunks /\ (~torn => arg[p].whole)
  BY <1>0, <1>3, AtHand, Zenon
<1> DEFINE Reads(to, a, r) ==
             /\ pc' = [pc EXCEPT ![p] = to] /\ arg' = [arg EXCEPT ![p] = a] /\ ret' = [ret EXCEPT ![p] = r]
             /\ (~torn => a.whole) /\ (r = "broken" => torn) /\ (to # "idle" => a.id \in Chunks)
             /\ to \notin Busy
<1>5. \E to \in Pcs, a \in ChunkType, r \in Answers : Reads(to, a, r)
  <2>1. /\ "idle" \in Pcs /\ "touchPut" \in Pcs /\ "touch" \in Pcs
        /\ "idle" \notin Busy /\ "touchPut" \notin Busy /\ "touch" \notin Busy
        /\ "miss" \in Answers /\ "error" \in Answers
    BY Zenon DEF Pcs, Answers, Busy
  <2>2. CASE Done(p) /\ Return(p, "miss")
    BY <2>1, <2>2, ChunkFacts, Zenon DEF Done, Return
  <2>3. CASE Done(p) /\ Return(p, "error")
    BY <2>1, <2>3, ChunkFacts, Zenon DEF Done, Return
  <2>4. ASSUME NEW i \in Files(disk, arg[p].id), Return(p, Hit(disk[i])),
               \/ /\ At(p, "Get", "touchPut")
                  /\ arg' = [arg EXCEPT ![p] = [id |-> arg[p].id, whole |-> disk[i].whole, size |-> disk[i].size]]
               \/ At(p, "GetRange", "touch") /\ UNCHANGED arg
        PROVE  \E to \in Pcs, a \in ChunkType, r \in Answers : Reads(to, a, r)
    <3> DEFINE d == [id |-> arg[p].id, whole |-> disk[i].whole, size |-> disk[i].size]
               r == Hit(disk[i])
    <3>1. i \in 1..Len(disk) /\ disk \in Seq(FileType) BY <1>0, Zenon DEF Files, DiskFine
    <3>2. disk[i] \in FileType BY <3>1
    <3>3. ~torn => disk[i].whole BY <1>0, <3>1, Zenon DEF DiskFine, AllWhole
    <3>4. r \in Answers /\ (r = "broken" => torn) BY <3>3, Zenon DEF Hit, Answers
    <3>5. disk[i].whole \in BOOLEAN /\ disk[i].size \in Nat BY <3>2, Zenon DEF FileType
    <3>6. d \in ChunkType /\ (~torn => d.whole) /\ d.id \in Chunks
      BY <1>4, <3>3, <3>5, Zenon DEF ChunkType
    <3>7. ret' = [ret EXCEPT ![p] = r] BY <2>4, Zenon DEF Return
    <3> HIDE DEF r
    <3>8. CASE At(p, "Get", "touchPut") /\ arg' = [arg EXCEPT ![p] = d]
      <4> HIDE DEF d
      <4> QED BY <2>1, <3>4, <3>6, <3>7, <3>8, Zenon DEF At
    <3>9. CASE At(p, "GetRange", "touch") /\ UNCHANGED arg
      <4>1. arg' = [arg EXCEPT ![p] = arg[p]] BY <1>0, <3>9, AtHand, Zenon
      <4> QED BY <1>4, <2>1, <3>4, <3>7, <3>9, <4>1, Zenon DEF At
    <3> QED BY <2>4, <3>8, <3>9, Zenon
  <2> QED BY <2>2, <2>3, <2>4, Zenon DEF ReadFile
<1>6. PICK to \in Pcs, a \in ChunkType, r \in Answers : Reads(to, a, r) BY <1>5, Zenon
<1>7. CallersFine' /\ pc'[p] = to /\ \A q \in Callers : q # p => pc'[q] = pc[q]
  BY <1>0, <1>1, <1>4, <1>6, CallerSteps, Zenon
<1>8. ASSUME NEW q \in Callers PROVE Writing(q)'
  <2>1. CASE q = p BY <1>6, <1>7, <2>1, Zenon DEF Writing, Busy
  <2>2. CASE q # p
    <3>1. pc'[q] = pc[q] /\ Writing(q) BY <1>7, <2>2, Zenon DEF Inv
    <3>2. Bytes(Front(disk))' = Bytes(Front(disk)) BY <1>1, Zenon DEF Bytes, Front
    <3> QED BY <1>1, <3>1, <3>2, Zenon DEF Writing
  <2> QED BY <2>1, <2>2, Zenon
<1> QED BY <1>2, <1>7, <1>8, Zenon DEF Inv

LEMMA Labels ==
  /\ "idle" \in Pcs /\ "putMemory" \in Pcs /\ "write" \in Pcs /\ "evict" \in Pcs
  /\ "idle" \notin Busy /\ "putMemory" \notin Busy /\ "touch" \notin Busy /\ "touchPut" \notin Busy
  /\ "write" \in Busy /\ "evict" \in Busy
  /\ None \in Answers /\ "error" \in Answers /\ "ok" \in Answers /\ None # "broken"
BY Zenon DEF Pcs, Busy, Answers, None

LEMMA StepTouch == ASSUME Inv, NEW p \in Callers, touch(p) PROVE Inv'
<1>0. CallersFine /\ MemoryFine /\ DiskFine BY Zenon DEF Inv
<1>1. /\ pc[p] \in {"touch", "touchPut"} /\ mu = Nobody
      /\ UNCHANGED <<memory, memoryBytes, mu, ret, settled, torn, crashes>>
  BY Zenon DEF touch
<1>2. p # Nobody BY CacheAssumption, Zenon
<1>3. MemoryFine' BY <1>0, <1>1, SameMemory, Zenon
<1>4. CallersFine'
  <2> DEFINE r == ret[p]
             a == arg[p]
  <2>1. /\ r \in Answers /\ (r = "broken" => torn) /\ ret' = [ret EXCEPT ![p] = r]
        /\ a \in ChunkType /\ a.id \in Chunks /\ (~torn => a.whole) /\ arg = [arg EXCEPT ![p] = a]
    BY <1>0, <1>1, AtHand, Zenon
  <2> HIDE DEF r, a
  <2>2. CASE Done(p)
    BY <1>0, <1>1, <1>2, <2>1, <2>2, Labels, ChunkFacts, CallerSteps, Zenon DEF Done
  <2>3. CASE pc' = [pc EXCEPT ![p] = "putMemory"] /\ UNCHANGED arg
    <3>1. arg' = [arg EXCEPT ![p] = a] BY <2>1, <2>3, Zenon
    <3> QED BY <1>0, <1>1, <1>2, <2>1, <2>3, <3>1, Labels, CallerSteps, Zenon
  <2> QED BY <2>2, <2>3, Zenon DEF touch
<1>5. DiskFine'
  <2>1. CASE UNCHANGED disk BY <1>0, <1>1, <2>1, SameDisk, Zenon
  <2>2. ASSUME NEW i \in Files(disk, arg[p].id), disk' = ToBack(disk, i) PROVE DiskFine'
    <3>1. i \in 1..Len(disk) /\ disk \in Seq(FileType) /\ (~torn => AllWhole(disk))
      BY <1>0, Zenon DEF Files, DiskFine
    <3>2. /\ ToBack(disk, i) \in Seq(FileType) /\ Bytes(ToBack(disk, i)) = Bytes(disk)
          /\ (~torn => AllWhole(ToBack(disk, i)))
      BY <3>1, ToBackKeeps, TypesSized, Zenon
    <3>3. Bytes(disk)' = Bytes(disk) BY <2>2, <3>2, Zenon DEF Bytes
    <3>4. DiskBounded' BY <1>0, <1>1, <3>3, Zenon DEF DiskFine, DiskBounded
    <3>5. ~torn' => AllWhole(disk)' BY <1>1, <2>2, <3>2, Zenon DEF AllWhole
    <3> QED BY <1>0, <1>1, <2>2, <3>2, <3>4, <3>5, Zenon DEF DiskFine
  <2> QED BY <2>1, <2>2, Zenon DEF touch
<1> QED BY <1>1, <1>3, <1>4, <1>5, Quiet, Zenon DEF Inv

LEMMA StepPutMemory == ASSUME Inv, NEW p \in Callers, putMemory(p) PROVE Inv'
<1>0. CallersFine /\ MemoryFine /\ DiskFine BY Zenon DEF Inv
<1>1. /\ pc[p] = "putMemory" /\ Done(p) /\ mu = Nobody /\ putMemoryLocked(arg[p])
      /\ UNCHANGED <<disk, mu, ret, settled, torn, crashes>>
  BY Zenon DEF putMemory
<1>2. p # Nobody BY CacheAssumption, Zenon
<1>3. DiskFine' BY <1>0, <1>1, SameDisk, Zenon
<1>4. MemoryFine' BY <1>0, <1>1, AtHand, PutMemory, Zenon
<1>5. CallersFine'
  <2> DEFINE r == ret[p]
  <2>1. r \in Answers /\ (r = "broken" => torn) /\ ret' = [ret EXCEPT ![p] = r]
    BY <1>0, <1>1, AtHand, Zenon
  <2> HIDE DEF r
  <2> QED BY <1>0, <1>1, <1>2, <2>1, Labels, ChunkFacts, CallerSteps, Zenon DEF Done
<1> QED BY <1>1, <1>3, <1>4, <1>5, Quiet, Zenon DEF Inv

LEMMA StepCreateTemp == ASSUME Inv, NEW p \in Callers, CreateTemp(p) PROVE Inv'
<1>0. CallersFine /\ MemoryFine /\ DiskFine BY Zenon DEF Inv
<1>1. PICK c \in Chunks :
        /\ At(p, "idle", "write") /\ mu = Nobody /\ mu' = p
        /\ arg' = [arg EXCEPT ![p] = Chunk(c, Size[c])] /\ Return(p, None)
        /\ disk' = Append(disk, Temp(c, 0))
        /\ UNCHANGED <<memory, memoryBytes, settled, torn, crashes>>
  BY Zenon DEF CreateTemp
<1>2. p # Nobody BY CacheAssumption, Zenon
<1>3. MemoryFine' BY <1>0, <1>1, SameMemory, Zenon
<1>4. CallersFine' /\ pc'[p] = "write" /\ \A q \in Callers : q # p => pc'[q] = pc[q]
  <2>1. Size[c] \in Nat BY CacheAssumption, Zenon
  <2>2. /\ Chunk(c, Size[c]) \in ChunkType /\ Chunk(c, Size[c]).whole /\ Chunk(c, Size[c]).id \in Chunks
    BY <2>1, ChunkFacts, Zenon
  <2> QED BY <1>0, <1>1, <2>2, Labels, CallerSteps, Zenon DEF At, Return
<1>5. disk \in Seq(FileType) /\ (~torn => AllWhole(disk)) /\ (settled => Bytes(disk) <= MaxSize)
  BY <1>0, <1>1, Zenon DEF DiskFine, DiskBounded
<1>6. Temp(c, 0) \in FileType /\ Temp(c, 0).whole BY FileFacts, Zenon
<1>7. DiskFine'
  <2>1. Append(disk, Temp(c, 0)) \in Seq(FileType) /\ (~torn => AllWhole(Append(disk, Temp(c, 0))))
    BY <1>5, <1>6, AppendKeeps, Zenon
  <2>2. ~torn' => AllWhole(disk)' BY <1>1, <2>1, Zenon DEF AllWhole
  <2>3. DiskBounded' BY <1>1, <1>2, Zenon DEF DiskBounded
  <2> QED BY <1>0, <1>1, <2>1, <2>2, <2>3, Zenon DEF DiskFine
<1>8. ASSUME NEW q \in Callers PROVE Writing(q)'
  <2>1. CASE q = p
    <3> DEFINE t == Temp(c, 0)
    <3>1. t \in FileType BY <1>6, Zenon
    <3> HIDE DEF t
    <3>2. Append(disk, t) # <<>> /\ SubSeq(Append(disk, t), 1, Len(Append(disk, t)) - 1) = disk
      BY <1>5, <3>1
    <3>3. Front(Append(disk, t)) = disk BY <3>2, Zenon DEF Front
    <3>4. disk' # <<>> /\ Front(disk)' = disk BY <1>1, <3>2, <3>3, Zenon DEF t, Front
    <3>5. Bytes(Front(disk))' = Bytes(disk) BY <3>4, Zenon DEF Bytes
    <3> QED BY <1>1, <1>4, <1>5, <2>1, <3>4, <3>5, Zenon DEF Writing
  <2>2. CASE q # p BY <1>0, <1>1, <1>4, <2>2, Alone, Zenon DEF Writing, Busy
  <2> QED BY <2>1, <2>2, Zenon
<1> QED BY <1>3, <1>4, <1>7, <1>8, Zenon DEF Inv

LEMMA StepWriteFails == ASSUME Inv, NEW p \in Callers, WriteFails(p) PROVE Inv'
<1>0. CallersFine /\ MemoryFine /\ DiskFine /\ Writing(p) BY Zenon DEF Inv
<1>1. /\ pc[p] = "write" /\ Done(p) /\ mu' = Nobody
      /\ disk' = Front(disk) /\ Return(p, "error")
      /\ UNCHANGED <<memory, memoryBytes, settled, torn, crashes>>
  BY Zenon DEF WriteFails
<1>2. p # Nobody /\ mu = p BY <1>0, <1>1, CacheAssumption, AtHand, Zenon DEF Busy
<1>3. MemoryFine' BY <1>0, <1>1, SameMemory, Zenon
<1>4. CallersFine'
  <2>1. /\ mu' \in {mu, p, Nobody} /\ mu \in {p, Nobody} /\ mu' # p /\ torn' = torn
        /\ pc' = [pc EXCEPT ![p] = "idle"] /\ arg' = [arg EXCEPT ![p] = Nothing]
        /\ ret' = [ret EXCEPT ![p] = "error"]
    BY <1>1, <1>2, Zenon DEF Done, Return
  <2>2. "idle" \in Busy <=> mu' = p BY <2>1, Labels, Zenon
  <2> QED BY <1>0, <2>1, <2>2, Labels, ChunkFacts, CallerSteps, Zenon
<1>5. DiskFine'
  <2>1. disk \in Seq(FileType) /\ (~torn => AllWhole(disk)) /\ disk # <<>>
        /\ (settled => Bytes(Front(disk)) <= MaxSize)
    BY <1>0, <1>1, Zenon DEF DiskFine, Writing
  <2>2. Front(disk) \in Seq(FileType) /\ (~torn => AllWhole(Front(disk)))
    BY <2>1, FrontKeeps, TypesSized, Zenon
  <2>3. Bytes(disk)' = Bytes(Front(disk)) BY <1>1, Zenon DEF Bytes
  <2>4. DiskBounded' BY <1>1, <2>1, <2>3, Zenon DEF DiskBounded
  <2>5. ~torn' => AllWhole(disk)' BY <1>1, <2>2, Zenon DEF AllWhole
  <2> QED BY <1>0, <1>1, <2>2, <2>4, <2>5, Zenon DEF DiskFine
<1> QED BY <1>1, <1>3, <1>4, <1>5, Quiet, Zenon DEF Inv

LEMMA StepRename == ASSUME Inv, NEW p \in Callers, Rename(p) PROVE Inv'
<1>0. CallersFine /\ MemoryFine /\ DiskFine /\ Writing(p) BY Zenon DEF Inv
<1>1. /\ At(p, "write", "evict")
      /\ disk' = Append(Without(Front(disk), arg[p].id), File(arg[p].id))
      /\ putMemoryLocked(arg[p]) /\ settled' = FALSE
      /\ UNCHANGED <<mu, arg, ret, torn, crashes>>
  BY Zenon DEF Rename
<1>2. pc[p] = "write" /\ pc' = [pc EXCEPT ![p] = "evict"] BY <1>1, Zenon DEF At
<1>3. p # Nobody /\ mu = p /\ arg[p].id \in Chunks
  BY <1>0, <1>2, CacheAssumption, AtHand, Labels, Zenon
<1>4. MemoryFine' BY <1>0, <1>1, AtHand, PutMemory, Zenon
<1>5. CallersFine' /\ pc'[p] = "evict" /\ \A q \in Callers : q # p => pc'[q] = pc[q]
  <2> DEFINE r == ret[p]
             a == arg[p]
  <2>1. /\ r \in Answers /\ (r = "broken" => torn) /\ ret' = [ret EXCEPT ![p] = r]
        /\ a \in ChunkType /\ a.id \in Chunks /\ (~torn => a.whole) /\ arg' = [arg EXCEPT ![p] = a]
    BY <1>0, <1>1, <1>3, AtHand, Zenon
  <2> HIDE DEF r, a
  <2>2. "evict" \in Busy <=> mu' = p BY <1>1, <1>3, Labels, Zenon
  <2>3. mu' \in {mu, p, Nobody} /\ mu' = mu /\ torn' = torn BY <1>1, Zenon
  <2> QED BY <1>0, <1>2, <2>1, <2>2, <2>3, Labels, CallerSteps, Zenon
<1>6. DiskFine'
  <2> DEFINE f == Front(disk)
             w == Without(f, arg[p].id)
             x == File(arg[p].id)
  <2>1. disk \in Seq(FileType) /\ (~torn => AllWhole(disk)) /\ disk # <<>>
    BY <1>0, <1>2, Zenon DEF DiskFine, Writing
  <2>2. f \in Seq(FileType) /\ (~torn => AllWhole(f)) BY <2>1, FrontKeeps, TypesSized, Zenon
  <2> HIDE DEF f
  <2>3. w \in Seq(FileType) /\ (~torn => AllWhole(w)) BY <2>2, WithoutKeeps, Zenon
  <2>4. x \in FileType /\ x.whole BY <1>3, FileFacts, Zenon
  <2>5. disk' = Append(w, x) BY <1>1, Zenon DEF f
  <2> HIDE DEF w, x
  <2>6. Append(w, x) \in Seq(FileType) /\ (~torn => AllWhole(Append(w, x)))
    BY <2>3, <2>4, AppendKeeps, Zenon
  <2>7. ~torn' => AllWhole(disk)' BY <1>1, <2>5, <2>6, Zenon DEF AllWhole
  <2>8. DiskBounded' BY <1>1, Zenon DEF DiskBounded
  <2> QED BY <1>1, <2>5, <2>6, <2>7, <2>8, Zenon DEF DiskFine
<1>7. ASSUME NEW q \in Callers PROVE Writing(q)'
  <2>1. CASE q = p BY <1>1, <1>5, <2>1, Zenon DEF Writing
  <2>2. CASE q # p BY <1>0, <1>3, <1>5, <2>2, Alone, Zenon DEF Writing, Busy
  <2> QED BY <2>1, <2>2, Zenon
<1> QED BY <1>4, <1>5, <1>6, <1>7, Zenon DEF Inv

LEMMA StepEvict == ASSUME Inv, NEW p \in Callers, evictLocked(p) \/ EvictFails(p) PROVE Inv'
<1>0. CallersFine /\ MemoryFine /\ DiskFine /\ Writing(p) BY Zenon DEF Inv
<1>1. pc[p] = "evict" /\ UNCHANGED <<memory, memoryBytes, torn, crashes>>
  BY Zenon DEF evictLocked, EvictFails
<1>2. p # Nobody /\ mu = p /\ ~settled
  BY <1>0, <1>1, CacheAssumption, AtHand, Labels, Zenon DEF Writing
<1>3. MemoryFine' BY <1>0, <1>1, SameMemory, Zenon
<1>4. disk \in Seq(FileType) /\ (~torn => AllWhole(disk)) /\ settled \in BOOLEAN
  BY <1>0, Zenon DEF DiskFine
<1>5. CASE Bytes(disk) > MaxSize /\ disk' = Tail(disk) /\ UNCHANGED <<pc, arg, mu, ret, settled>>
  <2>1. disk # <<>>
    <3>1. ~(0 > MaxSize) BY CacheAssumption
    <3> QED BY <1>5, <3>1, BytesEmpty, Zenon
  <2>2. Tail(disk) \in Seq(FileType) /\ (~torn => AllWhole(Tail(disk)))
    BY <1>4, <2>1, TailKeeps, Zenon
  <2>3. ~torn' => AllWhole(disk)' BY <1>1, <1>5, <2>2, Zenon DEF AllWhole
  <2>4. DiskBounded' BY <1>2, <1>5, Zenon DEF DiskBounded
  <2>5. DiskFine' BY <1>4, <1>5, <2>2, <2>3, <2>4, Zenon DEF DiskFine
  <2>6. CallersFine' BY <1>0, <1>1, <1>5, Zenon DEF CallersFine, Locked, HitsAreWhole
  <2>7. ASSUME NEW q \in Callers PROVE Writing(q)'
    <3>1. CASE q = p BY <1>1, <1>2, <1>5, <3>1, Zenon DEF Writing
    <3>2. CASE q # p BY <1>0, <1>2, <1>5, <3>2, Alone, Zenon DEF Writing, Busy
    <3> QED BY <3>1, <3>2, Zenon
  <2> QED BY <1>3, <2>5, <2>6, <2>7, Zenon DEF Inv
<1>6. ASSUME NEW r \in {"ok", "error"}, Done(p), mu' = Nobody, Return(p, r), UNCHANGED disk,
             settled' \in BOOLEAN, settled' => Bytes(disk) <= MaxSize
      PROVE  Inv'
  <2>1. CallersFine'
    <3>1. /\ mu' \in {mu, p, Nobody} /\ mu \in {p, Nobody} /\ mu' # p /\ torn' = torn
          /\ pc' = [pc EXCEPT ![p] = "idle"] /\ arg' = [arg EXCEPT ![p] = Nothing]
          /\ ret' = [ret EXCEPT ![p] = r] /\ r \in Answers /\ r # "broken"
      BY <1>1, <1>2, <1>6, Labels, Zenon DEF Done, Return
    <3>2. "idle" \in Busy <=> mu' = p BY <3>1, Labels, Zenon
    <3> QED BY <1>0, <3>1, <3>2, Labels, ChunkFacts, CallerSteps, Zenon
  <2>2. Bytes(disk)' = Bytes(disk) BY <1>6, Zenon DEF Bytes
  <2>3. DiskBounded' BY <1>6, <2>2, Zenon DEF DiskBounded
  <2>4. DiskFine' BY <1>1, <1>4, <1>6, <2>3, Zenon DEF DiskFine, AllWhole
  <2> QED BY <1>3, <1>6, <2>1, <2>4, Quiet, Zenon DEF Inv
<1>7. CASE ~(Bytes(disk) > MaxSize) /\ Done(p) /\ mu' = Nobody /\ Return(p, "ok") /\ settled' = TRUE /\ UNCHANGED disk
  <2>1. Bytes(disk) \in Nat BY <1>4, TypesSized, BytesNat, Zenon
  <2>2. Bytes(disk) <= MaxSize BY <1>7, <2>1, CacheAssumption
  <2> QED BY <1>6, <1>7, <2>2, Zenon
<1>8. CASE EvictFails(p)
  BY <1>2, <1>4, <1>6, <1>8, Zenon DEF EvictFails
<1> QED BY <1>5, <1>7, <1>8, Zenon DEF evictLocked

\* A restart finds a directory, and nothing else.
LEMMA Restarts ==
  ASSUME DiskFine, NEW files \in Seq(FileType), Restart(files), torn' \in BOOLEAN,
         ~torn' => AllWhole(files), settled /\ mu = Nobody => Bytes(files) <= MaxSize
  PROVE  Inv'
<1>1. /\ disk' = files /\ memory' = <<>> /\ memoryBytes' = 0 /\ mu' = Nobody
      /\ pc' = [p \in Callers |-> "idle"] /\ arg' = [p \in Callers |-> Nothing]
      /\ ret' = [p \in Callers |-> None] /\ settled' = (settled /\ mu = Nobody)
  BY Zenon DEF Restart
<1>2. CallersFine'
  <2>1. /\ pc' \in [Callers -> Pcs] /\ arg' \in [Callers -> ChunkType] /\ ret' \in [Callers -> Answers]
    BY <1>1, Labels, ChunkFacts, Zenon
  <2>2. \A p \in Callers : pc'[p] = "idle" /\ arg'[p].whole /\ ret'[p] # "broken" /\ mu' # p
    BY <1>1, Labels, ChunkFacts, CacheAssumption, Zenon
  <2>3. HitsAreWhole' BY <2>2, Zenon DEF HitsAreWhole
  <2>4. \A p \in Callers : Locked(p)' BY <2>2, Zenon DEF Locked
  <2> QED BY <1>1, <2>1, <2>2, <2>3, <2>4, Zenon DEF CallersFine
<1>3. MemoryFine'
  <2>1. Bytes(memory)' = 0 BY <1>1, BytesEmpty, Zenon DEF Bytes
  <2>2. memory' \in Seq(ChunkType) /\ memoryBytes' \in Nat /\ 1..Len(memory') = {} BY <1>1
  <2>3. 0 <= MemoryMax BY CacheAssumption
  <2>4. MemoryConsistent' /\ AllWhole(memory)'
    BY <1>1, <2>1, <2>2, <2>3, Zenon DEF MemoryConsistent, AllWhole
  <2> QED BY <2>2, <2>4, Zenon DEF MemoryFine
<1>4. DiskFine'
  <2>1. Bytes(disk)' = Bytes(files) BY <1>1, Zenon DEF Bytes
  <2>2. DiskBounded' BY <1>1, <2>1, Zenon DEF DiskBounded
  <2>3. ~torn' => AllWhole(disk)' BY <1>1, Zenon DEF AllWhole
  <2>4. settled' \in BOOLEAN BY <1>1, Zenon DEF DiskFine
  <2> QED BY <1>1, <2>2, <2>3, <2>4, Zenon DEF DiskFine
<1> QED BY <1>1, <1>2, <1>3, <1>4, Quiet, Zenon DEF Inv

LEMMA StepCrash == ASSUME Inv, Crash PROVE Inv'
<1>0. /\ CallersFine /\ disk \in Seq(FileType) /\ (~torn => AllWhole(disk)) /\ DiskBounded /\ DiskFine
  BY Zenon DEF Inv, DiskFine
<1>1. PICK n \in Written : Restart(Left(n)) BY Zenon DEF Crash
<1>2. torn' = torn /\ torn' \in BOOLEAN BY <1>0, Zenon DEF Crash, CallersFine
<1> DEFINE cut == mu # Nobody /\ pc[mu] = "write"
           f == Left(n)
<1>3. Len(disk) \in Nat /\ \A i \in 1..Len(disk) : disk[i] \in FileType BY <1>0
<1>4. cut => Temp(arg[mu].id, n) \in FileType /\ Temp(arg[mu].id, n).whole
  <2> SUFFICES ASSUME cut PROVE Temp(arg[mu].id, n) \in FileType /\ Temp(arg[mu].id, n).whole
    BY Zenon
  <2>1. mu \in Callers BY <1>0, Zenon DEF CallersFine
  <2>2. arg[mu].id \in Chunks /\ arg[mu].size \in Nat BY <1>0, <2>1, AtHand, Zenon
  <2>3. n \in 0..arg[mu].size BY Zenon DEF Written
  <2>4. n \in Nat BY <2>2, <2>3
  <2> QED BY <2>2, <2>4, FileFacts, Zenon
<1>5. f = [i \in 1..Len(disk) |-> IF cut /\ i = Len(disk) THEN Temp(arg[mu].id, n) ELSE disk[i]]
  BY Zenon DEF Left
<1> HIDE DEF f, cut
<1>6. ASSUME NEW i \in 1..Len(disk)
      PROVE  f[i] \in FileType /\ (~torn => f[i].whole) /\ (~cut => f[i] = disk[i])
  <2>1. f[i] = IF cut /\ i = Len(disk) THEN Temp(arg[mu].id, n) ELSE disk[i] BY <1>5, Zenon
  <2>2. disk[i] \in FileType /\ (~torn => disk[i].whole) BY <1>0, <1>3, Zenon DEF AllWhole
  <2> QED BY <1>4, <2>1, <2>2, Zenon
<1>7. f \in [1..Len(disk) -> FileType]
  <2> DEFINE e(i) == IF cut /\ i = Len(disk) THEN Temp(arg[mu].id, n) ELSE disk[i]
  <2>1. f = [i \in 1..Len(disk) |-> e(i)] BY <1>5, Zenon
  <2>2. \A i \in 1..Len(disk) : f[i] = e(i) BY <2>1, Zenon
  <2> HIDE DEF e
  <2>3. \A i \in 1..Len(disk) : e(i) \in FileType BY <1>6, <2>2, Zenon
  <2> QED BY <2>1, <2>3, Zenon
<1>8. f \in Seq(FileType) /\ Len(f) = Len(disk) BY <1>3, <1>7
<1>9. ~torn' => AllWhole(f) BY <1>0, <1>2, <1>6, <1>8, Zenon DEF AllWhole
<1>10. ASSUME settled, mu = Nobody PROVE Bytes(f) <= MaxSize
  <2>0. ~cut BY <1>10, Zenon DEF cut
  <2>1. \A i \in 1..Len(disk) : f[i] = disk[i] BY <1>6, <2>0, Zenon
  <2>2. f = disk BY <1>0, <1>8, <2>1
  <2> QED BY <1>0, <1>10, <2>2, Zenon DEF DiskBounded
<1> QED BY <1>0, <1>1, <1>2, <1>8, <1>9, <1>10, Restarts, Zenon DEF f

LEMMA StepPowerLoss == ASSUME Inv, PowerLoss PROVE Inv'
<1>0. disk \in Seq(FileType) /\ DiskBounded /\ DiskFine BY Zenon DEF Inv, DiskFine
<1> DEFINE F(lost, cut) == [i \in 1..Len(disk) |->
                              [id |-> disk[i].id, temp |-> disk[i].temp,
                               whole |-> disk[i].whole /\ i \notin lost,
                               size |-> IF i \in cut THEN 0 ELSE disk[i].size]]
<1>1. PICK lost \in SUBSET (1..Len(disk)), cut \in SUBSET (1..Len(disk)) : Restart(F(lost, cut))
  BY Zenon DEF PowerLoss
<1>2. torn' = TRUE BY Zenon DEF PowerLoss
<1> DEFINE f == F(lost, cut)
<1>3. Len(disk) \in Nat /\ \A i \in 1..Len(disk) : disk[i] \in FileType BY <1>0
<1>4. \A i \in 1..Len(disk) :
        disk[i].id \in Chunks /\ disk[i].temp \in BOOLEAN /\ disk[i].whole \in BOOLEAN /\ disk[i].size \in Nat
  BY <1>3, Zenon DEF FileType
<1>5. \A i \in 1..Len(disk) : f[i].size = IF i \in cut THEN 0 ELSE disk[i].size BY Zenon
<1>6. \A i \in 1..Len(disk) : f[i].size \in Nat /\ f[i].size <= disk[i].size BY <1>4, <1>5
<1>7. \A i \in 1..Len(disk) : f[i] \in FileType
  <2> TAKE i \in 1..Len(disk)
  <2>1. f[i] = [id |-> disk[i].id, temp |-> disk[i].temp,
                whole |-> disk[i].whole /\ i \notin lost, size |-> f[i].size] BY Zenon
  <2>2. (disk[i].whole /\ i \notin lost) \in BOOLEAN BY <1>4, Zenon
  <2> QED BY <1>4, <1>6, <2>1, <2>2, Zenon DEF FileType
<1>8. f \in [1..Len(disk) -> FileType] BY <1>7, Zenon
<1> HIDE DEF f
<1>9. f \in Seq(FileType) /\ Len(f) = Len(disk) BY <1>3, <1>8
<1>10. Bytes(f) <= Bytes(disk) BY <1>0, <1>6, <1>9, TypesSized, BytesLess, Zenon
<1>11. Bytes(f) \in Nat /\ Bytes(disk) \in Nat BY <1>0, <1>9, TypesSized, BytesNat, Zenon
<1>12. settled /\ mu = Nobody => Bytes(f) <= MaxSize
  BY <1>0, <1>10, <1>11, CacheAssumption DEF DiskBounded
<1> QED BY <1>0, <1>1, <1>2, <1>9, <1>12, Restarts, Zenon DEF f

-----------------------------------------------------------------------------
(* The theorems *)

LEMMA InitInv == Init => Inv
<1> SUFFICES ASSUME Init PROVE Inv BY Zenon
<1>1. /\ disk = <<>> /\ memory = <<>> /\ memoryBytes = 0 /\ mu = Nobody
      /\ pc = [p \in Callers |-> "idle"] /\ arg = [p \in Callers |-> Nothing]
      /\ ret = [p \in Callers |-> None] /\ settled = TRUE /\ torn = FALSE
  BY Zenon DEF Init
<1>2. \A p \in Callers : pc[p] = "idle" /\ arg[p].whole /\ ret[p] # "broken" /\ mu # p
  BY <1>1, Labels, ChunkFacts, CacheAssumption, Zenon
<1>3. CallersFine
  <2>1. /\ pc \in [Callers -> Pcs] /\ arg \in [Callers -> ChunkType] /\ ret \in [Callers -> Answers]
    BY <1>1, Labels, ChunkFacts, Zenon
  <2> QED BY <1>1, <1>2, <2>1, Zenon DEF CallersFine, HitsAreWhole, Locked
<1>4. /\ disk \in Seq(FileType) /\ memory \in Seq(ChunkType) /\ memoryBytes \in Nat
      /\ 1..Len(disk) = {} /\ 1..Len(memory) = {} /\ 0 <= MemoryMax /\ 0 <= MaxSize
  BY <1>1, CacheAssumption
<1>5. MemoryFine BY <1>1, <1>4, BytesEmpty, Zenon DEF MemoryFine, MemoryConsistent, AllWhole
<1>6. DiskFine BY <1>1, <1>4, BytesEmpty, Zenon DEF DiskFine, DiskBounded, AllWhole
<1>7. \A p \in Callers : Writing(p) BY <1>2, Zenon DEF Writing
<1> QED BY <1>3, <1>5, <1>6, <1>7, Zenon DEF Inv

LEMMA NextInv == Inv /\ [Next]_vars => Inv'
<1> SUFFICES ASSUME Inv, [Next]_vars PROVE Inv' BY Zenon
<1>1. CASE UNCHANGED vars
  <2>1. UNCHANGED <<disk, memory, memoryBytes, mu, pc, arg, ret, settled, torn>>
    BY <1>1, Zenon DEF vars
  <2>2. CallersFine' BY <2>1, Zenon DEF Inv, CallersFine, Locked, HitsAreWhole
  <2>3. MemoryFine' /\ DiskFine' BY <2>1, SameMemory, SameDisk, Zenon DEF Inv
  <2>4. Bytes(Front(disk))' = Bytes(Front(disk)) BY <2>1, Zenon DEF Bytes, Front
  <2>5. \A p \in Callers : Writing(p)' BY <2>1, <2>4, Zenon DEF Inv, Writing
  <2> QED BY <2>2, <2>3, <2>5, Zenon DEF Inv
<1>2. ASSUME NEW p \in Callers, getMemory(p) \/ CreateTemp(p) \/ Step(p) \/ WriteFails(p) \/ EvictFails(p)
      PROVE  Inv'
  BY <1>2, StepGetMemory, StepReadFile, StepTouch, StepPutMemory, StepCreateTemp, StepWriteFails,
     StepRename, StepEvict, Zenon DEF Step
<1> QED BY <1>1, <1>2, StepCrash, StepPowerLoss, Zenon DEF Next

LEMMA AlwaysInv == Spec => []Inv
<1>1. Init => Inv BY InitInv, Zenon
<1>2. Inv /\ [Next]_vars => Inv' BY NextInv, Zenon
<1> QED BY <1>1, <1>2, PTL DEF Spec

\* For any callers, chunks and limits, memoryBytes is the length of what the
\* memory list holds, at most memoryMax, and no chunk is listed twice.
THEOREM MemoryStaysConsistent == Spec => []MemoryConsistent
<1>1. Inv => MemoryConsistent BY Zenon DEF Inv, MemoryFine
<1> QED BY <1>1, AlwaysInv, PTL

\* For any callers, chunks, limits and crashes, the directory is within maxSize
\* whenever no Put is under way and the last one finished its eviction.
THEOREM DiskStaysBounded == Spec => []DiskBounded
<1>1. Inv => DiskBounded BY Zenon DEF Inv, DiskFine
<1> QED BY <1>1, AlwaysInv, PTL

\* For any callers and chunks, Get and GetRange, which read the file without
\* the mutex, return a whole chunk unless the machine has lost power.
THEOREM HitsStayWhole == Spec => []HitsAreWhole
<1>1. Inv => HitsAreWhole BY Zenon DEF Inv, CallersFine
<1> QED BY <1>1, AlwaysInv, PTL
=============================================================================
