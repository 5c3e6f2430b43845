---- MODULE ScheduleGeneratorProofs ----
(***************************************************************************)
(* What the second generator computes, for any courses, filters and        *)
(* limits: what it keeps is acceptable, its pruning loses nothing better,  *)
(* and a search that was not cut off answers with all the best schedules.  *)
(* Of the compressed answer: no course is passed over, and what the client *)
(* draws is what was found.                                                *)
(***************************************************************************)
EXTENDS ScheduleRequests, FiniteSetTheorems, SequenceTheorems, WellFoundedInduction, TLAPS

-----------------------------------------------------------------------------
(* Induction                                                               *)

Less == {p \in Nat \X Nat : p[1] < p[2]}

\* A set of numbers that is not empty has a least one.
LEMMA LeastNumber ==
    ASSUME NEW T \in SUBSET Nat, T # {}
    PROVE  \E n \in T : \A k \in T : n <= k
<1>1. Less = OpToRel(<, Nat)
  BY DEF Less, OpToRel
<1>2. PICK n \in T : \A k \in T : ~(<<k, n>> \in Less)
  BY <1>1, NatLessThanWellFounded, WFMin
<1>3. ASSUME NEW k \in T PROVE n <= k
  <2>1. n \in Nat /\ k \in Nat /\ ~(<<k, n>> \in Less)
    BY <1>2
  <2>. QED BY <2>1 DEF Less
<1>. QED BY <1>3

\* Induction over the natural numbers, stated with a set.
LEMMA SetInduction ==
    ASSUME NEW S, 0 \in S, \A n \in Nat : n \in S => n + 1 \in S
    PROVE  Nat \subseteq S
<1> DEFINE T == Nat \ S
<1> SUFFICES ASSUME T # {} PROVE FALSE
  OBVIOUS
<1>1. PICK n \in T : \A k \in T : n <= k
  BY LeastNumber
<1>2. n \in Nat /\ n # 0 /\ n - 1 \in Nat /\ n - 1 \notin T
  BY <1>1
<1>. QED BY <1>2

-----------------------------------------------------------------------------
(* Picks and their components                                            *)

\* What FlattenSeq computes, one member after the other.
Steps(f, n, P, ch) ==
    /\ f \in [0..n -> Seq(P)] /\ f[0] = <<>>
    /\ \A i \in 1..n : f[i] = f[i - 1] \o ch[i]

LEMMA StepsExist ==
    ASSUME NEW P, NEW ch \in Seq(Seq(P)) PROVE \E f : Steps(f, Len(ch), P, ch)
<1> DEFINE I == {m \in Nat : m <= Len(ch) => \E f : Steps(f, m, P, ch)}
<1>1. 0 \in I
  <2>1. <<>> \in Seq(P)
    OBVIOUS
  <2>2. Steps([i \in 0..0 |-> <<>>], 0, P, ch)
    BY <2>1 DEF Steps
  <2>. QED BY <2>2
<1>2. ASSUME NEW m \in Nat, m \in I PROVE m + 1 \in I
  <2> SUFFICES ASSUME m + 1 <= Len(ch) PROVE \E f : Steps(f, m + 1, P, ch)
    OBVIOUS
  <2>1. PICK f : Steps(f, m, P, ch)
    BY <1>2
  <2>2. PICK a \in Seq(P), b \in Seq(P) : a = f[m] /\ b = ch[m + 1]
    BY SMTT(30), <2>1 DEF Steps
  <2>3. PICK c \in Seq(P) : c = a \o b
    BY ConcatProperties
  <2> DEFINE g == [i \in 0..(m + 1) |-> IF i = m + 1 THEN c ELSE f[i]]
  <2>4. g \in [0..(m + 1) -> Seq(P)] /\ g[0] = <<>> /\ g[m] = a /\ g[m + 1] = c
    BY <2>1, <2>2 DEF Steps
  <2>5. \A i \in 1..m : g[i] = f[i] /\ g[i - 1] = f[i - 1]
    OBVIOUS
  <2> HIDE DEF g
  <2>6. ASSUME NEW i \in 1..(m + 1) PROVE g[i] = g[i - 1] \o ch[i]
    <3>1. CASE i = m + 1
      <4>1. i - 1 = m
        BY <3>1
      <4>. QED BY <2>2, <2>3, <2>4, <3>1, <4>1
    <3>2. CASE i \in 1..m
      <4>1. f[i] = f[i - 1] \o ch[i]
        BY <2>1, <3>2 DEF Steps
      <4>. QED BY <2>5, <3>2, <4>1
    <3>3. i = m + 1 \/ i \in 1..m
      OBVIOUS
    <3>. QED BY <3>1, <3>2, <3>3
  <2>7. Steps(g, m + 1, P, ch)
    BY <2>4, <2>6 DEF Steps
  <2>. QED BY <2>7
<1> HIDE DEF I
<1>3. Len(ch) \in I
  BY <1>1, <1>2, SetInduction
<1>. QED BY <1>3 DEF I

\* Two of them agree as far as the sequences do.
LEMMA StepsAgree ==
    ASSUME NEW P, NEW a, NEW b, NEW m \in Nat, NEW n \in Nat, NEW f, NEW g, NEW k \in Nat,
           Steps(f, m, P, a), Steps(g, n, P, b), k <= m, k <= n, \A i \in 1..k : a[i] = b[i]
    PROVE  f[k] = g[k]
<1> DEFINE I == {i \in Nat : i <= k => f[i] = g[i]}
<1>1. 0 \in I
  BY DEF Steps
<1>2. ASSUME NEW i \in Nat, i \in I PROVE i + 1 \in I
  <2> SUFFICES ASSUME i + 1 <= k PROVE f[i + 1] = g[i + 1]
    OBVIOUS
  <2>1. i + 1 \in 1..m /\ i + 1 \in 1..n /\ i + 1 \in 1..k /\ (i + 1) - 1 = i /\ f[i] = g[i]
    BY <1>2
  <2>2. f[i + 1] = f[i] \o a[i + 1] /\ g[i + 1] = g[i] \o b[i + 1]
    BY <2>1 DEF Steps
  <2>. QED BY <2>1, <2>2
<1> HIDE DEF I
<1>3. k \in I
  BY <1>1, <1>2, SetInduction
<1>. QED BY <1>3 DEF I

LEMMA FlattenSteps ==
    ASSUME NEW P, NEW ch \in Seq(Seq(P))
    PROVE  \E f : Steps(f, Len(ch), P, ch) /\ FlattenSeq(ch) = f[Len(ch)]
<1> DEFINE n == Len(ch)
           Is(f) == f = [i \in 1..n |-> IF i = 1 THEN ch[i] ELSE f[i - 1] \o ch[i]]
<1>1. PICK f : Steps(f, n, P, ch)
  BY StepsExist
<1>2. CASE n = 0
  <2>1. ch = <<>>
    BY <1>2
  <2>2. FlattenSeq(ch) = ch
    BY <1>2 DEF FlattenSeq
  <2>. QED BY <1>1, <1>2, <2>1, <2>2 DEF Steps
<1>3. CASE n # 0
  <2>1. n \in Nat /\ 1 \in 1..n /\ \A i \in 1..n : ch[i] \in Seq(P)
    BY <1>3
  <2>2. f[1] = ch[1]
    <3>0. f[0] = <<>> /\ \A i \in 1..n : f[i] = f[i - 1] \o ch[i]
      BY <1>1 DEF Steps
    <3>1. f[1] = f[0] \o ch[1]
      <4>1. ASSUME NEW i \in 1..n, i = 1 PROVE f[i] = f[0] \o ch[i]
        <5>1. f[i] = f[i - 1] \o ch[i]
          BY <3>0
        <5>2. i - 1 = 0
          BY <4>1
        <5>. QED BY <5>1, <5>2
      <4>. QED BY <2>1, <4>1
    <3>2. <<>> \o ch[1] = ch[1]
      BY <2>1, ConcatEmptySeq
    <3>. QED BY <3>0, <3>1, <3>2
  <2> DEFINE h == [i \in 1..n |-> f[i]]
  <2>3. Is(h)
    <3>1. ASSUME NEW i \in 1..n
          PROVE  f[i] = IF i = 1 THEN ch[i] ELSE h[i - 1] \o ch[i]
      <4>1. CASE i = 1
        BY <2>2, <4>1
      <4>2. CASE i # 1
        <5>1. i - 1 \in 1..n
          BY <2>1, <4>2
        <5>2. h[i - 1] = f[i - 1]
          BY <5>1
        <5>. QED BY <1>1, <4>2, <5>2 DEF Steps
      <4>. QED BY <4>1, <4>2
    <3>. QED BY <3>1
  <2>4. PICK g : g = CHOOSE x : Is(x)
    OBVIOUS
  <2>5. Is(g)
    BY <2>3, <2>4
  <2>6. FlattenSeq(ch) = g[n]
    BY <1>3, <2>4 DEF FlattenSeq
  <2>7. \A i \in 1..n : g[i] = IF i = 1 THEN ch[i] ELSE g[i - 1] \o ch[i]
    BY <2>5
  <2> HIDE DEF Is, h
  <2> DEFINE I == {i \in Nat : i \in 1..n => g[i] = f[i]}
  <2>8. 0 \in I
    OBVIOUS
  <2>9. ASSUME NEW i \in Nat, i \in I PROVE i + 1 \in I
    <3> SUFFICES ASSUME i + 1 \in 1..n PROVE g[i + 1] = f[i + 1]
      OBVIOUS
    <3>1. CASE i = 0
      BY <2>1, <2>2, <2>7, <3>1
    <3>2. CASE i # 0
      <4>1. i \in 1..n /\ (i + 1) - 1 = i /\ i + 1 # 1
        BY <2>1, <3>2
      <4>2. g[i] = f[i]
        BY <2>9, <4>1
      <4>3. g[i + 1] = g[i] \o ch[i + 1] /\ f[i + 1] = f[i] \o ch[i + 1]
        BY <1>1, <2>7, <4>1 DEF Steps
      <4>. QED BY <4>2, <4>3
    <3>. QED BY <3>1, <3>2
  <2> HIDE DEF I
  <2>10. n \in I
    BY <2>1, <2>8, <2>9, SetInduction
  <2>11. g[n] = f[n]
    BY <1>3, <2>1, <2>10 DEF I
  <2>. QED BY <1>1, <2>6, <2>11
<1>. QED BY <1>2, <1>3

\* The components of a choice, and of one with a course more.
LEMMA FlattenAppend ==
    ASSUME NEW P, NEW ch \in Seq(Seq(P)), NEW cs \in Seq(P)
    PROVE  /\ FlattenSeq(ch) \in Seq(P)
           /\ FlattenSeq(Append(ch, cs)) = FlattenSeq(ch) \o cs
<1> DEFINE n == Len(ch)
<1>1. PICK f : Steps(f, n, P, ch) /\ FlattenSeq(ch) = f[n]
  BY FlattenSteps
<1>2. PICK more \in Seq(Seq(P)) : more = Append(ch, cs)
  <2>1. \A S : ch \in Seq(S) /\ cs \in S => Append(ch, cs) \in Seq(S)
    OBVIOUS
  <2>. QED BY <2>1
<1>3. Len(more) = n + 1 /\ n \in Nat /\ more[n + 1] = cs /\ \A i \in 1..n : more[i] = ch[i]
  BY <1>2
<1>. PICK m \in Nat : m = n + 1
  BY <1>3
<1>4. PICK g : Steps(g, m, P, more) /\ FlattenSeq(more) = g[m]
  BY <1>3, FlattenSteps
<1> HIDE DEF n
<1>5. f[n] = g[n]
  <2>1. n \in Nat /\ n <= n /\ n <= m /\ \A i \in 1..n : ch[i] = more[i]
    BY <1>3
  <2>. QED BY <1>1, <1>4, <2>1, StepsAgree
<1>6. g[n + 1] = g[n] \o cs
  <2>1. n + 1 \in 1..(n + 1) /\ (n + 1) - 1 = n
    BY <1>3
  <2>. QED BY <1>3, <1>4, <2>1 DEF Steps
<1>7. f[n] \in Seq(P)
  BY <1>1, <1>3 DEF Steps
<1>. QED BY <1>1, <1>2, <1>4, <1>5, <1>6, <1>7

LEMMA FlattenNothing == FlattenSeq(<<>>) = <<>>
BY DEF FlattenSeq

LEMMA Concat ==
    ASSUME NEW P, NEW a \in Seq(P), NEW b \in Seq(P)
    PROVE  /\ a \o b \in Seq(P)
           /\ a \o <<>> = a
           /\ <<>> \o a = a
           /\ a \o b = <<>> <=> a = <<>> /\ b = <<>>
<1>1. a \o b \in Seq(P)
  BY ConcatProperties
<1>2. a \o <<>> = a /\ <<>> \o a = a
  BY ConcatEmptySeq
<1>3. a \o b = <<>> <=> a = <<>> /\ b = <<>>
  BY ConcatEqualIffEmpty
<1>. QED BY <1>1, <1>2, <1>3

\* As more courses are added the components only grow.
Longer(x, y, P) == \E rest \in Seq(P) : y = x \o rest

LEMMA LongerStill ==
    ASSUME NEW P, NEW x \in Seq(P), NEW y \in Seq(P), NEW b \in Seq(P), Longer(x, y, P)
    PROVE  Longer(x, y \o b, P)
<1>1. PICK rest \in Seq(P) : y = x \o rest
  BY DEF Longer
<1>2. (x \o rest) \o b = x \o (rest \o b)
  OBVIOUS
<1>3. rest \o b \in Seq(P)
  BY Concat
<1>. QED BY <1>1, <1>2, <1>3 DEF Longer

Grows(f, k, i, P) == Longer(f[k], f[i], P)

LEMMA StepsGrow ==
    ASSUME NEW P, NEW n \in Nat, NEW ch \in Seq(Seq(P)), n = Len(ch), NEW f, Steps(f, n, P, ch),
           NEW k \in 0..n
    PROVE  Grows(f, k, n, P)
<1> DEFINE I == {i \in Nat : k <= i /\ i <= n => Grows(f, k, i, P)}
<1>1. Grows(f, k, k, P)
  <2>1. f[k] \in Seq(P) /\ <<>> \in Seq(P)
    BY DEF Steps
  <2>2. f[k] = f[k] \o <<>>
    BY <2>1, Concat
  <2>. QED BY <2>1, <2>2 DEF Grows, Longer
<1>2. 0 \in I
  <2>1. k <= 0 => k = 0
    OBVIOUS
  <2>. QED BY <1>1, <2>1
<1>3. ASSUME NEW i \in Nat, i \in I PROVE i + 1 \in I
  <2> SUFFICES ASSUME k <= i + 1, i + 1 <= n PROVE Grows(f, k, i + 1, P)
    OBVIOUS
  <2>1. CASE i + 1 = k
    BY <1>1, <2>1
  <2>2. CASE i + 1 # k
    <3>1. i \in 0..n /\ i + 1 \in 1..n /\ (i + 1) - 1 = i /\ Grows(f, k, i, P)
      BY <1>3, <2>2
    <3>2. PICK x \in Seq(P), y \in Seq(P) : x = f[k] /\ y = f[i]
      BY <3>1 DEF Steps
    <3>3. PICK b \in Seq(P) : b = ch[i + 1]
      BY <3>1
    <3>4. f[i + 1] = y \o b
      BY <3>1, <3>2, <3>3 DEF Steps
    <3>5. Longer(x, y, P)
      BY <3>1, <3>2 DEF Grows
    <3>6. Longer(x, y \o b, P)
      BY <3>5, LongerStill
    <3>. QED BY <3>2, <3>4, <3>6 DEF Grows
  <2>. QED BY <2>1, <2>2
<1> HIDE DEF I
<1>4. n \in I
  BY <1>2, <1>3, SetInduction
<1>. QED BY <1>4 DEF I

\* The components of the first courses come first.
LEMMA StepsAgreeAtEnd ==
    ASSUME NEW P, NEW a, NEW b, NEW m \in Nat, NEW n \in Nat, m <= n, NEW f, NEW g,
           Steps(f, m, P, a), Steps(g, n, P, b), \A i \in 1..m : a[i] = b[i]
    PROVE  f[m] = g[m]
BY StepsAgree

LEMMA FlattenPrefix ==
    ASSUME NEW P, NEW a \in Seq(Seq(P)), NEW ch \in Seq(Seq(P)), Len(a) <= Len(ch),
           \A i \in 1..Len(a) : a[i] = ch[i]
    PROVE  \E rest \in Seq(P) : FlattenSeq(ch) = FlattenSeq(a) \o rest
<1>. PICK m \in Nat, n \in Nat : m = Len(a) /\ n = Len(ch)
  OBVIOUS
<1>1. PICK f : Steps(f, n, P, ch) /\ FlattenSeq(ch) = f[n]
  BY FlattenSteps
<1>2. PICK g : Steps(g, m, P, a) /\ FlattenSeq(a) = g[m]
  BY FlattenSteps
<1>3. m \in 0..n /\ m <= m /\ m <= n /\ \A i \in 1..m : a[i] = ch[i]
  OBVIOUS
<1>4. g[m] = f[m]
  <2>1. Steps(g, m, P, a) /\ Steps(f, n, P, ch)
    BY <1>1, <1>2
  <2>2. m \in Nat /\ n \in Nat /\ m <= n
    BY <1>3
  <2>3. \A i \in 1..m : a[i] = ch[i]
    BY <1>3
  <2>. QED BY ONLY <2>1, <2>2, <2>3, StepsAgreeAtEnd
<1>5. Grows(f, m, n, P)
  BY <1>1, <1>3, StepsGrow
<1>. QED BY <1>1, <1>2, <1>4, <1>5 DEF Grows, Longer

\* A choice without components is one that leaves all courses out.
LEMMA FlattenEmpty ==
    ASSUME NEW P, NEW ch \in Seq(Seq(P))
    PROVE  FlattenSeq(ch) = <<>> <=> \A i \in DOMAIN ch : ch[i] = <<>>
<1>. PICK n \in Nat : n = Len(ch)
  OBVIOUS
<1>1. PICK f : Steps(f, n, P, ch) /\ FlattenSeq(ch) = f[n]
  BY FlattenSteps
<1>0. /\ DOMAIN ch = 1..n /\ f[0] = <<>>
      /\ \A i \in 0..n : f[i] \in Seq(P)
      /\ \A i \in 1..n : f[i] = f[i - 1] \o ch[i]
  <2>1. f[0] = <<>> /\ f \in [0..n -> Seq(P)]
    BY <1>1 DEF Steps
  <2>2. \A i \in 1..n : f[i] = f[i - 1] \o ch[i]
    BY <1>1 DEF Steps
  <2>3. DOMAIN ch = 1..n
    OBVIOUS
  <2>. QED BY <2>1, <2>2, <2>3
<1>2. ASSUME f[n] = <<>>, NEW i \in 1..n PROVE ch[i] = <<>>
  <2>1. i \in 0..n /\ i - 1 \in 0..n
    OBVIOUS
  <2>2. Grows(f, i, n, P)
    BY <1>1, <2>1, StepsGrow
  <2>3. PICK rest \in Seq(P) : f[n] = f[i] \o rest
    BY <2>2 DEF Grows, Longer
  <2>4. PICK a \in Seq(P), b \in Seq(P), c \in Seq(P) : a = f[i] /\ b = f[i - 1] /\ c = ch[i]
    BY <1>0, <2>1
  <2>5. a = b \o c
    BY <1>0, <2>4
  <2>6. a \o rest = <<>>
    BY <1>2, <2>3, <2>4
  <2>7. a = <<>>
    BY <2>6, Concat
  <2>8. b \o c = <<>>
    BY <2>5, <2>7
  <2>9. c = <<>>
    BY <2>8, Concat
  <2>. QED BY <2>4, <2>9
<1>3. ASSUME \A i \in 1..n : ch[i] = <<>> PROVE f[n] = <<>>
  <2> DEFINE I == {i \in Nat : i <= n => f[i] = <<>>}
  <2>1. 0 \in I
    BY <1>0
  <2>2. ASSUME NEW i \in Nat, i \in I PROVE i + 1 \in I
    <3> SUFFICES ASSUME i + 1 <= n PROVE f[i + 1] = <<>>
      OBVIOUS
    <3>1. i + 1 \in 1..n /\ (i + 1) - 1 = i /\ f[i] = <<>>
      BY <2>2
    <3>2. f[i + 1] = f[i] \o ch[i + 1] /\ ch[i + 1] = <<>>
      BY <1>0, <1>3, <3>1
    <3>3. <<>> \o <<>> = <<>>
      OBVIOUS
    <3>. QED BY <3>1, <3>2, <3>3
  <2> HIDE DEF I
  <2>3. n \in I
    BY <2>1, <2>2, SetInduction
  <2>. QED BY <2>3 DEF I
<1>. QED BY <1>0, <1>1, <1>2, <1>3

\* How many members of a sequence are in a set.
CountIn(seq, S) == Cardinality({i \in DOMAIN seq : seq[i] \in S})

LEMMA CountConcat ==
    ASSUME NEW P, NEW a \in Seq(P), NEW b \in Seq(P), NEW S
    PROVE  /\ CountIn(a, S) \in Nat /\ CountIn(b, S) \in Nat
           /\ CountIn(a \o b, S) = CountIn(a, S) + CountIn(b, S)
<1> DEFINE m == Len(a)
           n == Len(b)
           A == {i \in 1..m : a[i] \in S}
           B == {i \in 1..n : b[i] \in S}
           C == {i + m : i \in B}
<1>1. m \in Nat /\ n \in Nat /\ DOMAIN a = 1..m /\ DOMAIN b = 1..n
  OBVIOUS
<1>2. PICK c \in Seq(P) : c = a \o b
  BY ConcatProperties
<1>3. DOMAIN c = 1..(m + n) /\ \A i \in 1..(m + n) : c[i] = IF i <= m THEN a[i] ELSE b[i - m]
  BY <1>1, <1>2, ConcatProperties
<1>4. IsFiniteSet(1..m) /\ IsFiniteSet(1..n)
  BY <1>1, FS_Interval
<1>5. IsFiniteSet(A) /\ IsFiniteSet(B)
  <2>1. A \subseteq 1..m /\ B \subseteq 1..n
    OBVIOUS
  <2>. QED BY <1>4, <2>1, FS_Subset
<1>6. ExistsBijection(B, C)
  <2>1. [i \in B |-> i + m] \in Bijection(B, C)
    <3>1. ASSUME NEW i \in B, NEW k \in B, i + m = k + m PROVE i = k
      BY <1>1, <3>1
    <3>. QED BY <3>1 DEF Bijection, Injection, Surjection, IsInjective
  <2>. QED BY <2>1 DEF ExistsBijection
<1>7. IsFiniteSet(C) /\ Cardinality(C) = Cardinality(B)
  BY <1>5, <1>6, FS_Bijection
<1>8. {i \in 1..(m + n) : c[i] \in S} = A \cup C
  <2>1. ASSUME NEW i \in 1..(m + n), c[i] \in S PROVE i \in A \cup C
    <3>1. CASE i <= m
      BY <1>1, <1>3, <2>1, <3>1
    <3>2. CASE ~(i <= m)
      <4>1. i - m \in 1..n /\ (i - m) + m = i /\ c[i] = b[i - m]
        BY <1>1, <1>3, <3>2
      <4>. QED BY <2>1, <4>1
    <3>. QED BY <3>1, <3>2
  <2>2. ASSUME NEW i \in A PROVE i \in 1..(m + n) /\ c[i] \in S
    BY <1>1, <1>3
  <2>3. ASSUME NEW i \in B PROVE i + m \in 1..(m + n) /\ c[i + m] \in S
    <3>1. i + m \in 1..(m + n) /\ (i + m) - m = i /\ ~(i + m <= m)
      BY <1>1
    <3>. QED BY <1>3, <3>1
  <2>. QED BY <2>1, <2>2, <2>3
<1>9. A \cap C = {}
  BY <1>1
<1> HIDE DEF A, B, C
<1>10. Cardinality(A \cup C) = Cardinality(A) + Cardinality(C) - Cardinality({})
  BY <1>5, <1>7, <1>9, FS_Union
<1>11. Cardinality({}) = 0 /\ Cardinality(A) \in Nat /\ Cardinality(B) \in Nat
  BY <1>5, FS_EmptySet, FS_CardinalityType
<1>12. CountIn(a, S) = Cardinality(A) /\ CountIn(b, S) = Cardinality(B)
  BY <1>1 DEF CountIn, A, B
<1>13. CountIn(c, S) = Cardinality(A \cup C)
  BY <1>3, <1>8 DEF CountIn
<1>. QED BY <1>2, <1>7, <1>10, <1>11, <1>12, <1>13

-----------------------------------------------------------------------------
(* What the courses of a request offer                                     *)

Increasing(seq) == \A i, k \in DOMAIN seq : i < k => seq[i] < seq[k]
Enumerable(S) == \E seq \in [1..Cardinality(S) -> S] : Increasing(seq)

LEMMA EnumerationExists ==
    ASSUME NEW n \in Nat, NEW S \in SUBSET (1..n) PROVE Enumerable(S)
<1> DEFINE I == {m \in Nat : \A T \in SUBSET (1..m) : Enumerable(T)}
<1>1. 0 \in I
  <2>1. \A T \in SUBSET (1..0) : T = {}
    OBVIOUS
  <2>2. Cardinality({}) = 0
    BY FS_EmptySet
  <2>3. [i \in 1..0 |-> 0] \in [1..0 -> {}] /\ Increasing([i \in 1..0 |-> 0])
    BY DEF Increasing
  <2>. QED BY <2>1, <2>2, <2>3 DEF Enumerable
<1>2. ASSUME NEW m \in Nat, m \in I PROVE m + 1 \in I
  <2> SUFFICES ASSUME NEW T \in SUBSET (1..(m + 1)) PROVE Enumerable(T)
    OBVIOUS
  <2>1. CASE m + 1 \notin T
    <3>1. T \in SUBSET (1..m)
      BY <2>1
    <3>. QED BY <1>2, <3>1
  <2>2. CASE m + 1 \in T
    <3> DEFINE R == T \ {m + 1}
    <3>1. R \in SUBSET (1..m)
      OBVIOUS
    <3>2. IsFiniteSet(R)
      <4>1. IsFiniteSet(1..m)
        BY FS_Interval
      <4>. QED BY <3>1, <4>1, FS_Subset
    <3>3. Cardinality(R) \in Nat /\ Cardinality(R \cup {m + 1}) = Cardinality(R) + 1
      BY <3>2, FS_AddElement, FS_CardinalityType
    <3>4. T = R \cup {m + 1}
      BY <2>2
    <3>5. PICK seq \in [1..Cardinality(R) -> R] : Increasing(seq)
      BY <1>2, <3>1 DEF Enumerable
    <3> HIDE DEF R
    <3>6. PICK c \in Nat : c = Cardinality(R)
      BY <3>3
    <3> DEFINE more == [i \in 1..(c + 1) |-> IF i = c + 1 THEN m + 1 ELSE seq[i]]
    <3>7. more \in [1..(c + 1) -> T]
      BY <3>4, <3>5, <3>6
    <3>8. ASSUME NEW i \in 1..(c + 1), NEW k \in 1..(c + 1), i < k PROVE more[i] < more[k]
      <4>1. i \in 1..c /\ more[i] = seq[i] /\ seq[i] \in 1..m
        <5>1. i \in 1..c
          BY <3>8
        <5>2. seq \in [1..c -> R]
          BY <3>5, <3>6
        <5>3. seq[i] \in 1..m
          BY <3>1, <5>1, <5>2
        <5>. QED BY <5>1, <5>3
      <4>2. CASE k = c + 1
        BY <4>1, <4>2
      <4>3. CASE k # c + 1
        <5>1. k \in 1..c /\ more[k] = seq[k]
          BY <4>3
        <5>. QED BY <3>5, <3>6, <3>8, <4>1, <5>1 DEF Increasing
      <4>. QED BY <4>2, <4>3
    <3>9. Increasing(more)
      BY <3>8 DEF Increasing
    <3>10. Cardinality(T) = c + 1
      BY <3>3, <3>4, <3>6
    <3> HIDE DEF more
    <3>. QED BY <3>7, <3>9, <3>10 DEF Enumerable
  <2>. QED BY <2>1, <2>2
<1> HIDE DEF I
<1>3. n \in I
  BY <1>1, <1>2, SetInduction
<1>. QED BY <1>3 DEF I

LEMMA OrderedType ==
    ASSUME NEW n \in Nat, NEW S \in SUBSET (1..n) PROVE ordered(S) \in Seq(S)
<1>1. \E seq \in [1..Cardinality(S) -> S] : \A i, k \in DOMAIN seq : i < k => seq[i] < seq[k]
  BY EnumerationExists DEF Enumerable, Increasing
<1>2. ordered(S) \in [1..Cardinality(S) -> S]
  BY <1>1 DEF ordered
<1>3. Cardinality(S) \in Nat
  <2>1. IsFiniteSet(1..n)
    BY FS_Interval
  <2>. QED BY <2>1, FS_Subset, FS_CardinalityType
<1>. QED BY <1>2, <1>3

LEMMA SetToSeqType ==
    ASSUME NEW S, IsFiniteSet(S)
    PROVE  SetToSeq(S) \in Seq(S) /\ (SetToSeq(S) = <<>> => S = {})
<1>1. Cardinality(S) \in Nat /\ ExistsBijection(1..Cardinality(S), S)
  BY FS_CardinalityType
<1>2. \E f \in [1..Cardinality(S) -> S] : IsInjective(f)
  BY <1>1 DEF ExistsBijection, Bijection, Injection
<1>3. SetToSeq(S) \in [1..Cardinality(S) -> S]
  BY <1>2 DEF SetToSeq
<1>4. SetToSeq(S) = <<>> => Cardinality(S) = 0
  BY <1>1, <1>3
<1>. QED BY <1>1, <1>3, <1>4, FS_EmptySet

LEMMA EvaluatedType ==
    ASSUME NEW S, NEW seq \in Seq(S) PROVE evaluated(seq) = seq
BY DEF evaluated

\* The times of all members are numbers.
Timed(S) == \A c \in S : c.start \in Nat /\ c.end \in Nat

LEMMA SectionOffers ==
    ASSUME NEW section, IsFiniteSet(section), section # {}, Timed(section),
           NEW cs \in sectionConfigurations(section)
    PROVE  \E S : Timed(S) /\ cs \in Seq(S) /\ cs # <<>>
<1> DEFINE all == getScheduleComponents(section)
           lec == {c \in all : c.type = "LEC"}
           types == {c.type : c \in all \ lec}
<1>1. IsFiniteSet(all)
  <2>1. [c \in section |-> scheduleComponent(section, c)] \in Surjection(section, all)
    BY DEF getScheduleComponents, Surjection
  <2>. QED BY <2>1, FS_Surjection
<1>2. Timed(all)
  BY DEF Timed, getScheduleComponents, scheduleComponent
<1>3. all # {}
  BY DEF getScheduleComponents
<1>4. PICK p \in [types -> all] : cs = SetToSeq({p[t] : t \in types}) \o SetToSeq(lec)
  BY DEF sectionConfigurations
<1> DEFINE picked == {p[t] : t \in types}
<1>5. picked \subseteq all /\ lec \subseteq all
  BY <1>4
<1>6. IsFiniteSet(picked) /\ IsFiniteSet(lec)
  BY <1>1, <1>5, FS_Subset
<1>7. picked # {} \/ lec # {}
  <2>1. PICK c \in all : TRUE
    BY <1>3
  <2>2. c \notin lec => p[c.type] \in picked
    OBVIOUS
  <2>. QED BY <2>2
<1> HIDE DEF all, lec, picked
<1>8. PICK a \in Seq(picked), b \in Seq(lec) : a = SetToSeq(picked) /\ b = SetToSeq(lec)
  BY <1>6, SetToSeqType
<1>9. a \in Seq(all) /\ b \in Seq(all)
  BY <1>5, <1>8
<1>10. a # <<>> \/ b # <<>>
  BY <1>6, <1>7, <1>8, SetToSeqType
<1>11. cs = a \o b
  BY <1>4, <1>8 DEF picked, lec
<1>12. a \o b \in Seq(all) /\ a \o b # <<>>
  BY <1>9, <1>10, Concat
<1>. QED BY <1>2, <1>11, <1>12

\* Sections in order, with numbers for times.
Offered(course) ==
    /\ DOMAIN course.sections \subseteq Nat /\ IsFiniteSet(DOMAIN course.sections)
    /\ \A i \in DOMAIN course.sections :
          IsFiniteSet(course.sections[i]) /\ Timed(course.sections[i])

LEMMA CourseOffers ==
    ASSUME NEW course, Offered(course), NEW cs \in getConfigurations(course)
    PROVE  \E S : Timed(S) /\ cs \in Seq(S) /\ cs # <<>>
<1>1. PICK i \in DOMAIN course.sections :
        /\ cs \in sectionConfigurations(course.sections[i])
        /\ \A e \in DOMAIN course.sections : course.sections[e] = {} => i < e
  BY DEF getConfigurations
<1>2. course.sections[i] # {}
  <2>1. i \in Nat /\ ~(i < i)
    BY DEF Offered
  <2>. QED BY <1>1, <2>1
<1>3. IsFiniteSet(course.sections[i]) /\ Timed(course.sections[i])
  BY DEF Offered
<1>. QED BY <1>1, <1>2, <1>3, SectionOffers

\* The sections asked for, of those that there are.
LEMMA WantedAre ==
    ASSUME RequestsAssumption, NEW timetable \in {OldCatalogue, NewCatalogue},
           NEW meta, meta.id \in DOMAIN OldCatalogue
    PROVE  ordered(meta.sections \cap DOMAIN timetable[meta.id])
              \in Seq(meta.sections \cap DOMAIN timetable[meta.id])
<1>1. meta.id \in DOMAIN timetable
  BY DEF RequestsAssumption
<1>2. PICK n \in Nat : DOMAIN timetable[meta.id] = 1..n
  BY <1>1 DEF RequestsAssumption
<1>3. PICK S : S = meta.sections \cap DOMAIN timetable[meta.id]
  OBVIOUS
<1>4. S \subseteq 1..n
  BY <1>2, <1>3
<1>5. ordered(S) \in Seq(S)
  BY ONLY n \in Nat, <1>4, OrderedType
<1>. QED BY <1>3, <1>5

LEMMA CourseFrom ==
    ASSUME RequestsAssumption, NEW timetable \in {OldCatalogue, NewCatalogue},
           NEW meta, meta.id \in DOMAIN OldCatalogue
    PROVE  Offered(courseFrom(timetable, meta))
<1> DEFINE all == timetable[meta.id]
           wanted == ordered(meta.sections \cap DOMAIN all)
           list == [k \in DOMAIN wanted |-> parsed(all[wanted[k]])]
<1>1. meta.id \in DOMAIN timetable
  BY DEF RequestsAssumption
<1>2. /\ DOMAIN all = 1..Len(all) /\ Len(all) \in Nat
      /\ \A i \in DOMAIN all : IsFiniteSet(all[i]) /\ Timed(all[i])
  BY <1>1 DEF RequestsAssumption, Timed
<1>3. wanted \in Seq(meta.sections \cap DOMAIN all)
  BY WantedAre
<1> HIDE DEF all, wanted
<1>4. ASSUME NEW k \in DOMAIN wanted PROVE IsFiniteSet(list[k]) /\ Timed(list[k])
  <2>1. wanted[k] \in DOMAIN all
    BY <1>3
  <2>2. IsFiniteSet(all[wanted[k]]) /\ Timed(all[wanted[k]])
    BY <1>2, <2>1
  <2>3. parsed(all[wanted[k]]) \subseteq all[wanted[k]]
    BY DEF parsed
  <2>4. IsFiniteSet(parsed(all[wanted[k]]))
    BY <2>2, <2>3, FS_Subset
  <2>. QED BY <2>2, <2>3, <2>4 DEF Timed
<1>5. DOMAIN list = DOMAIN wanted /\ DOMAIN wanted = 1..Len(wanted) /\ Len(wanted) \in Nat
  BY <1>3
<1>6. evaluated(list) = list
  <2>1. list \in Seq({list[k] : k \in DOMAIN wanted})
    BY <1>5
  <2>. QED BY <2>1, EvaluatedType
<1>7. courseFrom(timetable, meta).sections = list
  BY <1>6 DEF courseFrom, all, wanted
<1>8. IsFiniteSet(DOMAIN list)
  <2>1. PICK n \in Nat : DOMAIN list = 1..n
    BY <1>5
  <2>2. IsFiniteSet(1..n)
    BY ONLY n \in Nat, FS_Interval
  <2>. QED BY <2>1, <2>2
<1>. QED BY <1>4, <1>5, <1>7, <1>8 DEF Offered

\* Every configuration of a course is a sequence of components, and not empty.
Offers(list, S) ==
    \A i \in DOMAIN list : \A cs \in getConfigurations(list[i]) : cs \in Seq(S) /\ cs # <<>>

\* All the components that are offered.
Pieces == UNION {UNION {ToSet(cs) : cs \in getConfigurations(courses[i])} : i \in DOMAIN courses}

CoursesInv ==
    /\ DOMAIN courses = 1..Len(courses) /\ Len(courses) \in Nat
    /\ Offers(courses, Pieces)
    /\ Timed(Pieces)

LEMMA RequestedOffers ==
    ASSUME RequestsAssumption, asked \in Requests, catalogue \in {OldCatalogue, NewCatalogue},
           NEW gone
    PROVE  /\ getCourses(asked, gone) \in Seq({c \in ToSet(getCourses(asked, gone)) : Offered(c)})
<1> DEFINE kept == ordered({i \in DOMAIN asked : asked[i].id \notin gone})
           list == [k \in DOMAIN kept |-> dataToCourse(asked[kept[k]])]
<1>1. /\ DOMAIN asked = 1..Len(asked) /\ Len(asked) \in Nat
      /\ \A i \in DOMAIN asked : asked[i].id \in DOMAIN OldCatalogue
  BY DEF RequestsAssumption
<1>2. kept \in Seq({i \in DOMAIN asked : asked[i].id \notin gone})
  BY <1>1, OrderedType
<1> HIDE DEF kept
<1>3. DOMAIN list = DOMAIN kept /\ DOMAIN kept = 1..Len(kept) /\ Len(kept) \in Nat
  BY <1>2
<1>4. ASSUME NEW k \in DOMAIN kept PROVE Offered(list[k])
  <2>1. kept[k] \in DOMAIN asked
    BY <1>2
  <2>2. PICK meta : meta = asked[kept[k]]
    OBVIOUS
  <2>3. meta.id \in DOMAIN OldCatalogue
    BY <1>1, <2>1, <2>2
  <2>4. Offered(courseFrom(catalogue, meta))
    BY <2>3, CourseFrom
  <2>. QED BY <2>2, <2>4 DEF dataToCourse
<1>5. evaluated(list) = list
  <2>1. list \in Seq({list[k] : k \in DOMAIN kept})
    BY <1>3
  <2>. QED BY <2>1, EvaluatedType
<1>6. getCourses(asked, gone) = list
  BY <1>5 DEF getCourses, kept
<1>9. ASSUME NEW S, \A k \in DOMAIN kept : list[k] \in S PROVE list \in Seq(S)
  BY <1>3, <1>9
<1> HIDE DEF list
<1>7. \A k \in DOMAIN list : list[k] \in ToSet(list)
  BY DEF ToSet
<1>8. list \in Seq({c \in ToSet(list) : Offered(c)})
  BY <1>3, <1>4, <1>7, <1>9
<1>. QED BY <1>6, <1>8

LEMMA SortedOffers ==
    ASSUME NEW cs, cs \in Seq({c \in ToSet(cs) : Offered(c)}), courses \in sortedCourses(cs)
    PROVE  CoursesInv
<1> DEFINE kept == {i \in DOMAIN cs : getConfigurationCount(cs[i]) # 0}
<1>1. PICK order \in [1..Cardinality(kept) -> kept] :
        courses = [p \in DOMAIN order |-> cs[order[p]]]
  BY DEF sortedCourses
<1>2. DOMAIN cs = 1..Len(cs) /\ Len(cs) \in Nat /\ \A i \in DOMAIN cs : Offered(cs[i])
  OBVIOUS
<1>3. Cardinality(kept) \in Nat
  <2>1. kept \subseteq 1..Len(cs) /\ IsFiniteSet(1..Len(cs))
    BY <1>2, FS_Interval
  <2>. QED BY <2>1, FS_Subset, FS_CardinalityType
<1>4. DOMAIN courses = 1..Len(courses) /\ Len(courses) \in Nat
  BY <1>1, <1>3
<1>5. \A i \in DOMAIN courses : Offered(courses[i])
  BY <1>1, <1>2
<1>6. ASSUME NEW i \in DOMAIN courses, NEW c \in getConfigurations(courses[i])
      PROVE  /\ c \in Seq(Pieces) /\ c # <<>>
             /\ \A k \in DOMAIN c : c[k].start \in Nat /\ c[k].end \in Nat
  <2>1. PICK S : Timed(S) /\ c \in Seq(S) /\ c # <<>>
    BY <1>5, CourseOffers
  <2>2. \A k \in DOMAIN c : c[k] \in ToSet(c)
    BY DEF ToSet
  <2>3. ToSet(c) \subseteq Pieces
    BY DEF Pieces
  <2>4. DOMAIN c = 1..Len(c) /\ Len(c) \in Nat
    BY <2>1
  <2>5. \A k \in DOMAIN c : c[k] \in Pieces
    BY <2>2, <2>3
  <2>6. c \in Seq(Pieces)
    BY <2>1, <2>4, <2>5
  <2>7. \A k \in DOMAIN c : c[k] \in S
    BY <2>1
  <2>. QED BY <2>1, <2>6, <2>7 DEF Timed
<1>7. Offers(courses, Pieces)
  BY <1>6 DEF Offers
<1>8. Timed(Pieces)
  <2> SUFFICES ASSUME NEW x \in Pieces PROVE x.start \in Nat /\ x.end \in Nat
    BY DEF Timed
  <2>1. PICK i \in DOMAIN courses : \E c \in getConfigurations(courses[i]) : x \in ToSet(c)
    BY DEF Pieces
  <2>2. PICK c \in getConfigurations(courses[i]) : \E k \in DOMAIN c : x = c[k]
    BY <2>1 DEF ToSet
  <2>. QED BY <1>6, <2>2
<1>. QED BY <1>4, <1>7, <1>8 DEF CoursesInv

-----------------------------------------------------------------------------
(* The break filter                                                        *)

LEMMA FirstVisited ==
    ASSUME NEW S, Timed(S), NEW cs \in Seq(S), NEW T \in SUBSET DOMAIN cs, T # {}
    PROVE  \E i \in T : visitedBefore(cs, T, i) = {}
<1>1. \A i \in T : i \in Nat /\ cs[i].start \in Nat
  BY DEF Timed
<1> DEFINE starts == {cs[i].start : i \in T}
<1>2. PICK m \in starts : \A n \in starts : m <= n
  <2>1. starts \in SUBSET Nat /\ starts # {}
    BY <1>1
  <2>. QED BY <2>1, LeastNumber
<1> DEFINE earliest == {i \in T : cs[i].start = m}
<1>3. PICK i \in earliest : \A k \in earliest : i <= k
  BY <1>1, LeastNumber
<1>4. ASSUME NEW k \in T PROVE ~(cs[k].start < cs[i].start \/ (cs[k].start = cs[i].start /\ k < i))
  <2>1. m <= cs[k].start /\ cs[i].start = m /\ m \in Nat /\ k \in Nat /\ i \in Nat
    BY <1>1, <1>2, <1>3
  <2>2. cs[k].start = m => i <= k
    BY <1>3
  <2>. QED BY <1>1, <2>1, <2>2
<1>. QED BY <1>3, <1>4 DEF visitedBefore

LEMMA LastVisited ==
    ASSUME NEW S, Timed(S), NEW cs \in Seq(S), NEW T \in SUBSET DOMAIN cs, T # {},
           NEW b \in Nat, \A i \in T : cs[i].start <= b
    PROVE  \E k : isLast(cs, T, k)
<1>1. \A i \in T : i \in Nat /\ i <= Len(cs) /\ cs[i].start \in Nat
  BY DEF Timed
<1> DEFINE rest == {b - cs[i].start : i \in T}
<1>2. PICK m \in rest : \A n \in rest : m <= n
  <2>1. rest \in SUBSET Nat /\ rest # {}
    BY <1>1
  <2>. QED BY <2>1, LeastNumber
<1> DEFINE latest == {Len(cs) - i : i \in {i \in T : b - cs[i].start = m}}
<1>3. PICK n \in latest : \A k \in latest : n <= k
  <2>1. latest \in SUBSET Nat /\ latest # {}
    BY <1>1
  <2>. QED BY <2>1, LeastNumber
<1>4. PICK k \in T : b - cs[k].start = m /\ Len(cs) - k = n
  OBVIOUS
<1>5. ASSUME NEW i \in T
      PROVE  cs[i].start < cs[k].start \/ (cs[i].start = cs[k].start /\ i < k) \/ i = k
  <2>1. m <= b - cs[i].start
    BY <1>2
  <2>2. b - cs[i].start = m => n <= Len(cs) - i
    BY <1>3
  <2>3. i \in Nat /\ k \in Nat /\ cs[i].start \in Nat /\ cs[k].start \in Nat /\ Len(cs) \in Nat
    BY <1>1
  <2>4. PICK x \in Nat, y \in Nat, z \in Nat : x = cs[i].start /\ y = cs[k].start /\ z = Len(cs)
    BY <2>3
  <2>5. b - y <= b - x /\ (b - x = b - y => z - k <= z - i)
    BY <1>4, <2>1, <2>2, <2>4
  <2>6. x < y \/ (x = y /\ i < k) \/ i = k
    BY <2>3, <2>5
  <2>. QED BY <2>4, <2>6
<1>. QED BY <1>5 DEF isLast, visitedBefore

IsBreak(brk) == brk.start \in Nat /\ brk.end \in Nat /\ brk.size \in Nat

\* Where there is a free period, the filter finds it.
LEMMA BreakFound ==
    ASSUME NEW S, Timed(S), NEW cs \in Seq(S), NEW day, NEW brk, IsBreak(brk),
           hasBreak(cs, day, brk)
    PROVE  breakOnDay(cs, day, brk)
<1> DEFINE range == inRange(cs, day, brk)
<1>1. CASE range = {}
  BY <1>1 DEF breakOnDay
<1>2. CASE range # {}
  <2>1. PICK t \in brk.start..(brk.end - brk.size) :
          \A i \in DOMAIN cs : cs[i].day = day => cs[i].end <= t \/ cs[i].start >= t + brk.size
    BY <1>2 DEF hasBreak
  <2>2. t \in Int /\ brk.start <= t /\ t + brk.size <= brk.end
    BY DEF IsBreak
  <2>3. \A i \in range : /\ i \in DOMAIN cs /\ cs[i].start \in Nat /\ cs[i].end \in Nat
                         /\ cs[i].start <= brk.end
                         /\ cs[i].end <= t \/ cs[i].start >= t + brk.size
    <3>1. \A i \in DOMAIN cs : cs[i].start \in Nat /\ cs[i].end \in Nat
      BY DEF Timed
    <3>. QED BY <2>1, <3>1 DEF inRange, IsBreak
  <2> DEFINE later == {i \in range : cs[i].start >= t + brk.size}
  <2>4. brk.start \in Nat /\ brk.end \in Nat /\ brk.size \in Nat
    BY DEF IsBreak
  <2>5. CASE later = {}
    <3>1. PICK k : isLast(cs, range, k)
      BY <1>2, <2>3, <2>4, LastVisited
    <3>2. k \in range /\ cs[k].end <= t /\ cs[k].end \in Nat
      BY <2>3, <2>5, <3>1 DEF isLast
    <3>3. brk.end - cs[k].end >= brk.size
      BY <2>2, <2>4, <3>2
    <3>. QED BY <3>1, <3>2, <3>3 DEF breakOnDay
  <2>6. CASE later # {}
    <3>1. PICK i \in later : visitedBefore(cs, later, i) = {}
      BY <2>3, <2>6, FirstVisited
    <3> DEFINE before == visitedBefore(cs, range, i)
    <3>2. before \subseteq range /\ before \cap later = {}
      BY <3>1 DEF visitedBefore
    <3>3. cs[i].start >= t + brk.size /\ cs[i].start \in Nat /\ i \in range
      BY <2>3
    <3>4. CASE before = {}
      <4>1. cs[i].start - brk.start >= brk.size
        BY <2>2, <2>4, <3>3
      <4>. QED BY <3>3, <3>4, <4>1 DEF breakOnDay
    <3>5. CASE before # {}
      <4>1. PICK k : isLast(cs, before, k)
        BY <2>3, <2>4, <3>2, <3>5, LastVisited
      <4>2. k \in range /\ k \notin later
        BY <3>2, <4>1 DEF isLast
      <4>3. cs[k].end <= t /\ cs[k].end \in Nat
        BY <2>3, <4>2
      <4>4. cs[i].start - cs[k].end >= brk.size
        BY <2>2, <2>4, <3>3, <4>3
      <4>. QED BY <3>3, <4>1, <4>2, <4>4 DEF breakOnDay
    <3>. QED BY <3>4, <3>5
  <2>. QED BY <2>5, <2>6
<1>. QED BY <1>1, <1>2

\* The components of one day follow each other and take time.
InARow(cs) ==
    /\ \A i \in DOMAIN cs : cs[i].start < cs[i].end
    /\ \A i, k \in DOMAIN cs : i # k /\ cs[i].day = cs[k].day => ~hasTimeOverlap(cs[i], cs[k])

\* What the filter takes for a free period is one, if components do not overlap.
LEMMA BreakMeant ==
    ASSUME NEW S, Timed(S), NEW cs \in Seq(S), NEW day, NEW brk, IsBreak(brk), InARow(cs),
           breakOnDay(cs, day, brk)
    PROVE  hasBreak(cs, day, brk)
<1> DEFINE range == inRange(cs, day, brk)
           Free(t) == \A j \in DOMAIN cs :
                        cs[j].day = day => cs[j].end <= t \/ cs[j].start >= t + brk.size
<1>1. \A i \in DOMAIN cs : cs[i].start \in Nat /\ cs[i].end \in Nat /\ cs[i].start < cs[i].end
  BY DEF Timed, InARow
<1>2. brk.start \in Nat /\ brk.end \in Nat /\ brk.size \in Nat
  BY DEF IsBreak
<1>3. \A i \in range : i \in DOMAIN cs /\ cs[i].day = day /\ cs[i].end > brk.start /\ cs[i].start < brk.end
  BY DEF inRange
<1>4. \A i \in DOMAIN cs : cs[i].day = day /\ i \notin range => cs[i].end <= brk.start \/ cs[i].start >= brk.end
  BY <1>1, <1>2 DEF inRange
<1>5. \A T, j, k : isLast(cs, T, k) /\ T \subseteq range /\ j \in T => cs[j].end <= cs[k].end
  <2> SUFFICES ASSUME NEW T, NEW j, NEW k, isLast(cs, T, k), T \subseteq range, j \in T, j # k
               PROVE  cs[j].end <= cs[k].end
    BY <1>1, <1>3 DEF isLast
  <2>1. j \in range /\ k \in range /\ cs[j].start <= cs[k].start
    BY <1>1, <1>3 DEF isLast, visitedBefore
  <2>2. ~hasTimeOverlap(cs[j], cs[k])
    BY <1>3, <2>1 DEF InARow
  <2>. QED BY <1>1, <1>3, <2>1, <2>2 DEF hasTimeOverlap
<1>6. ASSUME NEW t \in Nat, brk.start <= t, t + brk.size <= brk.end, Free(t) PROVE hasBreak(cs, day, brk)
  <2>1. t \in brk.start..(brk.end - brk.size)
    BY <1>2, <1>6
  <2>. QED BY <1>6, <2>1 DEF hasBreak
<1>7. CASE range = {}
  BY <1>7 DEF hasBreak
<1>8. ASSUME NEW i \in range, visitedBefore(cs, range, i) = {}, cs[i].start - brk.start >= brk.size
      PROVE  hasBreak(cs, day, brk)
  <2>1. \A j \in range : cs[j].start >= cs[i].start
    BY <1>1, <1>3, <1>8 DEF visitedBefore
  <2>2. brk.start + brk.size <= cs[i].start /\ cs[i].start < brk.end /\ cs[i].start \in Nat
    BY <1>1, <1>2, <1>3, <1>8
  <2>3. ASSUME NEW j \in DOMAIN cs, cs[j].day = day
        PROVE  cs[j].end <= brk.start \/ cs[j].start >= brk.start + brk.size
    <3>1. CASE j \in range
      <4>1. cs[j].start >= cs[i].start /\ cs[j].start \in Nat
        BY <1>1, <2>1, <3>1
      <4>. QED BY <1>2, <2>2, <4>1
    <3>2. CASE j \notin range
      <4>1. cs[j].start \in Nat /\ (cs[j].end <= brk.start \/ cs[j].start >= brk.end)
        BY <1>1, <1>4, <2>3, <3>2
      <4>. QED BY <1>2, <2>2, <4>1
    <3>. QED BY <3>1, <3>2
  <2>. QED BY <1>2, <1>6, <2>2, <2>3
<1>9. ASSUME NEW i \in range, NEW k \in range, isLast(cs, visitedBefore(cs, range, i), k),
             cs[i].start - cs[k].end >= brk.size
      PROVE  hasBreak(cs, day, brk)
  <2>1. \A j \in range : j \in visitedBefore(cs, range, i) => cs[j].end <= cs[k].end
    <3>1. visitedBefore(cs, range, i) \subseteq range
      BY DEF visitedBefore
    <3>. QED BY <1>5, <1>9, <3>1
  <2>2. \A j \in range : j \notin visitedBefore(cs, range, i) => cs[j].start >= cs[i].start
    BY <1>1, <1>3 DEF visitedBefore
  <2>3. PICK t \in Nat : t = cs[k].end
    BY <1>1, <1>3
  <2>4. t + brk.size <= cs[i].start /\ cs[i].start < brk.end /\ cs[i].start \in Nat /\ brk.start < t
    BY <1>1, <1>2, <1>3, <1>9, <2>3
  <2>5. ASSUME NEW j \in DOMAIN cs, cs[j].day = day
        PROVE  cs[j].end <= t \/ cs[j].start >= t + brk.size
    <3>1. cs[j].start \in Nat /\ cs[j].end \in Nat
      BY <1>1
    <3>2. CASE j \in visitedBefore(cs, range, i)
      <4>1. j \in range
        BY <3>2 DEF visitedBefore
      <4>. QED BY <2>1, <2>3, <3>2, <4>1
    <3>3. CASE j \in range /\ j \notin visitedBefore(cs, range, i)
      <4>1. cs[j].start >= cs[i].start
        BY <2>2, <3>3
      <4>. QED BY <1>2, <2>4, <3>1, <4>1
    <3>4. CASE j \notin range
      <4>1. cs[j].end <= brk.start \/ cs[j].start >= brk.end
        BY <1>4, <2>5, <3>4
      <4>. QED BY SMTT(30), <1>2, <2>4, <3>1, <4>1
    <3>. QED BY <3>2, <3>3, <3>4
  <2>6. brk.start <= t /\ t + brk.size <= brk.end
    BY <1>2, <2>4
  <2>. QED BY <1>6, <2>5, <2>6
<1>10. ASSUME NEW k \in range, isLast(cs, range, k), brk.end - cs[k].end >= brk.size
      PROVE  hasBreak(cs, day, brk)
  <2>1. \A j \in range : cs[j].end <= cs[k].end
    BY <1>5, <1>10
  <2>2. PICK t \in Nat : t = cs[k].end
    BY <1>1, <1>3
  <2>3. t + brk.size <= brk.end /\ brk.start < t
    BY <1>1, <1>2, <1>3, <1>10, <2>2
  <2>4. ASSUME NEW j \in DOMAIN cs, cs[j].day = day
        PROVE  cs[j].end <= t \/ cs[j].start >= t + brk.size
    <3>1. cs[j].start \in Nat /\ cs[j].end \in Nat
      BY <1>1
    <3>2. CASE j \in range
      BY <2>1, <2>2, <3>2
    <3>3. CASE j \notin range
      <4>1. cs[j].end <= brk.start \/ cs[j].start >= brk.end
        BY <1>4, <2>4, <3>3
      <4>. QED BY <1>2, <2>3, <3>1, <4>1
    <3>. QED BY <3>2, <3>3
  <2>. QED BY <1>2, <1>6, <2>3, <2>4
<1>. QED BY <1>7, <1>8, <1>9, <1>10 DEF breakOnDay

-----------------------------------------------------------------------------
(* The filters, as components are added                                    *)

IsFilter(f) ==
    /\ f.before \in Nat \cup {NoTime} /\ f.after \in Nat \cup {NoTime}
    /\ \A brk \in f.breaks : IsBreak(brk)

LEMMA BeforeConcat ==
    ASSUME NEW S, NEW f, NEW a \in Seq(S), NEW b \in Seq(S)
    PROVE  /\ beforeStart(a, f) \in Nat /\ beforeStart(b, f) \in Nat
           /\ beforeStart(a \o b, f) = beforeStart(a, f) + beforeStart(b, f)
<1> DEFINE Early == {c \in S : f.before # NoTime /\ f.before > c.start}
<1>1. \A cs \in Seq(S) : beforeStart(cs, f) = CountIn(cs, Early)
  <2> TAKE cs \in Seq(S)
  <2>1. \A i \in DOMAIN cs : cs[i] \in S
    OBVIOUS
  <2>2. {i \in DOMAIN cs : cs[i] \in Early} = {i \in DOMAIN cs : f.before # NoTime /\ f.before > cs[i].start}
    BY <2>1
  <2>. QED BY <2>2 DEF beforeStart, CountIn
<1>2. a \o b \in Seq(S)
  BY Concat
<1> HIDE DEF Early
<1>3. /\ CountIn(a, Early) \in Nat /\ CountIn(b, Early) \in Nat
      /\ CountIn(a \o b, Early) = CountIn(a, Early) + CountIn(b, Early)
  BY CountConcat
<1>. QED BY <1>1, <1>2, <1>3

LEMMA AfterConcat ==
    ASSUME NEW S, NEW f, NEW a \in Seq(S), NEW b \in Seq(S)
    PROVE  /\ afterEnd(a, f) \in Nat /\ afterEnd(b, f) \in Nat
           /\ afterEnd(a \o b, f) = afterEnd(a, f) + afterEnd(b, f)
<1> DEFINE Late == {c \in S : f.after # NoTime /\ f.after < c.end}
<1>1. \A cs \in Seq(S) : afterEnd(cs, f) = CountIn(cs, Late)
  <2> TAKE cs \in Seq(S)
  <2>1. \A i \in DOMAIN cs : cs[i] \in S
    OBVIOUS
  <2>2. {i \in DOMAIN cs : cs[i] \in Late} = {i \in DOMAIN cs : f.after # NoTime /\ f.after < cs[i].end}
    BY <2>1
  <2>. QED BY <2>2 DEF afterEnd, CountIn
<1>2. a \o b \in Seq(S)
  BY Concat
<1> HIDE DEF Late
<1>3. /\ CountIn(a, Late) \in Nat /\ CountIn(b, Late) \in Nat
      /\ CountIn(a \o b, Late) = CountIn(a, Late) + CountIn(b, Late)
  BY CountConcat
<1>. QED BY <1>1, <1>2, <1>3

Open(cs, f) == \A i \in DOMAIN cs : f.allow_closed \/ ~cs[i].all_are_closed
Free(cs, f) == \A i, k \in DOMAIN cs : i # k => ~conflict(cs[i], cs[k], f)

LEMMA ConflictSymmetric ==
    ASSUME NEW S, Timed(S), NEW c \in S, NEW d \in S, NEW f, conflict(c, d, f)
    PROVE  conflict(d, c, f)
BY DEF conflict, hasTimeOverlap, Timed

\* Where the members of a longer sequence come from.
LEMMA ConcatMembers ==
    ASSUME NEW S, NEW a \in Seq(S), NEW b \in Seq(S)
    PROVE  /\ DOMAIN a = 1..Len(a) /\ Len(a) \in Nat /\ DOMAIN b = 1..Len(b) /\ Len(b) \in Nat
           /\ DOMAIN (a \o b) = 1..(Len(a) + Len(b))
           /\ \A i \in DOMAIN a : i \in DOMAIN (a \o b) /\ (a \o b)[i] = a[i]
           /\ \A i \in DOMAIN b : Len(a) + i \in DOMAIN (a \o b) /\ (a \o b)[Len(a) + i] = b[i]
           /\ \A i \in DOMAIN (a \o b) : i \in DOMAIN a \/ i - Len(a) \in DOMAIN b
<1>1. DOMAIN a = 1..Len(a) /\ Len(a) \in Nat /\ DOMAIN b = 1..Len(b) /\ Len(b) \in Nat
  OBVIOUS
<1>2. PICK c \in Seq(S) : c = a \o b
  BY Concat
<1>3. DOMAIN c = 1..(Len(a) + Len(b)) /\ \A i \in 1..(Len(a) + Len(b)) : c[i] = IF i <= Len(a) THEN a[i] ELSE b[i - Len(a)]
  BY <1>1, <1>2, ConcatProperties
<1>4. \A i \in DOMAIN a : i \in DOMAIN c /\ c[i] = a[i]
  BY <1>1, <1>3
<1>5. ASSUME NEW i \in DOMAIN b PROVE Len(a) + i \in DOMAIN c /\ c[Len(a) + i] = b[i]
  <2>1. i \in Nat /\ Len(a) + i \in 1..(Len(a) + Len(b)) /\ ~(Len(a) + i <= Len(a)) /\ (Len(a) + i) - Len(a) = i
    BY <1>1
  <2>. QED BY <1>3, <2>1
<1>6. \A i \in DOMAIN c : i \in DOMAIN a \/ i - Len(a) \in DOMAIN b
  BY <1>1, <1>3
<1>. QED BY <1>1, <1>2, <1>3, <1>4, <1>5, <1>6

\* Components that can be added one after the other do not conflict.
LEMMA AddedFits ==
    ASSUME NEW S, Timed(S), NEW a \in Seq(S), NEW b \in Seq(S), NEW f,
           Open(a, f), Free(a, f), canAddComponents(a, b, f)
    PROVE  Open(a \o b, f) /\ Free(a \o b, f)
<1>. PICK c \in Seq(S) : c = a \o b
  BY Concat
<1>. PICK m \in Nat, n \in Nat : m = Len(a) /\ n = Len(b)
  OBVIOUS
<1>1. /\ DOMAIN a = 1..m /\ DOMAIN b = 1..n /\ DOMAIN c = 1..(m + n)
      /\ \A i \in 1..m : c[i] = a[i] /\ a[i] \in S
      /\ \A i \in 1..n : c[m + i] = b[i] /\ b[i] \in S
  BY ConcatMembers
<1>2. ASSUME NEW i \in 1..(m + n), ~(i \in 1..m)
      PROVE  i - m \in 1..n /\ m + (i - m) = i /\ c[i] = b[i - m]
  <2>1. PICK k \in 1..n : m + k = i
    <3>1. i - m \in 1..n /\ m + (i - m) = i
      BY <1>2
    <3>. QED BY <3>1
  <2>. QED BY <1>1, <2>1
<1>3. /\ \A i \in 1..n : f.allow_closed \/ ~b[i].all_are_closed
      /\ \A i \in 1..n, k \in 1..m : ~conflict(b[i], a[k], f)
      /\ \A i \in 1..n : \A k \in 1..(i - 1) : ~conflict(b[i], b[k], f)
  BY <1>1 DEF canAddComponents
<1>4. \A i \in 1..(m + n) : f.allow_closed \/ ~c[i].all_are_closed
  <2> TAKE i \in 1..(m + n)
  <2>1. CASE i \in 1..m
    BY <1>1, <2>1 DEF Open
  <2>2. CASE ~(i \in 1..m)
    BY <1>2, <1>3, <2>2
  <2>. QED BY <2>1, <2>2
<1>5. ASSUME NEW i \in 1..(m + n), NEW k \in 1..(m + n), k < i
      PROVE  ~conflict(c[i], c[k], f) /\ ~conflict(c[k], c[i], f)
  <2>1. c[i] \in S /\ c[k] \in S
    BY <1>1
  <2>2. ~conflict(c[i], c[k], f)
    <3>1. CASE i \in 1..m
      <4>1. k \in 1..m /\ i # k
        BY <1>5, <3>1
      <4>. QED BY <1>1, <3>1, <4>1 DEF Free
    <3>2. CASE ~(i \in 1..m) /\ k \in 1..m
      <4>1. i - m \in 1..n /\ c[i] = b[i - m]
        BY <1>2, <3>2
      <4>2. c[k] = a[k]
        BY <1>1, <3>2
      <4>. QED BY <1>3, <3>2, <4>1, <4>2
    <3>3. CASE ~(i \in 1..m) /\ ~(k \in 1..m)
      <4>1. i - m \in 1..n /\ c[i] = b[i - m] /\ k - m \in 1..n /\ c[k] = b[k - m]
        BY <1>2, <3>3
      <4>2. k - m \in 1..((i - m) - 1)
        BY <1>5, <4>1
      <4>. QED BY <1>3, <4>1, <4>2
    <3>. QED BY <3>1, <3>2, <3>3
  <2>. QED BY <2>1, <2>2, ConflictSymmetric
<1>6. ASSUME NEW i \in 1..(m + n), NEW k \in 1..(m + n), i # k PROVE ~conflict(c[i], c[k], f)
  <2>1. i < k \/ k < i
    BY <1>6
  <2>. QED BY <1>5, <2>1
<1>. QED BY <1>1, <1>4, <1>6 DEF Open, Free

\* And what is free of conflicts can be added in any two parts.
LEMMA FittingAdds ==
    ASSUME NEW S, NEW a \in Seq(S), NEW b \in Seq(S), NEW f, Open(a \o b, f), Free(a \o b, f)
    PROVE  Open(a, f) /\ Free(a, f) /\ canAddComponents(a, b, f)
<1>. PICK c \in Seq(S) : c = a \o b
  BY Concat
<1>. PICK m \in Nat, n \in Nat : m = Len(a) /\ n = Len(b)
  OBVIOUS
<1>1. /\ DOMAIN a = 1..m /\ DOMAIN b = 1..n /\ DOMAIN c = 1..(m + n)
      /\ \A i \in 1..m : c[i] = a[i] /\ i \in 1..(m + n)
      /\ \A i \in 1..n : c[m + i] = b[i] /\ m + i \in 1..(m + n)
  BY ConcatMembers
<1>2. \A i \in 1..(m + n) : f.allow_closed \/ ~c[i].all_are_closed
  BY <1>1 DEF Open
<1>3. \A i, k \in 1..(m + n) : i # k => ~conflict(c[i], c[k], f)
  BY <1>1 DEF Free
<1>4. Open(a, f) /\ \A i \in 1..n : f.allow_closed \/ ~b[i].all_are_closed
  <2>1. \A i \in 1..m : f.allow_closed \/ ~a[i].all_are_closed
    BY <1>1, <1>2
  <2>2. \A i \in 1..n : f.allow_closed \/ ~b[i].all_are_closed
    <3> TAKE i \in 1..n
    <3>1. f.allow_closed \/ ~c[m + i].all_are_closed
      BY <1>1, <1>2
    <3>. QED BY <1>1, <3>1
  <2>. QED BY <1>1, <2>1, <2>2 DEF Open
<1>5. Free(a, f)
  <2>1. \A i, k \in 1..m : i # k => ~conflict(a[i], a[k], f)
    <3> TAKE i, k \in 1..m
    <3>1. i # k => ~conflict(c[i], c[k], f)
      BY <1>1, <1>3
    <3>. QED BY <1>1, <3>1
  <2>. QED BY <1>1, <2>1 DEF Free
<1>6. \A i \in 1..n, k \in 1..m : ~conflict(b[i], a[k], f)
  <2> TAKE i \in 1..n, k \in 1..m
  <2>1. m + i # k
    OBVIOUS
  <2>2. ~conflict(c[m + i], c[k], f)
    BY <1>1, <1>3, <2>1
  <2>. QED BY <1>1, <2>2
<1>7. \A i \in 1..n : \A k \in 1..(i - 1) : ~conflict(b[i], b[k], f)
  <2> TAKE i \in 1..n
  <2> TAKE k \in 1..(i - 1)
  <2>1. k \in 1..n /\ m + i # m + k
    OBVIOUS
  <2>2. ~conflict(c[m + i], c[m + k], f)
    BY <1>1, <1>3, <2>1
  <2>. QED BY <1>1, <2>1, <2>2
<1>. QED BY <1>1, <1>4, <1>5, <1>6, <1>7 DEF canAddComponents

\* A free period was one before more components were added.
LEMMA BreakBefore ==
    ASSUME NEW S, NEW a \in Seq(S), NEW b \in Seq(S), NEW day, NEW brk, hasBreak(a \o b, day, brk)
    PROVE  hasBreak(a, day, brk)
<1>. PICK c \in Seq(S) : c = a \o b
  BY Concat
<1>1. \A i \in DOMAIN a : i \in DOMAIN c /\ c[i] = a[i]
  BY ConcatMembers
<1>2. CASE inRange(c, day, brk) = {}
  <2>1. inRange(a, day, brk) = {}
    BY <1>1, <1>2 DEF inRange
  <2>. QED BY <2>1 DEF hasBreak
<1>3. CASE ~(inRange(c, day, brk) = {})
  BY <1>1, <1>3 DEF hasBreak
<1>. QED BY <1>2, <1>3

-----------------------------------------------------------------------------
(* Partial schedules                                                       *)

\* What to take of the first courses.
Picks(ch) ==
    /\ ch \in Seq(Seq(Pieces))
    /\ Len(ch) <= Len(courses)
    /\ \A i \in DOMAIN ch : /\ ch[i] \in {<<>>} \cup getConfigurations(courses[i])
                            /\ courses[i].mandatory => ch[i] # <<>>

\* The filters, as the generator applies them.
Fits(cs) == Open(cs, filters) /\ Free(cs, filters) /\ checkBreakFilter(cs, filters)

scheduleOf(ch) ==
    [chosen |-> ch,
     components |-> FlattenSeq(ch),
     num_before_start_filter |-> beforeStart(FlattenSeq(ch), filters),
     num_after_end_filter |-> afterEnd(FlattenSeq(ch), filters)]

\* What the generator has put together of them, and what it knows of it.
Sound(s) == Picks(s.chosen) /\ s = scheduleOf(s.chosen) /\ Fits(s.components)

LEMMA EmptyIsSound == CoursesInv => Sound(EmptySchedule)
<1> SUFFICES ASSUME CoursesInv PROVE Sound(EmptySchedule)
  OBVIOUS
<1>1. Picks(<<>>)
  BY DEF Picks, CoursesInv
<1>2. beforeStart(<<>>, filters) = 0 /\ afterEnd(<<>>, filters) = 0
  BY FS_EmptySet DEF beforeStart, afterEnd
<1>3. Fits(<<>>)
  BY DEF Fits, Open, Free, checkBreakFilter
<1>. QED BY <1>1, <1>2, <1>3, FlattenNothing DEF Sound, scheduleOf, EmptySchedule

LEMMA PicksType ==
    ASSUME CoursesInv, NEW ch, Picks(ch)
    PROVE  /\ FlattenSeq(ch) \in Seq(Pieces)
           /\ Len(ch) \in Nat /\ DOMAIN ch = 1..Len(ch) /\ Len(ch) <= Len(courses)
           /\ beforeStart(FlattenSeq(ch), filters) \in Nat
           /\ afterEnd(FlattenSeq(ch), filters) \in Nat
<1>1. ch \in Seq(Seq(Pieces)) /\ Len(ch) <= Len(courses) /\ Len(courses) \in Nat
  BY DEF Picks, CoursesInv
<1>2. <<>> \in Seq(Pieces)
  OBVIOUS
<1>3. FlattenSeq(ch) \in Seq(Pieces)
  BY <1>1, <1>2, FlattenAppend
<1>4. beforeStart(FlattenSeq(ch), filters) \in Nat /\ afterEnd(FlattenSeq(ch), filters) \in Nat
  BY <1>3, BeforeConcat, AfterConcat
<1>. QED BY <1>1, <1>3, <1>4

\* A course more, taken or left out.
LEMMA PicksAppend ==
    ASSUME CoursesInv, NEW ch, Picks(ch), Len(ch) < Len(courses), NEW cs,
           cs \in {<<>>} \cup getConfigurations(courses[Len(ch) + 1]),
           courses[Len(ch) + 1].mandatory => cs # <<>>
    PROVE  /\ Picks(Append(ch, cs))
           /\ Len(Append(ch, cs)) = Len(ch) + 1
           /\ FlattenSeq(Append(ch, cs)) = FlattenSeq(ch) \o cs
           /\ cs \in Seq(Pieces)
<1>1. ch \in Seq(Seq(Pieces)) /\ Len(ch) \in Nat /\ Len(courses) \in Nat /\ DOMAIN courses = 1..Len(courses)
  BY DEF Picks, CoursesInv
<1>2. cs \in Seq(Pieces)
  <2>1. Len(ch) + 1 \in DOMAIN courses
    BY <1>1
  <2>2. <<>> \in Seq(Pieces)
    OBVIOUS
  <2>. QED BY <2>1, <2>2 DEF CoursesInv, Offers
<1>3. PICK more \in Seq(Seq(Pieces)) : more = Append(ch, cs)
  <2>1. \A S : ch \in Seq(S) /\ cs \in S => Append(ch, cs) \in Seq(S)
    OBVIOUS
  <2>. QED BY <1>1, <1>2, <2>1
<1>4. /\ Len(more) = Len(ch) + 1 /\ DOMAIN more = 1..(Len(ch) + 1) /\ DOMAIN ch = 1..Len(ch)
      /\ more[Len(ch) + 1] = cs /\ \A i \in 1..Len(ch) : more[i] = ch[i]
  BY <1>1, <1>3
<1>5. ASSUME NEW i \in DOMAIN more
      PROVE  /\ more[i] \in {<<>>} \cup getConfigurations(courses[i])
             /\ courses[i].mandatory => more[i] # <<>>
  <2>1. CASE i \in 1..Len(ch)
    BY <1>4, <2>1 DEF Picks
  <2>2. CASE i = Len(ch) + 1
    BY <1>4, <2>2
  <2>. QED BY <1>1, <1>4, <2>1, <2>2
<1>6. Picks(more)
  BY <1>1, <1>4, <1>5 DEF Picks
<1>7. FlattenSeq(Append(ch, cs)) = FlattenSeq(ch) \o cs
  BY <1>1, <1>2, FlattenAppend
<1>. QED BY <1>2, <1>3, <1>4, <1>6, <1>7

\* addCourseConfiguration puts together what it says.
LEMMA ExtendIsSound ==
    ASSUME CoursesInv, NEW s, Sound(s), Len(s.chosen) < Len(courses),
           NEW cs \in getConfigurations(courses[Len(s.chosen) + 1]), canAdd(s, cs, filters)
    PROVE  /\ Sound(addCourseConfiguration(s, cs, filters))
           /\ addCourseConfiguration(s, cs, filters).chosen = Append(s.chosen, cs)
<1> DEFINE new == addCourseConfiguration(s, cs, filters)
<1>. PICK ch : ch = s.chosen
  OBVIOUS
<1>1. Picks(ch) /\ s = scheduleOf(ch) /\ Fits(FlattenSeq(ch)) /\ FlattenSeq(ch) = s.components
  BY DEF Sound, scheduleOf
<1>2. cs # <<>>
  <2>1. Len(ch) + 1 \in DOMAIN courses
    BY <1>1, PicksType DEF CoursesInv
  <2>. QED BY <2>1 DEF CoursesInv, Offers
<1>3. /\ Picks(Append(ch, cs)) /\ cs \in Seq(Pieces)
      /\ FlattenSeq(Append(ch, cs)) = FlattenSeq(ch) \o cs
  BY <1>1, <1>2, PicksAppend
<1>4. FlattenSeq(ch) \in Seq(Pieces)
  BY <1>1, PicksType
<1>5. new.chosen = Append(ch, cs) /\ new.components = FlattenSeq(ch) \o cs
  BY <1>1 DEF addCourseConfiguration
<1>6. /\ beforeStart(FlattenSeq(ch) \o cs, filters) = beforeStart(FlattenSeq(ch), filters) + beforeStart(cs, filters)
      /\ afterEnd(FlattenSeq(ch) \o cs, filters) = afterEnd(FlattenSeq(ch), filters) + afterEnd(cs, filters)
  BY <1>3, <1>4, BeforeConcat, AfterConcat
<1>7. new = scheduleOf(Append(ch, cs))
  <2>1. /\ s.num_before_start_filter = beforeStart(FlattenSeq(ch), filters)
        /\ s.num_after_end_filter = afterEnd(FlattenSeq(ch), filters)
    BY <1>1 DEF scheduleOf
  <2>. QED BY <1>1, <1>3, <1>6, <2>1 DEF addCourseConfiguration, scheduleOf
<1>8. Fits(FlattenSeq(ch) \o cs)
  <2>1. canAddComponents(FlattenSeq(ch), cs, filters) /\ checkBreakFilter(FlattenSeq(ch) \o cs, filters)
    BY <1>1 DEF canAdd
  <2>2. Timed(Pieces) /\ Open(FlattenSeq(ch), filters) /\ Free(FlattenSeq(ch), filters)
    BY <1>1 DEF CoursesInv, Fits
  <2>3. Open(FlattenSeq(ch) \o cs, filters) /\ Free(FlattenSeq(ch) \o cs, filters)
    BY <1>3, <1>4, <2>1, <2>2, AddedFits
  <2>. QED BY <2>1, <2>3 DEF Fits
<1>. QED BY <1>3, <1>5, <1>7, <1>8 DEF Sound

\* So does skipCourse.
LEMMA SkipIsSound ==
    ASSUME CoursesInv, NEW s, Sound(s), Len(s.chosen) < Len(courses),
           ~courses[Len(s.chosen) + 1].mandatory
    PROVE  Sound(skipCourse(s)) /\ skipCourse(s).chosen = Append(s.chosen, <<>>)
<1>. PICK ch : ch = s.chosen
  OBVIOUS
<1>1. Picks(ch) /\ s = scheduleOf(ch) /\ Fits(FlattenSeq(ch))
  BY DEF Sound, scheduleOf
<1>2. Picks(Append(ch, <<>>)) /\ FlattenSeq(Append(ch, <<>>)) = FlattenSeq(ch) \o <<>>
  BY <1>1, PicksAppend
<1>3. FlattenSeq(ch) \o <<>> = FlattenSeq(ch)
  BY <1>1, PicksType, Concat
<1>4. skipCourse(s) = scheduleOf(Append(ch, <<>>))
  BY <1>1, <1>2, <1>3 DEF skipCourse, scheduleOf
<1>. PICK new : new = skipCourse(s)
  OBVIOUS
<1>5. new.chosen = Append(ch, <<>>) /\ new.components = FlattenSeq(ch)
  BY <1>2, <1>3, <1>4 DEF scheduleOf
<1>. QED BY <1>1, <1>2, <1>4, <1>5 DEF Sound

-----------------------------------------------------------------------------
(* Partial schedules and acceptable ones                                   *)

LEMMA PrefixMembers ==
    ASSUME NEW S, NEW a \in Seq(S), NEW ch \in Seq(S)
    PROVE  IsPrefix(a, ch) <=> Len(a) <= Len(ch) /\ \A i \in 1..Len(a) : a[i] = ch[i]
<1>. PICK m \in Nat, n \in Nat : m = Len(a) /\ n = Len(ch)
  OBVIOUS
<1>1. CASE ~(m <= n)
  BY <1>1 DEF IsPrefix
<1>2. CASE m <= n
  <2>1. /\ SubSeq(a, 1, m) = [i \in 1..m |-> a[i]]
        /\ SubSeq(ch, 1, m) = [i \in 1..m |-> ch[i]]
    BY <1>2
  <2>. QED BY <1>2, <2>1 DEF IsPrefix
<1>. QED BY <1>1, <1>2

LEMMA CandidateType ==
    ASSUME CoursesInv, NEW ch \in Candidates
    PROVE  Picks(ch) /\ Len(ch) = Len(courses) /\ DOMAIN ch = DOMAIN courses /\ acceptable(ch)
<1>1. /\ DOMAIN ch = DOMAIN courses
      /\ \A i \in DOMAIN courses : ch[i] \in {<<>>} \cup getConfigurations(courses[i])
      /\ acceptable(ch)
  BY DEF Candidates
<1>2. PICK n \in Nat : n = Len(courses) /\ DOMAIN courses = 1..n
  BY DEF CoursesInv
<1>3. \A i \in 1..n : ch[i] \in Seq(Pieces)
  <2>1. <<>> \in Seq(Pieces)
    OBVIOUS
  <2>. QED BY <1>1, <1>2, <2>1 DEF CoursesInv, Offers
<1>4. ch = [i \in 1..n |-> ch[i]]
  BY <1>2 DEF Candidates
<1>5. ch \in Seq(Seq(Pieces)) /\ Len(ch) = n
  <2>1. \A S : (\A i \in 1..n : ch[i] \in S) => ch \in Seq(S)
    BY <1>4
  <2>2. Len(ch) = n
    BY <1>4
  <2>. QED BY <1>3, <2>1, <2>2
<1>6. \A i \in DOMAIN courses : courses[i].mandatory => ch[i] # <<>>
  BY <1>1 DEF acceptable
<1>. QED BY <1>1, <1>2, <1>5, <1>6 DEF Picks

LEMMA NumCourses ==
    ASSUME CoursesInv, NEW s, Picks(s.chosen)
    PROVE  num_courses(s) = 0 <=> FlattenSeq(s.chosen) = <<>>
<1>. PICK ch : ch = s.chosen
  OBVIOUS
<1>1. ch \in Seq(Seq(Pieces)) /\ DOMAIN ch = 1..Len(ch) /\ Len(ch) \in Nat
  BY DEF Picks
<1>2. FlattenSeq(ch) = <<>> <=> \A i \in DOMAIN ch : ch[i] = <<>>
  BY <1>1, FlattenEmpty
<1> DEFINE taken == {i \in DOMAIN ch : ch[i] # <<>>}
<1>3. IsFiniteSet(taken)
  <2>1. taken \subseteq 1..Len(ch) /\ IsFiniteSet(1..Len(ch))
    BY <1>1, FS_Interval
  <2>. QED BY <2>1, FS_Subset
<1>4. Cardinality(taken) = 0 <=> taken = {}
  BY <1>3, FS_EmptySet
<1>. QED BY <1>2, <1>4 DEF num_courses

\* What is still to come makes no partial schedule cheaper.
LEMMA PrefixParts ==
    ASSUME CoursesInv, NEW a, Picks(a), NEW ch \in Candidates, IsPrefix(a, ch)
    PROVE  /\ \E rest \in Seq(Pieces) : FlattenSeq(ch) = FlattenSeq(a) \o rest
           /\ beforeStart(FlattenSeq(a), filters) <= beforeStart(FlattenSeq(ch), filters)
           /\ Len(a) = Len(courses) => a = ch
<1>1. Picks(ch) /\ Len(ch) = Len(courses)
  BY CandidateType
<1>2. a \in Seq(Seq(Pieces)) /\ ch \in Seq(Seq(Pieces))
  BY <1>1 DEF Picks
<1>3. Len(a) <= Len(ch) /\ \A i \in 1..Len(a) : a[i] = ch[i]
  BY <1>2, PrefixMembers
<1>4. PICK rest \in Seq(Pieces) : FlattenSeq(ch) = FlattenSeq(a) \o rest
  BY <1>2, <1>3, FlattenPrefix
<1>5. PICK part \in Seq(Pieces) : part = FlattenSeq(a)
  BY PicksType
<1>6. beforeStart(part, filters) <= beforeStart(part \o rest, filters)
  <2>1. /\ beforeStart(part, filters) \in Nat /\ beforeStart(rest, filters) \in Nat
        /\ beforeStart(part \o rest, filters) = beforeStart(part, filters) + beforeStart(rest, filters)
    BY BeforeConcat
  <2>. QED BY <2>1
<1>7. Len(a) = Len(courses) => a = ch
  <2>1. DOMAIN a = 1..Len(a) /\ DOMAIN ch = 1..Len(ch)
    BY <1>2
  <2>. QED BY <1>1, <1>2, <1>3, <2>1
<1>. QED BY <1>4, <1>5, <1>6, <1>7

\* Every partial schedule that leads to an acceptable one can be extended towards it.
LEMMA CandidateExtends ==
    ASSUME CoursesInv, IsFilter(filters), NEW s, Sound(s), Len(s.chosen) < Len(courses),
           NEW ch \in Candidates, IsPrefix(s.chosen, ch), NEW cs, cs = ch[Len(s.chosen) + 1]
    PROVE  /\ cs \in {<<>>} \cup getConfigurations(courses[Len(s.chosen) + 1])
           /\ courses[Len(s.chosen) + 1].mandatory => cs # <<>>
           /\ IsPrefix(Append(s.chosen, cs), ch)
           /\ canAdd(s, cs, filters)
<1>. PICK a : a = s.chosen
  OBVIOUS
<1>1. Picks(a) /\ s.components = FlattenSeq(a)
  BY DEF Sound, scheduleOf
<1>2. Picks(ch) /\ Len(ch) = Len(courses) /\ DOMAIN ch = DOMAIN courses /\ acceptable(ch)
  BY CandidateType
<1>. PICK m \in Nat : m = Len(a)
  BY <1>1, PicksType
<1>3. m + 1 \in DOMAIN courses /\ m + 1 <= Len(ch)
  BY <1>2 DEF CoursesInv
<1>4. cs \in {<<>>} \cup getConfigurations(courses[m + 1]) /\ (courses[m + 1].mandatory => cs # <<>>)
  BY <1>2, <1>3 DEF Picks
<1>5. /\ Picks(Append(a, cs)) /\ Len(Append(a, cs)) = m + 1 /\ cs \in Seq(Pieces)
      /\ FlattenSeq(Append(a, cs)) = FlattenSeq(a) \o cs
  BY <1>1, <1>4, PicksAppend
<1>6. a \in Seq(Seq(Pieces)) /\ ch \in Seq(Seq(Pieces)) /\ Append(a, cs) \in Seq(Seq(Pieces))
  BY <1>1, <1>2, <1>5 DEF Picks
<1>7. \A i \in 1..m : a[i] = ch[i]
  <2>1. PICK S : S = Seq(Pieces)
    OBVIOUS
  <2>2. a \in Seq(S) /\ ch \in Seq(S) /\ IsPrefix(a, ch) /\ m = Len(a)
    BY <1>6, <2>1
  <2>. QED BY ONLY <2>2, PrefixMembers
<1>8. IsPrefix(Append(a, cs), ch)
  <2>1. \A i \in 1..(m + 1) : Append(a, cs)[i] = ch[i]
    <3> TAKE i \in 1..(m + 1)
    <3>1. CASE i = m + 1
      BY <1>6, <3>1
    <3>2. CASE i # m + 1
      <4>1. i \in 1..m /\ Append(a, cs)[i] = a[i]
        BY <1>6, <3>2
      <4>. QED BY <1>7, <4>1
    <3>. QED BY <3>1, <3>2
  <2>2. PICK S, b : S = Seq(Pieces) /\ b = Append(a, cs)
    OBVIOUS
  <2>3. b \in Seq(S) /\ ch \in Seq(S) /\ Len(b) = m + 1 /\ m + 1 <= Len(ch)
    BY <1>3, <1>5, <1>6, <2>2
  <2>4. \A i \in 1..(m + 1) : b[i] = ch[i]
    BY <2>1, <2>2
  <2>5. IsPrefix(b, ch)
    BY ONLY <2>3, <2>4, PrefixMembers
  <2>. QED BY <2>2, <2>5
<1>9. PICK rest \in Seq(Pieces) : FlattenSeq(ch) = FlattenSeq(Append(a, cs)) \o rest
  BY <1>5, <1>8, PrefixParts
<1>10. PICK part \in Seq(Pieces) : part = FlattenSeq(a)
  BY <1>1, PicksType
<1>11. PICK both \in Seq(Pieces) : both = part \o cs
  BY <1>5, Concat
<1>12. FlattenSeq(ch) = both \o rest
  BY <1>5, <1>9, <1>10, <1>11
<1>13. Open(both \o rest, filters) /\ Free(both \o rest, filters)
  BY <1>2, <1>12 DEF acceptable, Open, Free
<1>14. Open(both, filters) /\ Free(both, filters)
  BY <1>13, FittingAdds
<1>15. canAddComponents(part, cs, filters)
  BY <1>5, <1>11, <1>14, FittingAdds
<1>16. checkBreakFilter(both, filters)
  <2> SUFFICES ASSUME NEW brk \in filters.breaks, NEW i \in DOMAIN both
               PROVE  breakOnDay(both, both[i].day, brk)
    BY DEF checkBreakFilter
  <2>1. i \in DOMAIN (both \o rest) /\ (both \o rest)[i] = both[i]
    BY ConcatMembers
  <2>2. hasBreak(both \o rest, both[i].day, brk)
    BY <1>2, <1>12, <2>1 DEF acceptable
  <2>3. hasBreak(both, both[i].day, brk)
    BY <2>2, BreakBefore
  <2>. QED BY <2>3, BreakFound DEF IsFilter, CoursesInv
<1>. QED BY <1>1, <1>4, <1>8, <1>10, <1>11, <1>15, <1>16 DEF canAdd

\* What is complete and fits is acceptable, where the break filter is exact.
LEMMA CompleteIsAcceptable ==
    ASSUME CoursesInv, IsFilter(filters), NEW s, Sound(s), Len(s.chosen) = Len(courses),
           num_courses(s) # 0, Exact
    PROVE  s.chosen \in Candidates /\ acceptable(s.chosen)
<1>. PICK ch : ch = s.chosen
  OBVIOUS
<1>1. Picks(ch) /\ Fits(FlattenSeq(ch))
  BY DEF Sound, scheduleOf
<1>. PICK cs \in Seq(Pieces) : cs = FlattenSeq(ch)
  BY <1>1, PicksType
<1>2. DOMAIN ch = DOMAIN courses
  BY <1>1, PicksType DEF CoursesInv
<1>3. ch \in [DOMAIN courses -> {<<>>} \cup UNION {getConfigurations(courses[i]) : i \in DOMAIN courses}]
  <2>1. ch = [i \in DOMAIN ch |-> ch[i]]
    BY <1>1 DEF Picks
  <2>2. \A i \in DOMAIN ch : ch[i] \in {<<>>} \cup UNION {getConfigurations(courses[k]) : k \in DOMAIN courses}
    BY <1>1, <1>2 DEF Picks
  <2>. QED BY <1>2, <2>1, <2>2
<1>4. \A i \in DOMAIN courses : /\ ch[i] \in {<<>>} \cup getConfigurations(courses[i])
                                /\ courses[i].mandatory => ch[i] # <<>>
  BY <1>1, <1>2 DEF Picks
<1>5. cs # <<>>
  BY <1>1, NumCourses
<1>6. Open(cs, filters) /\ Free(cs, filters) /\ checkBreakFilter(cs, filters)
  BY <1>1 DEF Fits
<1>7. ASSUME NEW brk \in filters.breaks, NEW i \in DOMAIN cs PROVE hasBreak(cs, cs[i].day, brk)
  <2>1. /\ filters.conflicts = "NONE"
        /\ \A k \in DOMAIN courses : \A c \in getConfigurations(courses[k]) :
              \A l \in DOMAIN c : c[l].start < c[l].end
    BY DEF Exact
  <2>2. ASSUME NEW c \in Pieces PROVE c.start < c.end
    <3>1. PICK k \in DOMAIN courses : \E d \in getConfigurations(courses[k]) : c \in ToSet(d)
      BY DEF Pieces
    <3>2. PICK d \in getConfigurations(courses[k]) : \E l \in DOMAIN d : c = d[l]
      BY <3>1 DEF ToSet
    <3>. QED BY <2>1, <3>2
  <2>3. \A k \in DOMAIN cs : cs[k] \in Pieces
    OBVIOUS
  <2>4. InARow(cs)
    <3>1. \A k \in DOMAIN cs : cs[k].start < cs[k].end
      BY <2>2, <2>3
    <3>2. \A k, l \in DOMAIN cs : k # l /\ cs[k].day = cs[l].day => ~hasTimeOverlap(cs[k], cs[l])
      BY <1>6, <2>1 DEF Free, conflict
    <3>. QED BY <3>1, <3>2 DEF InARow
  <2>5. breakOnDay(cs, cs[i].day, brk)
    BY <1>6 DEF checkBreakFilter
  <2>. QED BY <2>4, <2>5, BreakMeant DEF CoursesInv, IsFilter
<1>8. acceptable(ch)
  BY <1>4, <1>5, <1>6, <1>7 DEF acceptable, Open, Free
<1>. QED BY <1>3, <1>4, <1>8 DEF Candidates

-----------------------------------------------------------------------------
(* Pushing, keeping and pruning                                            *)

\* The partial schedules that belong on the stack.
Partials ==
    {scheduleOf(ch) : ch \in {ch \in Seq(Seq(Pieces)) :
        Picks(ch) /\ Len(ch) < Len(courses) /\ Fits(FlattenSeq(ch))}}

LEMMA PartialsAre ==
    ASSUME NEW s PROVE s \in Partials <=> Sound(s) /\ Len(s.chosen) < Len(courses)
<1>1. ASSUME s \in Partials PROVE Sound(s) /\ Len(s.chosen) < Len(courses)
  <2>1. PICK ch \in Seq(Seq(Pieces)) : /\ s = scheduleOf(ch)
                                       /\ Picks(ch) /\ Len(ch) < Len(courses) /\ Fits(FlattenSeq(ch))
    BY <1>1 DEF Partials
  <2>2. s.chosen = ch /\ s.components = FlattenSeq(ch)
    BY <2>1 DEF scheduleOf
  <2>. QED BY <2>1, <2>2 DEF Sound
<1>2. ASSUME Sound(s), Len(s.chosen) < Len(courses) PROVE s \in Partials
  <2>1. PICK ch : ch = s.chosen
    OBVIOUS
  <2>2. Picks(ch) /\ s = scheduleOf(ch) /\ Fits(FlattenSeq(ch)) /\ ch \in Seq(Seq(Pieces))
    BY <1>2, <2>1 DEF Sound, scheduleOf, Picks
  <2>. QED BY <1>2, <2>1, <2>2 DEF Partials
<1>. QED BY <1>1, <1>2

\* A complete schedule worth keeping while the best of them has `cost' early components.
Kept(s, cost) ==
    /\ Sound(s)
    /\ Len(s.chosen) = Len(courses)
    /\ num_courses(s) # 0
    /\ s.num_before_start_filter = cost

BestInv ==
    /\ best \in Nat \cup {Infinity}
    /\ \A s \in schedules : Kept(s, best)
    /\ best # Infinity => schedules # {}

KeptIn(kept, ch) == ch \in {s.chosen : s \in kept}
ReachedFrom(list, ch) == \E i \in DOMAIN list : IsPrefix(list[i].chosen, ch)
early(ch) == beforeStart(FlattenSeq(ch), filters)

LEMMA SoundCost ==
    ASSUME CoursesInv, NEW s, Sound(s)
    PROVE  /\ s.num_before_start_filter = early(s.chosen) /\ s.num_before_start_filter \in Nat
           /\ s.num_after_end_filter = afterEnd(FlattenSeq(s.chosen), filters)
           /\ s.num_after_end_filter \in Nat
           /\ Picks(s.chosen)
<1>. PICK ch : ch = s.chosen
  OBVIOUS
<1>1. Picks(ch) /\ s = scheduleOf(ch)
  BY DEF Sound
<1>2. /\ s.num_before_start_filter = beforeStart(FlattenSeq(ch), filters)
      /\ s.num_after_end_filter = afterEnd(FlattenSeq(ch), filters)
  BY <1>1 DEF scheduleOf
<1>. QED BY <1>1, <1>2, PicksType DEF early

\* What is kept and what is on the stack stays what it should be.
LEMMA PushOrAddKeeps ==
    ASSUME CoursesInv, BestInv, NEW s, Sound(s), NEW base \in Seq(Partials), pushOrAdd(s, base)
    PROVE  /\ stack' \in Seq(Partials)
           /\ best' \in Nat \cup {Infinity}
           /\ \A t \in schedules' : Kept(t, best')
           /\ best' # Infinity => schedules' # {}
           /\ \A n \in Nat : exceeds(n) => best' # Infinity /\ n > best'
<1>. PICK n \in Nat : n = s.num_before_start_filter
  BY SoundCost
<1>. PICK b : b = best
  OBVIOUS
<1>1. Len(s.chosen) <= Len(courses) /\ Len(s.chosen) \in Nat /\ Len(courses) \in Nat
  BY SoundCost, PicksType DEF CoursesInv
<1>2. best \in Nat \cup {Infinity} /\ (\A t \in schedules : Kept(t, best)) /\ (best # Infinity => schedules # {})
  BY DEF BestInv
<1>3. CASE Len(s.chosen) # Len(courses)
  <2>1. UNCHANGED <<schedules, best>> /\ stack' \in {base, Append(base, s)}
    BY <1>3 DEF pushOrAdd, num_courses_attempted
  <2>2. Append(base, s) \in Seq(Partials)
    <3>1. s \in Partials
      BY <1>1, <1>3, PartialsAre
    <3>. QED BY <3>1
  <2>. QED BY <1>2, <2>1, <2>2 DEF exceeds
<1>4. CASE Len(s.chosen) = Len(courses)
  <2>1. stack' = base
    BY <1>4 DEF pushOrAdd, num_courses_attempted
  <2>2. CASE num_courses(s) = 0 \/ exceeds(n)
    <3>1. UNCHANGED <<schedules, best>>
      BY <1>4, <2>2 DEF pushOrAdd, num_courses_attempted
    <3>. QED BY <1>2, <2>1, <3>1 DEF exceeds
  <2>3. CASE ~(num_courses(s) = 0 \/ exceeds(n))
    <3>1. best' = n /\ schedules' = keptBeside(s) \cup {s}
      BY <1>4, <2>3 DEF pushOrAdd, num_courses_attempted
    <3>2. n # Infinity /\ (b = Infinity \/ b \in Nat)
      BY <1>2 DEF Infinity
    <3>3. b = Infinity \/ n <= b
      BY <2>3, <3>2 DEF exceeds
    <3>4. ASSUME NEW t \in schedules' PROVE Kept(t, n)
      <4>1. CASE t = s
        BY <1>4, <2>3, <4>1 DEF Kept
      <4>2. CASE t # s
        <5>1. t \in schedules /\ ~beats(n)
          BY <3>1, <4>2 DEF keptBeside
        <5>2. b = n
          BY <3>2, <3>3, <5>1 DEF beats
        <5>. QED BY <1>2, <5>1, <5>2
      <4>. QED BY <4>1, <4>2
    <3>5. \A k \in Nat : exceeds(k) => best' # Infinity /\ k > best'
      <4> SUFFICES ASSUME NEW k \in Nat, exceeds(k) PROVE k > n
        BY <3>1, <3>2
      <4>. QED BY <3>2, <3>3 DEF exceeds
    <3>. QED BY <2>1, <3>1, <3>2, <3>4, <3>5
  <2>. QED BY <2>2, <2>3
<1>. QED BY <1>3, <1>4

\* No acceptable schedule that is still wanted gets lost.
LEMMA PushOrAddCovers ==
    ASSUME CoursesInv, BestInv, NEW s, Sound(s), NEW base \in Seq(Partials), pushOrAdd(s, base),
           NEW ch \in Candidates, ~(best' # Infinity /\ early(ch) > best')
    PROVE  /\ KeptIn(schedules, ch) => KeptIn(schedules', ch)
           /\ ReachedFrom(base, ch) => ReachedFrom(stack', ch)
           /\ IsPrefix(s.chosen, ch) => KeptIn(schedules', ch) \/ ReachedFrom(stack', ch)
<1>. PICK n \in Nat : n = s.num_before_start_filter
  BY SoundCost
<1>. PICK b : b = best
  OBVIOUS
<1>. PICK e \in Nat : e = early(ch)
  BY CandidateType, PicksType DEF early
<1>1. Picks(s.chosen) /\ n = early(s.chosen) /\ (b = Infinity \/ b \in Nat) /\ \A k \in Nat : k # Infinity
  BY SoundCost DEF BestInv, Infinity
<1>2. ~exceeds(e)
  BY PushOrAddKeeps
<1>3. IsPrefix(s.chosen, ch) => n <= e /\ (Len(s.chosen) = Len(courses) => s.chosen = ch)
  BY <1>1, PrefixParts DEF early
<1>4. CASE Len(s.chosen) # Len(courses)
  <2>1. /\ UNCHANGED schedules
        /\ stack' = IF exceeds(n) THEN base ELSE Append(base, s)
    BY <1>4 DEF pushOrAdd, num_courses_attempted
  <2>2. /\ ReachedFrom(base, ch) => ReachedFrom(Append(base, s), ch)
        /\ IsPrefix(s.chosen, ch) => ReachedFrom(Append(base, s), ch)
    <3>1. PICK m \in Nat : m = Len(base)
      OBVIOUS
    <3>2. /\ DOMAIN base = 1..m /\ DOMAIN Append(base, s) = 1..(m + 1)
          /\ Append(base, s)[m + 1] = s /\ \A i \in 1..m : Append(base, s)[i] = base[i]
      BY <3>1
    <3>3. m + 1 \in 1..(m + 1) /\ 1..m \subseteq 1..(m + 1)
      OBVIOUS
    <3>. QED BY <3>2, <3>3 DEF ReachedFrom
  <2>3. IsPrefix(s.chosen, ch) => ~exceeds(n)
    BY <1>1, <1>2, <1>3 DEF exceeds
  <2>. QED BY <2>1, <2>2, <2>3
<1>5. CASE Len(s.chosen) = Len(courses)
  <2>1. stack' = base
    BY <1>5 DEF pushOrAdd, num_courses_attempted
  <2>2. IsPrefix(s.chosen, ch) => num_courses(s) # 0 /\ n = e
    <3>1. FlattenSeq(ch) # <<>>
      BY CandidateType DEF acceptable
    <3>. QED BY <1>1, <1>3, <1>5, <3>1, NumCourses
  <2>3. CASE num_courses(s) = 0 \/ exceeds(n)
    <3>1. UNCHANGED schedules
      BY <1>5, <2>3 DEF pushOrAdd, num_courses_attempted
    <3>. QED BY <1>2, <2>1, <2>2, <2>3, <3>1
  <2>4. CASE ~(num_courses(s) = 0 \/ exceeds(n))
    <3>1. best' = n /\ schedules' = keptBeside(s) \cup {s}
      BY <1>5, <2>4 DEF pushOrAdd, num_courses_attempted
    <3>2. IsPrefix(s.chosen, ch) => KeptIn(schedules', ch)
      BY <1>3, <1>5, <3>1 DEF KeptIn
    <3>3. ASSUME KeptIn(schedules, ch) PROVE KeptIn(schedules', ch)
      <4>1. PICK t \in schedules : t.chosen = ch
        BY <3>3 DEF KeptIn
      <4>2. e = b
        BY <4>1, SoundCost DEF BestInv, Kept
      <4>3. ~(e > n)
        BY <1>1, <3>1
      <4>4. ~beats(n)
        BY <1>1, <4>2, <4>3 DEF beats
      <4>. QED BY <3>1, <4>1, <4>4 DEF keptBeside, KeptIn
    <3>. QED BY <2>1, <3>2, <3>3
  <2>. QED BY <2>3, <2>4
<1>. QED BY <1>4, <1>5

-----------------------------------------------------------------------------
(* What depends on the courses and the filters stays with them             *)

LEMMA SamePieces == ASSUME courses' = courses PROVE Pieces' = Pieces
BY DEF Pieces

LEMMA SameCourses == ASSUME courses' = courses, CoursesInv PROVE CoursesInv'
BY SamePieces DEF CoursesInv

LEMMA SamePicks ==
    ASSUME courses' = courses, NEW ch PROVE Picks(ch)' <=> Picks(ch)
BY SamePieces DEF Picks

LEMMA SameSchedule ==
    ASSUME filters' = filters, NEW ch
    PROVE  scheduleOf(ch)' = scheduleOf(ch) /\ (Fits(FlattenSeq(ch))' <=> Fits(FlattenSeq(ch)))
BY DEF scheduleOf, Fits

LEMMA SameSound ==
    ASSUME courses' = courses, filters' = filters, NEW s
    PROVE  Sound(s)' <=> Sound(s)
<1>1. Picks(s.chosen)' <=> Picks(s.chosen)
  BY SamePicks
<1>2. scheduleOf(s.chosen)' = scheduleOf(s.chosen)
  BY DEF scheduleOf
<1>3. Fits(s.components)' <=> Fits(s.components)
  BY DEF Fits
<1>. QED BY <1>1, <1>2, <1>3 DEF Sound

LEMMA SamePartials ==
    ASSUME courses' = courses, filters' = filters
    PROVE  Partials' = Partials
<1>1. Pieces' = Pieces
  BY SamePieces
<1>2. \A ch : Picks(ch)' <=> Picks(ch)
  BY SamePicks
<1>3. \A ch : scheduleOf(ch)' = scheduleOf(ch) /\ (Fits(FlattenSeq(ch))' <=> Fits(FlattenSeq(ch)))
  BY SameSchedule
<1>4. {ch \in Seq(Seq(Pieces)) : Picks(ch) /\ Len(ch) < Len(courses) /\ Fits(FlattenSeq(ch))}'
      = {ch \in Seq(Seq(Pieces)) : Picks(ch) /\ Len(ch) < Len(courses) /\ Fits(FlattenSeq(ch))}
  BY <1>1, <1>2, <1>3
<1>. QED BY <1>3, <1>4 DEF Partials

LEMMA SameKept ==
    ASSUME courses' = courses, filters' = filters, NEW s, NEW cost
    PROVE  Kept(s, cost)' <=> Kept(s, cost)
BY SameSound DEF Kept

LEMMA SameCandidates ==
    ASSUME courses' = courses, filters' = filters
    PROVE  Candidates' = Candidates /\ BestCandidates' = BestCandidates /\ (Exact' <=> Exact)
<1>1. \A ch : acceptable(ch)' <=> acceptable(ch)
  BY DEF acceptable
<1>2. Candidates' = Candidates
  BY <1>1 DEF Candidates
<1>3. BestCandidates' = BestCandidates
  BY <1>2 DEF BestCandidates, least
<1>4. Exact' <=> Exact
  BY DEF Exact
<1>. QED BY <1>2, <1>3, <1>4

LEMMA SameEarly ==
    ASSUME filters' = filters, NEW ch PROVE early(ch)' = early(ch)
BY DEF early

-----------------------------------------------------------------------------
(* The inductive invariant                                                 *)

\* What can still be produced, or has been.
Covered(ch) ==
    \/ KeptIn(schedules, ch)
    \/ ReachedFrom(stack, ch)
    \/ status = "expand" /\ IsPrefix(partial.chosen, ch) /\ ch[Len(partial.chosen) + 1] \in todo

StatusInv ==
    /\ status \in {"new", "pop", "expand", "done"}
    /\ status \in {"pop", "expand"} => courses # <<>>
    /\ status = "new" => schedules = {}

StackInv ==
    /\ courses # <<>> => stack \in Seq(Partials)
    /\ status = "expand" => /\ partial \in Partials
                            /\ todo \subseteq getConfigurations(courses[Len(partial.chosen) + 1])
                            /\ ~stopped

KeptInv ==
    /\ best \in Nat \cup {Infinity}
    /\ \A s \in schedules : Kept(s, best)
    /\ status # "done" /\ best # Infinity => schedules # {}

CoverInv ==
    status # "done" /\ ~stopped => \A ch \in Candidates : ~exceeds(early(ch)) => Covered(ch)

SearchInv ==
    /\ CoursesInv
    /\ IsFilter(filters)
    /\ StatusInv
    /\ StackInv
    /\ KeptInv
    /\ CoverInv
    /\ ResultIsComplete

LEMMA ConstructEstablishes ==
    ASSUME CoursesInv, IsFilter(filters), status = "new", stack = <<EmptySchedule>>,
           schedules = {}, best = Infinity
    PROVE  SearchInv
<1>1. Sound(EmptySchedule) /\ EmptySchedule.chosen = <<>> /\ Picks(<<>>)
  <2>1. Sound(EmptySchedule)
    BY EmptyIsSound
  <2>2. EmptySchedule.chosen = <<>>
    BY DEF EmptySchedule
  <2>. QED BY <2>1, <2>2 DEF Sound
<1>2. courses # <<>> => stack \in Seq(Partials)
  <2> SUFFICES ASSUME courses # <<>> PROVE EmptySchedule \in Partials
    OBVIOUS
  <2>1. 0 < Len(courses)
    <3>1. courses = <<>> \/ Len(courses) # 0
      BY DEF CoursesInv
    <3>. QED BY <3>1 DEF CoursesInv
  <2>2. Len(EmptySchedule.chosen) < Len(courses)
    BY <1>1, <2>1
  <2>. QED BY <1>1, <2>2, PartialsAre
<1>3. ASSUME NEW ch \in Candidates PROVE ReachedFrom(stack, ch)
  <2>1. ch \in Seq(Seq(Pieces))
    BY CandidateType DEF Picks
  <2>2. IsPrefix(<<>>, ch)
    <3>1. Len(ch) \in Nat /\ Len(<<>>) = 0
      BY <2>1
    <3>2. SubSeq(<<>>, 1, 0) = <<>> /\ SubSeq(ch, 1, 0) = <<>>
      BY <2>1
    <3>. QED BY <3>1, <3>2 DEF IsPrefix
  <2>. QED BY <1>1, <2>2 DEF ReachedFrom
<1>. QED BY <1>2, <1>3 DEF SearchInv, StatusInv, StackInv, KeptInv, CoverInv, Covered, ResultIsComplete

LEMMA StartKeeps == ASSUME SearchInv, start PROVE SearchInv'
<1>1. /\ status = "new" /\ status' = IF courses = <<>> THEN "done" ELSE "pop"
      /\ courses' = courses /\ filters' = filters /\ stack' = stack
      /\ schedules' = schedules /\ best' = best /\ stopped' = stopped
  BY DEF start, config
<1>2. CoursesInv' /\ IsFilter(filters)' /\ Partials' = Partials
  BY <1>1, SameCourses, SamePartials DEF SearchInv
<1>3. schedules = {}
  BY <1>1 DEF SearchInv, StatusInv
<1>4. StatusInv' /\ StackInv'
  BY <1>1, <1>2 DEF SearchInv, StatusInv, StackInv
<1>5. KeptInv'
  BY <1>1, <1>3 DEF SearchInv, KeptInv
<1>6. CoverInv'
  <2> SUFFICES ASSUME ~stopped', NEW ch \in Candidates', ~exceeds(early(ch))' PROVE Covered(ch)'
    BY DEF CoverInv
  <2>1. ch \in Candidates /\ ~exceeds(early(ch)) /\ status # "expand"
    BY <1>1, SameCandidates, SameEarly DEF exceeds
  <2>2. ReachedFrom(stack, ch)
    BY <1>1, <1>3, <2>1 DEF SearchInv, CoverInv, Covered, KeptIn
  <2>. QED BY <1>1, <2>2 DEF Covered, ReachedFrom
<1>7. ResultIsComplete'
  <2> SUFFICES ASSUME courses = <<>> PROVE {s.chosen : s \in schedules'} = BestCandidates'
    BY <1>1 DEF ResultIsComplete
  <2>1. ASSUME NEW ch \in Candidates PROVE FALSE
    <3>1. Len(ch) = 0 /\ ch \in Seq(Seq(Pieces)) /\ FlattenSeq(ch) # <<>>
      BY CandidateType DEF SearchInv, Picks, acceptable
    <3>2. ch = <<>>
      BY <3>1
    <3>. QED BY <3>1, <3>2, FlattenNothing
  <2>2. BestCandidates = {}
    BY <2>1 DEF BestCandidates, least
  <2>3. BestCandidates' = BestCandidates
    BY <1>1, SameCandidates
  <2>. QED BY <1>1, <1>3, <2>2, <2>3
<1>. QED BY <1>2, <1>4, <1>5, <1>6, <1>7 DEF SearchInv

\* What a step of the loop does to what is kept and what is still wanted.
LoopStep(s, base) ==
    /\ stack' \in Seq(Partials)
    /\ KeptInv'
    /\ \A ch \in Candidates : ~exceeds(early(ch))' =>
        /\ ~exceeds(early(ch))
        /\ KeptIn(schedules, ch) => KeptIn(schedules', ch)
        /\ ReachedFrom(base, ch) => ReachedFrom(stack', ch)
        /\ IsPrefix(s.chosen, ch) => KeptIn(schedules', ch) \/ ReachedFrom(stack', ch)

LEMMA PushOrAddStep ==
    ASSUME SearchInv, status # "done", courses' = courses, filters' = filters,
           NEW s, Sound(s), NEW base \in Seq(Partials), pushOrAdd(s, base)
    PROVE  LoopStep(s, base)
<1>1. CoursesInv /\ BestInv
  BY DEF SearchInv, KeptInv, BestInv
<1>2. /\ stack' \in Seq(Partials)
      /\ best' \in Nat \cup {Infinity}
      /\ \A t \in schedules' : Kept(t, best')
      /\ best' # Infinity => schedules' # {}
      /\ \A n \in Nat : exceeds(n) => best' # Infinity /\ n > best'
  BY <1>1, PushOrAddKeeps
<1>3. KeptInv'
  <2>1. PICK b : b = best'
    OBVIOUS
  <2>2. \A t \in schedules' : Kept(t, b)
    BY <1>2, <2>1
  <2>3. \A t \in schedules' : Kept(t, b)'
    BY <2>2, SameKept
  <2>4. \A t \in schedules' : Kept(t, best)'
    BY <2>1, <2>3 DEF Kept
  <2>. QED BY <1>2, <2>4 DEF KeptInv
<1>4. ASSUME NEW ch \in Candidates, ~exceeds(early(ch))'
      PROVE  /\ ~exceeds(early(ch))
             /\ KeptIn(schedules, ch) => KeptIn(schedules', ch)
             /\ ReachedFrom(base, ch) => ReachedFrom(stack', ch)
             /\ IsPrefix(s.chosen, ch) => KeptIn(schedules', ch) \/ ReachedFrom(stack', ch)
  <2>1. early(ch) \in Nat
    BY <1>1, CandidateType, PicksType DEF early
  <2>2. early(ch)' = early(ch)
    BY SameEarly
  <2>3. ~(best' # Infinity /\ early(ch) > best')
    BY <1>4, <2>2 DEF exceeds
  <2>4. ~exceeds(early(ch))
    BY <1>2, <2>1, <2>3
  <2>. QED BY <1>1, <2>3, <2>4, PushOrAddCovers
<1>. QED BY <1>2, <1>3, <1>4 DEF LoopStep

\* Or a step that tries a configuration in vain.
LEMMA VainStep ==
    ASSUME SearchInv, status # "done", courses' = courses, filters' = filters,
           NEW base \in Seq(Partials), stack' = base, UNCHANGED <<schedules, best>>,
           NEW s, \A ch \in Candidates : ~IsPrefix(s.chosen, ch)
    PROVE  LoopStep(s, base)
<1>1. KeptInv'
  <2>1. \A t \in schedules' : Kept(t, best)
    BY DEF SearchInv, KeptInv
  <2>2. PICK b : b = best
    OBVIOUS
  <2>3. \A t \in schedules' : Kept(t, b)'
    BY <2>1, <2>2, SameKept
  <2>4. \A t \in schedules' : Kept(t, best)'
    BY <2>2, <2>3 DEF Kept
  <2>. QED BY <2>4 DEF SearchInv, KeptInv
<1>2. \A ch \in Candidates : ~exceeds(early(ch))' => ~exceeds(early(ch))
  BY SameEarly DEF exceeds
<1>. QED BY <1>1, <1>2 DEF LoopStep

LEMMA PrefixAppend ==
    ASSUME NEW S, NEW a \in Seq(S), NEW cs \in S, NEW ch \in Seq(S), IsPrefix(Append(a, cs), ch)
    PROVE  IsPrefix(a, ch) /\ ch[Len(a) + 1] = cs
<1>1. PICK more \in Seq(S) : more = Append(a, cs)
  <2>1. Append(a, cs) \in Seq(S)
    OBVIOUS
  <2>. QED BY <2>1
<1>. PICK m \in Nat : m = Len(a)
  OBVIOUS
<1>2. Len(more) = m + 1 /\ more[m + 1] = cs /\ \A i \in 1..m : more[i] = a[i]
  BY <1>1
<1>3. Len(more) <= Len(ch) /\ \A i \in 1..Len(more) : more[i] = ch[i]
  <2>1. more \in Seq(S) /\ ch \in Seq(S) /\ IsPrefix(more, ch)
    BY <1>1
  <2>. QED BY ONLY <2>1, PrefixMembers
<1>4. m <= Len(ch) /\ \A i \in 1..m : a[i] = ch[i]
  BY <1>2, <1>3
<1>5. ch[m + 1] = cs
  BY <1>2, <1>3
<1>. QED BY <1>4, <1>5, PrefixMembers

LEMMA NotAPrefix ==
    ASSUME CoursesInv, IsFilter(filters), NEW s, Sound(s), Len(s.chosen) < Len(courses),
           NEW cs \in Seq(Pieces), NEW ch \in Candidates, IsPrefix(Append(s.chosen, cs), ch)
    PROVE  canAdd(s, cs, filters) /\ (courses[Len(s.chosen) + 1].mandatory => cs # <<>>)
<1>. PICK a : a = s.chosen
  OBVIOUS
<1>1. a \in Seq(Seq(Pieces)) /\ ch \in Seq(Seq(Pieces))
  BY SoundCost, CandidateType DEF Picks
<1>2. IsPrefix(a, ch) /\ ch[Len(a) + 1] = cs
  BY <1>1, PrefixAppend
<1>. QED BY <1>2, CandidateExtends

LEMMA FrontAndLast ==
    ASSUME NEW S, NEW seq \in Seq(S), seq # <<>>
    PROVE  /\ Last(seq) \in S /\ Front(seq) \in Seq(S)
           /\ \A i \in DOMAIN seq : seq[i] = Last(seq) \/ (i \in DOMAIN Front(seq) /\ Front(seq)[i] = seq[i])
<1>1. PICK n \in Nat : n = Len(seq) /\ n # 0 /\ DOMAIN seq = 1..n
  OBVIOUS
<1>2. Last(seq) = seq[n]
  BY <1>1 DEF Last
<1>3. PICK front \in Seq(S) :
        /\ front = Front(seq) /\ DOMAIN front = 1..(n - 1)
        /\ \A i \in 1..(n - 1) : front[i] = seq[i]
  <2>1. PICK k \in Nat : k = n - 1 /\ k <= n
    BY <1>1
  <2>2. Front(seq) = [i \in 1..k |-> seq[i]]
    BY <1>1, <2>1 DEF Front
  <2>3. Front(seq) \in Seq(S)
    BY <1>1, <2>1, <2>2
  <2>. QED BY <2>1, <2>2, <2>3
<1>4. Last(seq) \in S
  BY <1>1, <1>2
<1>5. \A i \in 1..n : i = n \/ i \in 1..(n - 1)
  BY <1>1
<1>6. ASSUME NEW i \in DOMAIN seq
      PROVE  seq[i] = Last(seq) \/ (i \in DOMAIN Front(seq) /\ Front(seq)[i] = seq[i])
  <2>1. i = n \/ i \in 1..(n - 1)
    BY <1>1, <1>5
  <2>2. i = n => seq[i] = Last(seq)
    BY <1>2
  <2>3. i \in 1..(n - 1) => i \in DOMAIN Front(seq) /\ Front(seq)[i] = seq[i]
    BY <1>3
  <2>. QED BY <2>1, <2>2, <2>3
<1>7. Front(seq) \in Seq(S)
  BY <1>3
<1>. QED BY <1>4, <1>6, <1>7

LEMMA PopStep ==
    ASSUME SearchInv, pop, NEW s, s = Last(stack), NEW base, base = Front(stack)
    PROVE  /\ s \in Partials /\ base \in Seq(Partials)
           /\ LoopStep(skipCourse(s), base)
           /\ skipCourse(s).chosen = Append(s.chosen, <<>>)
<1>1. /\ status = "pop" /\ stack # <<>> /\ courses' = courses /\ filters' = filters
      /\ IF courses[Len(s.chosen) + 1].mandatory
         THEN stack' = base /\ UNCHANGED <<schedules, best>>
         ELSE pushOrAdd(skipCourse(s), base)
  BY DEF pop, config, num_courses_attempted
<1>2. stack \in Seq(Partials) /\ CoursesInv /\ IsFilter(filters)
  BY <1>1 DEF SearchInv, StatusInv, StackInv
<1>3. s \in Partials /\ base \in Seq(Partials)
  BY <1>1, <1>2, FrontAndLast
<1>4. Sound(s) /\ Len(s.chosen) < Len(courses)
  BY <1>3, PartialsAre
<1>5. skipCourse(s).chosen = Append(s.chosen, <<>>)
  BY <1>4 DEF skipCourse, Sound, scheduleOf
<1>6. PICK new : new = skipCourse(s)
  OBVIOUS
<1>7. CASE courses[Len(s.chosen) + 1].mandatory
  <2>1. \A ch \in Candidates : ~IsPrefix(new.chosen, ch)
    <3>1. <<>> \in Seq(Pieces)
      OBVIOUS
    <3>. QED BY <1>2, <1>4, <1>5, <1>6, <1>7, <3>1, NotAPrefix
  <2>2. LoopStep(new, base)
    BY <1>1, <1>3, <1>7, <2>1, VainStep
  <2>. QED BY <1>3, <1>5, <1>6, <2>2
<1>8. CASE ~courses[Len(s.chosen) + 1].mandatory
  <2>1. Sound(new)
    BY <1>2, <1>4, <1>6, <1>8, SkipIsSound
  <2>2. pushOrAdd(new, base)
    BY <1>1, <1>6, <1>8
  <2>3. LoopStep(new, base)
    BY <1>1, <1>3, <2>1, <2>2, PushOrAddStep
  <2>. QED BY <1>3, <1>5, <1>6, <2>3
<1>. QED BY <1>7, <1>8

LEMMA TryStep ==
    ASSUME SearchInv, status = "expand", courses' = courses, filters' = filters, NEW cs \in todo,
           IF canAdd(partial, cs, filters)
           THEN pushOrAdd(addCourseConfiguration(partial, cs, filters), stack)
           ELSE UNCHANGED <<stack, schedules, best, stopped>>
    PROVE  /\ LoopStep(addCourseConfiguration(partial, cs, filters), stack)
           /\ addCourseConfiguration(partial, cs, filters).chosen = Append(partial.chosen, cs)
<1>1. /\ stack \in Seq(Partials) /\ partial \in Partials /\ CoursesInv /\ IsFilter(filters)
      /\ cs \in getConfigurations(courses[Len(partial.chosen) + 1])
  BY DEF SearchInv, StatusInv, StackInv
<1>2. PICK s : s = partial
  OBVIOUS
<1>3. Sound(s) /\ Len(s.chosen) < Len(courses)
  BY <1>1, <1>2, PartialsAre
<1>4. PICK new : new = addCourseConfiguration(s, cs, filters)
  OBVIOUS
<1>5. new.chosen = Append(s.chosen, cs)
  BY <1>4 DEF addCourseConfiguration
<1>6. CASE canAdd(s, cs, filters)
  <2>1. Sound(new)
    BY <1>1, <1>2, <1>3, <1>4, <1>6, ExtendIsSound
  <2>2. pushOrAdd(new, stack)
    BY <1>2, <1>4, <1>6
  <2>3. PICK base \in Seq(Partials) : base = stack
    BY <1>1
  <2>4. LoopStep(new, base)
    BY <2>1, <2>2, <2>3, PushOrAddStep
  <2>. QED BY <1>2, <1>4, <1>5, <2>3, <2>4
<1>7. CASE ~canAdd(s, cs, filters)
  <2>1. cs \in Seq(Pieces)
    <3>1. Len(s.chosen) + 1 \in DOMAIN courses
      BY <1>1, <1>3, SoundCost, PicksType DEF CoursesInv
    <3>. QED BY <1>1, <1>2, <3>1 DEF CoursesInv, Offers
  <2>2. \A ch \in Candidates : ~IsPrefix(new.chosen, ch)
    BY <1>1, <1>3, <1>5, <1>7, <2>1, NotAPrefix
  <2>3. PICK base \in Seq(Partials) : base = stack
    BY <1>1
  <2>4. stack' = base /\ UNCHANGED <<schedules, best>>
    BY <1>2, <1>7, <2>3
  <2>5. LoopStep(new, base)
    BY <2>2, <2>3, <2>4, VainStep
  <2>. QED BY <1>2, <1>4, <1>5, <2>3, <2>5
<1>. QED BY <1>2, <1>6, <1>7

LEMMA PopKeeps == ASSUME SearchInv, pop PROVE SearchInv'
<1>1. /\ status = "pop" /\ ~stopped /\ stack # <<>> /\ courses' = courses /\ filters' = filters
      /\ partial' = Last(stack)
      /\ todo' = getConfigurations(courses[Len(Last(stack).chosen) + 1])
      /\ status' = IF stopped' THEN "pop" ELSE "expand"
  BY DEF pop, config, num_courses_attempted
<1>2. PICK s : s = Last(stack)
  OBVIOUS
<1>3. PICK base : base = Front(stack)
  OBVIOUS
<1>4. /\ s \in Partials /\ base \in Seq(Partials) /\ LoopStep(skipCourse(s), base)
      /\ skipCourse(s).chosen = Append(s.chosen, <<>>)
  BY <1>2, <1>3, PopStep
<1>5. CoursesInv /\ IsFilter(filters) /\ courses # <<>> /\ stack \in Seq(Partials)
  BY <1>1 DEF SearchInv, StatusInv, StackInv
<1>6. CoursesInv' /\ IsFilter(filters)' /\ Partials' = Partials
  BY <1>1, <1>5, SameCourses, SamePartials
<1>7. StatusInv'
  BY <1>1, <1>5 DEF StatusInv
<1>8. StackInv'
  BY <1>1, <1>2, <1>4, <1>6 DEF StackInv, LoopStep
<1>9. KeptInv'
  BY <1>4 DEF LoopStep
<1>10. CoverInv'
  <2> SUFFICES ASSUME ~stopped', NEW ch \in Candidates', ~exceeds(early(ch))' PROVE Covered(ch)'
    BY DEF CoverInv
  <2>1. ch \in Candidates /\ status' = "expand"
    BY <1>1, SameCandidates
  <2>2. /\ ~exceeds(early(ch))
        /\ KeptIn(schedules, ch) => KeptIn(schedules', ch)
        /\ ReachedFrom(base, ch) => ReachedFrom(stack', ch)
        /\ IsPrefix(Append(s.chosen, <<>>), ch) => KeptIn(schedules', ch) \/ ReachedFrom(stack', ch)
    BY <1>4, <2>1 DEF LoopStep
  <2>3. KeptIn(schedules, ch) \/ ReachedFrom(stack, ch)
    BY <1>1, <2>1, <2>2 DEF SearchInv, CoverInv, Covered
  <2>4. ReachedFrom(stack, ch) => ReachedFrom(base, ch) \/ IsPrefix(s.chosen, ch)
    <3> SUFFICES ASSUME NEW i \in DOMAIN stack, IsPrefix(stack[i].chosen, ch)
                 PROVE  ReachedFrom(base, ch) \/ IsPrefix(s.chosen, ch)
      BY DEF ReachedFrom
    <3>1. stack[i] = s \/ (i \in DOMAIN base /\ base[i] = stack[i])
      BY <1>1, <1>2, <1>3, <1>5, FrontAndLast
    <3>. QED BY <3>1 DEF ReachedFrom
  <2>5. ASSUME IsPrefix(s.chosen, ch) PROVE Covered(ch)'
    <3>1. PICK cs : cs = ch[Len(s.chosen) + 1]
      OBVIOUS
    <3>2. Sound(s) /\ Len(s.chosen) < Len(courses)
      BY <1>4, PartialsAre
    <3>3. cs \in {<<>>} \cup getConfigurations(courses[Len(s.chosen) + 1]) /\ IsPrefix(Append(s.chosen, cs), ch)
      BY <1>5, <2>1, <2>5, <3>1, <3>2, CandidateExtends
    <3>4. CASE cs = <<>>
      BY <2>2, <3>3, <3>4 DEF Covered, KeptIn, ReachedFrom
    <3>5. CASE cs # <<>>
      <4>1. partial' = s /\ cs \in todo'
        BY <1>1, <1>2, <3>3, <3>5
      <4>. QED BY <2>1, <2>5, <3>1, <4>1 DEF Covered
    <3>. QED BY <3>4, <3>5
  <2>6. KeptIn(schedules', ch) \/ ReachedFrom(stack', ch) => Covered(ch)'
    BY DEF Covered, KeptIn, ReachedFrom
  <2>. QED BY <2>2, <2>3, <2>4, <2>5, <2>6
<1>11. ResultIsComplete'
  BY <1>1 DEF ResultIsComplete
<1>. QED BY <1>6, <1>7, <1>8, <1>9, <1>10, <1>11 DEF SearchInv

LEMMA TryKeeps == ASSUME SearchInv, tryConfiguration PROVE SearchInv'
<1>1. PICK cs \in todo :
        /\ todo' = todo \ {cs}
        /\ IF canAdd(partial, cs, filters)
           THEN pushOrAdd(addCourseConfiguration(partial, cs, filters), stack)
           ELSE UNCHANGED <<stack, schedules, best, stopped>>
        /\ status' = IF stopped' \/ todo' = {} THEN "pop" ELSE "expand"
  BY DEF tryConfiguration
<1>2. status = "expand" /\ courses' = courses /\ filters' = filters /\ partial' = partial
  BY DEF tryConfiguration, config
<1>3. PICK s : s = partial
  OBVIOUS
<1>4. PICK new : new = addCourseConfiguration(s, cs, filters)
  OBVIOUS
<1>5. LoopStep(new, stack) /\ new.chosen = Append(s.chosen, cs)
  BY <1>1, <1>2, <1>3, <1>4, TryStep
<1>6. /\ CoursesInv /\ IsFilter(filters) /\ courses # <<>> /\ s \in Partials /\ ~stopped
      /\ todo \subseteq getConfigurations(courses[Len(s.chosen) + 1])
  BY <1>2, <1>3 DEF SearchInv, StatusInv, StackInv
<1>7. CoursesInv' /\ IsFilter(filters)' /\ Partials' = Partials
  BY <1>2, <1>6, SameCourses, SamePartials
<1>8. StatusInv'
  BY <1>1, <1>2, <1>6 DEF StatusInv
<1>9. StackInv'
  BY <1>1, <1>2, <1>3, <1>5, <1>6, <1>7 DEF StackInv, LoopStep
<1>10. KeptInv'
  BY <1>5 DEF LoopStep
<1>11. CoverInv'
  <2> SUFFICES ASSUME ~stopped', NEW ch \in Candidates', ~exceeds(early(ch))' PROVE Covered(ch)'
    BY DEF CoverInv
  <2>1. ch \in Candidates
    BY <1>2, SameCandidates
  <2>2. /\ ~exceeds(early(ch))
        /\ KeptIn(schedules, ch) => KeptIn(schedules', ch)
        /\ ReachedFrom(stack, ch) => ReachedFrom(stack', ch)
        /\ IsPrefix(Append(s.chosen, cs), ch) => KeptIn(schedules', ch) \/ ReachedFrom(stack', ch)
    BY <1>5, <2>1 DEF LoopStep
  <2>3. \/ KeptIn(schedules, ch) \/ ReachedFrom(stack, ch)
        \/ IsPrefix(s.chosen, ch) /\ ch[Len(s.chosen) + 1] \in todo
    BY <1>2, <1>3, <1>6, <2>1, <2>2 DEF SearchInv, CoverInv, Covered
  <2>4. KeptIn(schedules', ch) \/ ReachedFrom(stack', ch) => Covered(ch)'
    BY DEF Covered, KeptIn, ReachedFrom
  <2>5. ASSUME IsPrefix(s.chosen, ch), ch[Len(s.chosen) + 1] \in todo PROVE Covered(ch)'
    <3>1. CASE ch[Len(s.chosen) + 1] = cs
      <4>1. Sound(s) /\ Len(s.chosen) < Len(courses)
        BY <1>6, PartialsAre
      <4>2. IsPrefix(Append(s.chosen, cs), ch)
        BY <1>6, <2>1, <2>5, <3>1, <4>1, CandidateExtends
      <4>. QED BY <2>2, <2>4, <4>2
    <3>2. CASE ch[Len(s.chosen) + 1] # cs
      <4>1. ch[Len(s.chosen) + 1] \in todo' /\ status' = "expand" /\ partial' = s
        BY <1>1, <1>2, <1>3, <2>5, <3>2
      <4>. QED BY <2>5, <4>1 DEF Covered
    <3>. QED BY <3>1, <3>2
  <2>. QED BY <2>2, <2>3, <2>4, <2>5
<1>12. ResultIsComplete'
  BY <1>1 DEF ResultIsComplete
<1>. QED BY <1>7, <1>8, <1>9, <1>10, <1>11, <1>12 DEF SearchInv

\* When nothing is left on the stack, what is kept is what is least in early components.
LEMMA KeptAreLeastEarly ==
    ASSUME SearchInv, status = "pop", stack = <<>>, ~stopped, Exact
    PROVE  {s.chosen : s \in schedules} = least(Candidates, early)
<1>1. CoursesInv /\ IsFilter(filters) /\ \A s \in schedules : Kept(s, best)
  BY DEF SearchInv, KeptInv
<1>2. ASSUME NEW s \in schedules
      PROVE  s.chosen \in Candidates /\ early(s.chosen) = best /\ best \in Nat
  BY <1>1, CompleteIsAcceptable, SoundCost DEF Kept
<1>3. ASSUME NEW ch \in Candidates, ~exceeds(early(ch)) PROVE ch \in {s.chosen : s \in schedules}
  <2>1. Covered(ch)
    BY <1>3 DEF SearchInv, CoverInv
  <2>2. ~ReachedFrom(stack, ch)
    BY DEF ReachedFrom
  <2>. QED BY <2>1, <2>2 DEF Covered, KeptIn
<1>4. \A ch \in Candidates : early(ch) \in Nat
  BY <1>1, CandidateType, PicksType DEF early
<1>5. ASSUME NEW s \in schedules, NEW ch \in Candidates PROVE early(s.chosen) <= early(ch)
  <2>1. CASE exceeds(early(ch))
    BY <1>2, <1>4, <2>1 DEF exceeds
  <2>2. CASE ~exceeds(early(ch))
    BY <1>2, <1>3, <2>2
  <2>. QED BY <2>1, <2>2
<1>6. ASSUME NEW ch \in Candidates, \A other \in Candidates : early(ch) <= early(other)
      PROVE  ~exceeds(early(ch))
  <2>1. CASE best = Infinity
    BY <2>1 DEF exceeds
  <2>2. CASE best # Infinity
    <3>1. PICK s \in schedules : TRUE
      BY <2>2 DEF SearchInv, KeptInv
    <3>2. early(ch) <= best
      BY <1>2, <1>6
    <3>. QED BY <1>2, <1>4, <3>2 DEF exceeds
  <2>. QED BY <2>1, <2>2
<1>7. ASSUME NEW ch \in {s.chosen : s \in schedules}
      PROVE  ch \in Candidates /\ \A other \in Candidates : early(ch) <= early(other)
  BY <1>2, <1>5
<1>8. ASSUME NEW ch \in Candidates, \A other \in Candidates : early(ch) <= early(other)
      PROVE  ch \in {s.chosen : s \in schedules}
  BY <1>3, <1>6, <1>8
<1>. QED BY <1>7, <1>8 DEF least

LEMMA FinishKeeps == ASSUME SearchInv, finish PROVE SearchInv'
<1>1. /\ status = "pop" /\ status' = "done" /\ (stack = <<>> \/ stopped)
      /\ courses' = courses /\ filters' = filters /\ stack' = stack /\ best' = best /\ stopped' = stopped
      /\ schedules' = {s \in schedules : \A t \in schedules : s.num_after_end_filter <= t.num_after_end_filter}
  BY DEF finish, config, applyPostGenerationFilters
<1>2. CoursesInv /\ IsFilter(filters) /\ courses # <<>> /\ stack \in Seq(Partials)
  BY <1>1 DEF SearchInv, StatusInv, StackInv
<1>3. CoursesInv' /\ IsFilter(filters)' /\ Partials' = Partials
  BY <1>1, <1>2, SameCourses, SamePartials
<1>4. StatusInv' /\ StackInv' /\ CoverInv'
  BY <1>1, <1>2, <1>3 DEF StatusInv, StackInv, CoverInv
<1>5. KeptInv'
  <2>1. PICK b : b = best
    OBVIOUS
  <2>2. \A t \in schedules' : Kept(t, b)
    BY <1>1, <2>1 DEF SearchInv, KeptInv
  <2>3. \A t \in schedules' : Kept(t, b)'
    BY <1>1, <2>2, SameKept
  <2>4. \A t \in schedules' : Kept(t, best)'
    BY <1>1, <2>1, <2>3 DEF Kept
  <2>. QED BY <1>1, <2>4 DEF SearchInv, KeptInv
<1>6. ResultIsComplete'
  <2> SUFFICES ASSUME ~stopped', Exact' PROVE {s.chosen : s \in schedules'} = BestCandidates'
    BY DEF ResultIsComplete
  <2>1. stack = <<>> /\ ~stopped /\ Exact /\ BestCandidates' = BestCandidates
    BY <1>1, SameCandidates
  <2>2. PICK first : first = {s.chosen : s \in schedules}
    OBVIOUS
  <2>3. first = least(Candidates, early)
    BY <1>1, <2>1, <2>2, KeptAreLeastEarly
  <2>4. BestCandidates = {x \in first : \A y \in first :
                            afterEnd(FlattenSeq(x), filters) <= afterEnd(FlattenSeq(y), filters)}
    BY <2>3 DEF BestCandidates, least, early
  <2>5. \A s \in schedules : s.num_after_end_filter = afterEnd(FlattenSeq(s.chosen), filters)
    BY <1>2, SoundCost DEF SearchInv, KeptInv, Kept
  <2>6. {s.chosen : s \in schedules'} = BestCandidates
    <3>1. ASSUME NEW s \in schedules' PROVE s.chosen \in BestCandidates
      <4>1. s \in schedules /\ \A t \in schedules : s.num_after_end_filter <= t.num_after_end_filter
        BY <1>1
      <4>2. \A y \in first : afterEnd(FlattenSeq(s.chosen), filters) <= afterEnd(FlattenSeq(y), filters)
        BY <2>2, <2>5, <4>1
      <4>. QED BY <2>2, <2>4, <4>1, <4>2
    <3>2. ASSUME NEW x \in BestCandidates PROVE x \in {s.chosen : s \in schedules'}
      <4>1. x \in first /\ \A y \in first : afterEnd(FlattenSeq(x), filters) <= afterEnd(FlattenSeq(y), filters)
        BY <2>4
      <4>2. PICK s \in schedules : s.chosen = x
        BY <2>2, <4>1
      <4>3. \A t \in schedules : s.num_after_end_filter <= t.num_after_end_filter
        BY <2>2, <2>5, <4>1, <4>2
      <4>4. s \in schedules'
        BY <1>1, <4>3
      <4>. QED BY <4>2, <4>4
    <3>. QED BY <3>1, <3>2
  <2>. QED BY <2>1, <2>6
<1>. QED BY <1>3, <1>4, <1>5, <1>6 DEF SearchInv

LEMMA SearchStutters == ASSUME SearchInv, UNCHANGED vars PROVE SearchInv'
<1>1. /\ courses' = courses /\ filters' = filters /\ status' = status /\ stack' = stack
      /\ partial' = partial /\ todo' = todo /\ schedules' = schedules /\ best' = best
      /\ stopped' = stopped
  BY DEF vars, config
<1>2. CoursesInv' /\ IsFilter(filters)' /\ Partials' = Partials
  BY <1>1, SameCourses, SamePartials DEF SearchInv
<1>3. StatusInv' /\ StackInv'
  BY <1>1, <1>2 DEF SearchInv, StatusInv, StackInv
<1>4. KeptInv'
  <2>1. PICK b : b = best
    OBVIOUS
  <2>2. \A t \in schedules' : Kept(t, b)
    BY <1>1, <2>1 DEF SearchInv, KeptInv
  <2>3. \A t \in schedules' : Kept(t, b)'
    BY <1>1, <2>2, SameKept
  <2>4. \A t \in schedules' : Kept(t, best)'
    BY <1>1, <2>1, <2>3 DEF Kept
  <2>. QED BY <1>1, <2>4 DEF SearchInv, KeptInv
<1>5. CoverInv'
  <2> SUFFICES ASSUME status # "done", ~stopped, NEW ch \in Candidates, ~exceeds(early(ch))
               PROVE  Covered(ch)'
    BY <1>1, SameCandidates, SameEarly DEF CoverInv, exceeds
  <2>1. Covered(ch)
    BY DEF SearchInv, CoverInv
  <2>. QED BY <1>1, <2>1 DEF Covered, KeptIn, ReachedFrom
<1>6. ResultIsComplete'
  BY <1>1, SameCandidates DEF SearchInv, ResultIsComplete
<1>. QED BY <1>2, <1>3, <1>4, <1>5, <1>6 DEF SearchInv

-----------------------------------------------------------------------------
(* The theorems                                                            *)

LEMMA RequestEstablishes == RequestsInit => SearchInv
<1> SUFFICES ASSUME RequestsInit PROVE SearchInv
  OBVIOUS
<1>1. asked \in Requests /\ catalogue \in {OldCatalogue, NewCatalogue}
  BY DEF RequestsInit
<1>2. PICK f \in FilterChoices : \E l \in Limits : construct(getCourses(asked, lost), f, l)
  BY DEF RequestsInit
<1>3. PICK list : list = getCourses(asked, lost)
  OBVIOUS
<1>4. list \in Seq({c \in ToSet(list) : Offered(c)})
  BY <1>1, <1>3, RequestedOffers, RequestsAssumption
<1>5. /\ courses \in sortedCourses(list) /\ filters = f /\ status = "new"
      /\ stack = <<EmptySchedule>> /\ schedules = {} /\ best = Infinity
  BY <1>2, <1>3 DEF construct
<1>6. CoursesInv
  BY <1>4, <1>5, SortedOffers
<1>7. IsFilter(filters)
  BY <1>5, GeneratorAssumption DEF IsFilter, IsBreak
<1>. QED BY <1>5, <1>6, <1>7, ConstructEstablishes

LEMMA RequestKeeps == SearchInv /\ [RequestsNext]_allVars => SearchInv'
<1> SUFFICES ASSUME SearchInv, [RequestsNext]_allVars PROVE SearchInv'
  OBVIOUS
<1>1. CASE UNCHANGED vars
  BY <1>1, SearchStutters
<1>2. CASE generateSchedules
  <2>1. start \/ pop \/ tryConfiguration \/ finish
    BY <1>2 DEF generateSchedules, Next
  <2>. QED BY <2>1, StartKeeps, PopKeeps, TryKeeps, FinishKeeps
<1>3. generateSchedules \/ UNCHANGED vars
  BY DEF RequestsNext, allVars, schedules_generate_v2, generateLocally, schedules_generate,
         firstGenerates, firstAnswers, draw, swapComponents, redraw, saveSchedule,
         timetableUpdated, expandScheduleSkeleton, expanded
<1>. QED BY <1>1, <1>2, <1>3

\* The search is always in a state from which every schedule that is still wanted can be
\* reached, and what it has put together is what it takes it for.
THEOREM SearchIsSound == RequestsSpec => []SearchInv
BY RequestEstablishes, RequestKeeps, PTL DEF RequestsSpec

LEMMA InvKept == SearchInv => KeptAreAcceptable
BY CompleteIsAcceptable DEF SearchInv, KeptInv, Kept, KeptAreAcceptable

\* Every complete schedule that generateSchedules keeps obeys every filter as a whole, though
\* addCourseConfiguration checked each course only against those before it.
THEOREM KeptSchedulesAcceptable == RequestsSpec => []KeptAreAcceptable
BY SearchIsSound, InvKept, PTL

LEMMA InvNothingLost == SearchInv => NothingBetterIsLost
<1> SUFFICES ASSUME SearchInv, status = "pop", ~stopped, NEW ch \in Candidates,
                    ~exceeds(beforeStart(FlattenSeq(ch), filters))
             PROVE  \/ ch \in {s.chosen : s \in schedules}
                    \/ \E i \in DOMAIN stack : IsPrefix(stack[i].chosen, ch)
  BY DEF NothingBetterIsLost
<1>. QED BY DEF SearchInv, CoverInv, Covered, KeptIn, ReachedFrom, early

\* Neither the pruning by num_before_start_filter nor the filters on partial schedules drop
\* the beginning of an acceptable schedule that is as good as those kept.
THEOREM NothingBetterLost == RequestsSpec => []NothingBetterIsLost
BY SearchIsSound, InvNothingLost, PTL

LEMMA InvComplete == SearchInv => AnswerIsComplete
BY DEF SearchInv, AnswerIsComplete

\* What the service is about to answer, after applyPostGenerationFilters, is exactly the
\* set of the best acceptable schedules, unless the search was cut off at the limit.
THEOREM AnswersComplete == RequestsSpec => []AnswerIsComplete
BY SearchIsSound, InvComplete, PTL

-----------------------------------------------------------------------------
(* Sets as sequences                                                       *)

\* Without repetitions.
Once(seq) == \A i, k \in DOMAIN seq : seq[i] = seq[k] => i = k

\* A list of all the members, each once.
Lists(seq, S) == seq \in Seq(S) /\ ToSet(seq) = S /\ Once(seq)

LEMMA ListsAppend ==
    ASSUME NEW S, NEW x \in S, NEW seq, Lists(seq, S \ {x})
    PROVE  Lists(Append(seq, x), S)
<1>1. seq \in Seq(S)
  BY DEF Lists
<1>2. PICK more \in Seq(S) : more = Append(seq, x)
  <2>1. \A T : seq \in Seq(T) /\ x \in T => Append(seq, x) \in Seq(T)
    OBVIOUS
  <2>. QED BY <1>1, <2>1
<1>3. /\ DOMAIN seq = 1..Len(seq) /\ DOMAIN more = 1..(Len(seq) + 1) /\ Len(seq) \in Nat
      /\ more[Len(seq) + 1] = x /\ \A i \in 1..Len(seq) : more[i] = seq[i]
  BY <1>1, <1>2
<1>4. ToSet(more) = ToSet(seq) \cup {x}
  <2>1. ASSUME NEW i \in DOMAIN more PROVE more[i] \in ToSet(seq) \cup {x}
    <3>1. CASE i = Len(seq) + 1
      BY <1>3, <3>1
    <3>2. CASE i \in 1..Len(seq)
      BY <1>3, <3>2 DEF ToSet
    <3>. QED BY <1>3, <3>1, <3>2
  <2>2. \A i \in DOMAIN seq : seq[i] \in ToSet(more)
    <3>1. \A i \in DOMAIN seq : i \in DOMAIN more /\ more[i] = seq[i]
      BY <1>3
    <3>. QED BY <3>1 DEF ToSet
  <2>3. x \in ToSet(more)
    <3>1. Len(seq) + 1 \in DOMAIN more
      BY <1>3
    <3>. QED BY <1>3, <3>1 DEF ToSet
  <2>. QED BY <2>1, <2>2, <2>3 DEF ToSet
<1>5. ASSUME NEW i \in DOMAIN more, NEW k \in DOMAIN more, more[i] = more[k] PROVE i = k
  <2>1. \A j \in DOMAIN seq : seq[j] # x
    BY DEF Lists, ToSet
  <2>2. \A j, m \in DOMAIN seq : seq[j] = seq[m] => j = m
    BY DEF Lists, Once
  <2>. QED BY <1>3, <1>5, <2>1, <2>2
<1>. QED BY <1>2, <1>4, <1>5 DEF Lists, Once

LEMMA SequenceOfLists ==
    ASSUME NEW S, IsFiniteSet(S) PROVE Lists(sequenceOf(S), S)
<1> DEFINE first(s) == CHOOSE x \in s : TRUE
           Small(n) == {s \in SUBSET S : Cardinality(s) <= n}
           Fold(f, D) == /\ DOMAIN f = D
                         /\ \A s \in D : f[s] = IF s = {} THEN <<>>
                                                ELSE Append(f[s \ {first(s)}], first(s))
<1>1. ASSUME NEW s \in SUBSET S, s # {}
      PROVE  /\ first(s) \in s /\ Cardinality(s) \in Nat /\ Cardinality(s) # 0
             /\ Cardinality(s \ {first(s)}) = Cardinality(s) - 1
  <2>1. IsFiniteSet(s) /\ first(s) \in s
    BY <1>1, FS_Subset
  <2>. QED BY <1>1, <2>1, FS_RemoveElement, FS_CardinalityType, FS_EmptySet
<1>2. \A s \in SUBSET S : Cardinality(s) \in Nat /\ (Cardinality(s) <= 0 => s = {})
  <2>1. ASSUME NEW s \in SUBSET S PROVE Cardinality(s) \in Nat /\ (Cardinality(s) = 0 => s = {})
    BY FS_Subset, FS_CardinalityType, FS_EmptySet
  <2>. QED BY <2>1
<1> HIDE DEF first
<1>3. \A n \in Nat : \E f : Fold(f, Small(n))
  <2> DEFINE I == {n \in Nat : \E f : Fold(f, Small(n))}
  <2>1. 0 \in I
    <3>1. Small(0) = {{}}
      <4>2. Cardinality({}) = 0
        BY FS_EmptySet
      <4>. QED BY <1>2, <4>2
    <3>2. Fold([s \in {{}} |-> <<>>], Small(0))
      BY <3>1
    <3>. QED BY <3>2
  <2>2. ASSUME NEW n \in Nat, n \in I PROVE n + 1 \in I
    <3>1. PICK f : Fold(f, Small(n))
      BY <2>2
    <3> DEFINE g == [s \in Small(n + 1) |->
                        IF s = {} THEN <<>> ELSE Append(f[s \ {first(s)}], first(s))]
    <3>2. ASSUME NEW s \in Small(n + 1), s # {} PROVE g[s \ {first(s)}] = f[s \ {first(s)}]
      <4>1. s \ {first(s)} \in Small(n) /\ s \ {first(s)} \in Small(n + 1)
        BY <1>1, <3>2
      <4>. QED BY <3>1, <4>1
    <3>3. Fold(g, Small(n + 1))
      BY <3>2
    <3> HIDE DEF g, Fold, Small
    <3>. QED BY <3>3
  <2> HIDE DEF I
  <2>3. Nat \subseteq I
    BY <2>1, <2>2, SetInduction
  <2>. QED BY <2>3 DEF I
<1> DEFINE Is(f) == f = [s \in SUBSET S |-> IF s = {} THEN <<>>
                                             ELSE Append(f[s \ {first(s)}], first(s))]
<1>4. \E f : Is(f)
  <2>1. Small(Cardinality(S)) = SUBSET S /\ Cardinality(S) \in Nat
    BY FS_Subset, FS_CardinalityType
  <2>2. PICK f : Fold(f, SUBSET S)
    BY <1>3, <2>1
  <2> DEFINE g == [s \in SUBSET S |-> f[s]]
  <2>3. Is(g)
    <3>1. \A s \in SUBSET S : s \ {first(s)} \in SUBSET S
      OBVIOUS
    <3>2. \A s \in SUBSET S : g[s] = IF s = {} THEN <<>> ELSE Append(g[s \ {first(s)}], first(s))
      BY <2>2, <3>1
    <3>. QED BY <3>2
  <2>. QED BY <2>3
<1>5. PICK f : f = CHOOSE x : Is(x)
  OBVIOUS
<1>6. Is(f)
  BY <1>4, <1>5
<1>7. sequenceOf(S) = f[S]
  BY <1>5 DEF sequenceOf, FoldSet, MapThenFoldSet, first
<1> DEFINE J == {n \in Nat : \A s \in Small(n) : Lists(f[s], s)}
<1>8. 0 \in J
  <2>2. f[{}] = <<>> /\ Lists(<<>>, {})
    BY <1>6 DEF Lists, ToSet, Once
  <2>. QED BY <1>2, <2>2
<1>9. ASSUME NEW n \in Nat, n \in J PROVE n + 1 \in J
  <2> SUFFICES ASSUME NEW s \in Small(n + 1), s # {} PROVE Lists(f[s], s)
    <3>1. Lists(f[{}], {})
      BY <1>6 DEF Lists, ToSet, Once
    <3>. QED BY <3>1
  <2>1. s \ {first(s)} \in Small(n)
    BY <1>1
  <2>2. Lists(f[s \ {first(s)}], s \ {first(s)})
    BY <1>9, <2>1
  <2>3. f[s] = Append(f[s \ {first(s)}], first(s))
    BY <1>6
  <2>. QED BY <1>1, <2>2, <2>3, ListsAppend
<1> HIDE DEF J
<1>10. Nat \subseteq J
  BY <1>8, <1>9, SetInduction
<1>11. S \in Small(Cardinality(S)) /\ Cardinality(S) \in Nat
  BY FS_CardinalityType
<1>. QED BY <1>7, <1>10, <1>11 DEF J

-----------------------------------------------------------------------------
(* What is asked for and what is searched                                  *)

LEMMA FunctionsFinite ==
    ASSUME NEW S, NEW T, IsFiniteSet(S), IsFiniteSet(T), NEW F \in SUBSET [S -> T]
    PROVE  IsFiniteSet(F)
<1> DEFINE graph(p) == {<<x, p[x]>> : x \in S}
           g == [p \in F |-> graph(p)]
<1>1. IsFiniteSet(SUBSET (S \X T))
  BY FS_Product, FS_SUBSET
<1>2. g \in [F -> SUBSET (S \X T)]
  OBVIOUS
<1>3. ASSUME NEW p \in F, NEW q \in F, g[p] = g[q] PROVE p = q
  <2>1. ASSUME NEW x \in S PROVE p[x] = q[x]
    <3>1. <<x, p[x]>> \in graph(p)
      OBVIOUS
    <3>2. <<x, p[x]>> \in graph(q)
      BY <1>3, <3>1
    <3>. QED BY <3>2
  <2>. QED BY <2>1
<1> HIDE DEF g
<1>4. g \in Injection(F, SUBSET (S \X T))
  BY <1>2, <1>3 DEF Injection, IsInjective
<1>. QED BY <1>1, <1>4, FS_Injection

LEMMA SectionFinite ==
    ASSUME NEW section, IsFiniteSet(section) PROVE IsFiniteSet(sectionConfigurations(section))
<1> DEFINE all == getScheduleComponents(section)
           lec == {c \in all : c.type = "LEC"}
           types == {c.type : c \in all \ lec}
           picks == {p \in [types -> all] : \A t \in types : p[t].type = t}
           made(p) == SetToSeq({p[t] : t \in types}) \o SetToSeq(lec)
<1>1. IsFiniteSet(all)
  <2>1. [c \in section |-> scheduleComponent(section, c)] \in Surjection(section, all)
    BY DEF getScheduleComponents, Surjection
  <2>. QED BY <2>1, FS_Surjection
<1> HIDE DEF all
<1>2. IsFiniteSet(types)
  <2>1. IsFiniteSet(all \ lec)
    BY <1>1, FS_Subset
  <2>2. [c \in all \ lec |-> c.type] \in Surjection(all \ lec, types)
    BY DEF Surjection
  <2>. QED BY <2>1, <2>2, FS_Surjection
<1> HIDE DEF types
<1>3. IsFiniteSet(picks)
  BY <1>1, <1>2, FunctionsFinite
<1>4. sectionConfigurations(section) = {made(p) : p \in picks}
  BY DEF sectionConfigurations, all, types
<1> HIDE DEF picks, made
<1>5. [p \in picks |-> made(p)] \in Surjection(picks, {made(p) : p \in picks})
  BY DEF Surjection
<1>. QED BY <1>3, <1>4, <1>5, FS_Surjection

LEMMA ConfigurationsFinite ==
    ASSUME NEW course, Offered(course) PROVE IsFiniteSet(getConfigurations(course))
<1> DEFINE offer(i) == sectionConfigurations(course.sections[i])
           visited == {i \in DOMAIN course.sections :
                         \A e \in {i2 \in DOMAIN course.sections : course.sections[i2] = {}} : i < e}
           offers == {offer(i) : i \in visited}
<1>1. IsFiniteSet(visited)
  BY FS_Subset DEF Offered
<1>2. [i \in visited |-> offer(i)] \in Surjection(visited, offers)
  BY DEF Surjection
<1>3. IsFiniteSet(offers)
  BY <1>1, <1>2, FS_Surjection
<1>4. \A T \in offers : IsFiniteSet(T)
  BY SectionFinite DEF Offered
<1>5. getConfigurations(course) = UNION offers
  BY DEF getConfigurations
<1>. QED BY <1>3, <1>4, <1>5, FS_UNION

LEMMA OrderedOnto ==
    ASSUME NEW n \in Nat, NEW S \in SUBSET (1..n)
    PROVE  /\ \A x \in S : \E k \in DOMAIN ordered(S) : ordered(S)[k] = x
           /\ Len(ordered(S)) = Cardinality(S)
<1>1. \E seq \in [1..Cardinality(S) -> S] : \A i, k \in DOMAIN seq : i < k => seq[i] < seq[k]
  BY EnumerationExists DEF Enumerable, Increasing
<1>2. PICK seq \in [1..Cardinality(S) -> S] :
        seq = ordered(S) /\ \A i, k \in DOMAIN seq : i < k => seq[i] < seq[k]
  BY <1>1 DEF ordered
<1>3. IsFiniteSet(S) /\ Cardinality(S) \in Nat
  <2>1. IsFiniteSet(1..n)
    BY FS_Interval
  <2>. QED BY <2>1, FS_Subset, FS_CardinalityType
<1>4. PICK c \in Nat : c = Cardinality(S)
  BY <1>3
<1>5. ASSUME NEW i \in 1..c, NEW k \in 1..c, seq[i] = seq[k] PROVE i = k
  <2>1. seq[i] \in 1..n
    BY <1>2, <1>4
  <2>2. ~(seq[i] < seq[k]) /\ ~(seq[k] < seq[i])
    BY <1>5, <2>1
  <2>3. ~(i < k) /\ ~(k < i)
    BY <1>2, <1>4, <2>2
  <2>. QED BY <2>3
<1>6. seq \in Injection(1..c, S)
  BY <1>2, <1>4, <1>5 DEF Injection, IsInjective
<1>7. Cardinality(1..c) = Cardinality(S) /\ IsFiniteSet(1..c)
  BY <1>4, FS_Interval
<1>8. seq \in Surjection(1..c, S)
  BY <1>3, <1>6, <1>7, FS_Injection
<1>9. Len(seq) = c /\ DOMAIN seq = 1..c
  BY <1>2, <1>4
<1>. QED BY <1>2, <1>4, <1>8, <1>9 DEF Surjection

\* A course with something to offer is searched.
LEMMA SortedHasAll ==
    ASSUME NEW cs, cs \in Seq({c \in ToSet(cs) : Offered(c)}), courses \in sortedCourses(cs)
    PROVE  /\ \A i \in DOMAIN cs : getConfigurations(cs[i]) # {} =>
                 \E p \in DOMAIN courses : courses[p] = cs[i]
           /\ \A p \in DOMAIN courses : \E i \in DOMAIN cs : courses[p] = cs[i]
<1> DEFINE count(i) == getConfigurationCount(cs[i])
           kept == {i \in DOMAIN cs : count(i) # 0}
<1>1. PICK order \in [1..Cardinality(kept) -> kept] :
        /\ courses = [p \in DOMAIN order |-> cs[order[p]]]
        /\ \A p, q \in DOMAIN order : p < q =>
              \/ count(order[p]) < count(order[q])
              \/ count(order[p]) = count(order[q]) /\ order[p] < order[q]
  BY DEF sortedCourses
<1>2. DOMAIN cs = 1..Len(cs) /\ Len(cs) \in Nat /\ \A i \in DOMAIN cs : Offered(cs[i])
  OBVIOUS
<1>3. \A i \in DOMAIN cs : count(i) \in Nat /\ (count(i) = 0 <=> getConfigurations(cs[i]) = {})
  BY <1>2, ConfigurationsFinite, FS_CardinalityType, FS_EmptySet DEF getConfigurationCount
<1> HIDE DEF count
<1>4. IsFiniteSet(kept) /\ Cardinality(kept) \in Nat
  <2>1. kept \subseteq 1..Len(cs) /\ IsFiniteSet(1..Len(cs))
    BY <1>2, FS_Interval
  <2>. QED BY <2>1, FS_Subset, FS_CardinalityType
<1>5. PICK c \in Nat : c = Cardinality(kept)
  BY <1>4
<1>6. ASSUME NEW p \in 1..c, NEW q \in 1..c, p < q PROVE order[p] # order[q]
  <2>1. order[p] \in DOMAIN cs /\ order[q] \in DOMAIN cs
    BY <1>1, <1>5
  <2>2. /\ order[p] \in Nat /\ order[q] \in Nat
        /\ count(order[p]) \in Nat /\ count(order[q]) \in Nat
    BY <1>2, <1>3, <2>1
  <2>3. \/ count(order[p]) < count(order[q])
        \/ count(order[p]) = count(order[q]) /\ order[p] < order[q]
    BY <1>1, <1>5, <1>6
  <2>. QED BY <2>2, <2>3
<1>7. order \in Injection(1..c, kept)
  <2>1. order \in [1..c -> kept]
    BY <1>1, <1>5
  <2>2. \A p, q \in 1..c : order[p] = order[q] => p = q
    <3>1. \A p, q \in 1..c : p = q \/ p < q \/ q < p
      OBVIOUS
    <3>. QED BY <1>6, <3>1
  <2>. QED BY <2>1, <2>2 DEF Injection, IsInjective
<1>8. Cardinality(1..c) = Cardinality(kept)
  BY <1>5, FS_Interval
<1>9. order \in Surjection(1..c, kept)
  BY <1>4, <1>7, <1>8, FS_Injection
<1>10. ASSUME NEW i \in DOMAIN cs, getConfigurations(cs[i]) # {}
       PROVE  \E p \in DOMAIN courses : courses[p] = cs[i]
  <2>1. i \in kept
    BY <1>3, <1>10
  <2>2. PICK p \in 1..c : order[p] = i
    BY <1>9, <2>1 DEF Surjection
  <2>. QED BY <1>1, <1>5, <2>2
<1>11. \A p \in DOMAIN courses : \E i \in DOMAIN cs : courses[p] = cs[i]
  BY <1>1
<1>. QED BY <1>10, <1>11

\* The slots of the sections of a course, as the service reads them.
Slots(timetable, meta) ==
    UNION {getScheduleComponents(parsed(section)) : section \in ToSet(timetable[meta.id])}

LEMMA CourseIsFrom ==
    ASSUME RequestsAssumption, NEW timetable \in {OldCatalogue, NewCatalogue},
           NEW meta, meta.id \in DOMAIN OldCatalogue
    PROVE  /\ courseFrom(timetable, meta).mandatory = meta.mandatory
           /\ \A i \in DOMAIN courseFrom(timetable, meta).sections :
                 \E section \in ToSet(timetable[meta.id]) :
                    courseFrom(timetable, meta).sections[i] = parsed(section)
<1> DEFINE all == timetable[meta.id]
           wanted == ordered(meta.sections \cap DOMAIN all)
           list == [k \in DOMAIN wanted |-> parsed(all[wanted[k]])]
<1>1. meta.id \in DOMAIN timetable
  BY DEF RequestsAssumption
<1>2. DOMAIN all = 1..Len(all) /\ Len(all) \in Nat
  BY <1>1 DEF RequestsAssumption
<1>3. wanted \in Seq(meta.sections \cap DOMAIN all)
  BY WantedAre
<1> HIDE DEF all, wanted
<1>4. ASSUME NEW k \in DOMAIN list PROVE \E section \in ToSet(all) : list[k] = parsed(section)
  <2>1. wanted[k] \in DOMAIN all
    BY <1>3
  <2>2. all[wanted[k]] \in ToSet(all)
    BY <2>1 DEF ToSet
  <2>. QED BY <2>2
<1>5. DOMAIN list = DOMAIN wanted /\ DOMAIN wanted = 1..Len(wanted) /\ Len(wanted) \in Nat
  BY <1>3
<1>6. evaluated(list) = list
  <2>1. list \in Seq({list[k] : k \in DOMAIN wanted})
    BY <1>5
  <2>. QED BY <2>1, EvaluatedType
<1>7. courseFrom(timetable, meta).sections = list
  BY <1>6 DEF courseFrom, all, wanted
<1>8. courseFrom(timetable, meta).mandatory = meta.mandatory
  BY DEF courseFrom
<1>. QED BY <1>4, <1>7, <1>8 DEF all

LEMMA SectionSlots ==
    ASSUME NEW section, IsFiniteSet(section), NEW cs \in sectionConfigurations(section)
    PROVE  ToSet(cs) \subseteq getScheduleComponents(section)
<1> DEFINE all == getScheduleComponents(section)
           lec == {c \in all : c.type = "LEC"}
           types == {c.type : c \in all \ lec}
<1>1. IsFiniteSet(all)
  <2>1. [c \in section |-> scheduleComponent(section, c)] \in Surjection(section, all)
    BY DEF getScheduleComponents, Surjection
  <2>. QED BY <2>1, FS_Surjection
<1>2. PICK p \in [types -> all] : cs = SetToSeq({p[t] : t \in types}) \o SetToSeq(lec)
  BY DEF sectionConfigurations
<1> DEFINE picked == {p[t] : t \in types}
<1>3. picked \subseteq all /\ lec \subseteq all
  BY <1>2
<1>4. IsFiniteSet(picked) /\ IsFiniteSet(lec)
  BY <1>1, <1>3, FS_Subset
<1> HIDE DEF all, lec, picked
<1>5. PICK a \in Seq(picked), b \in Seq(lec) : a = SetToSeq(picked) /\ b = SetToSeq(lec)
  BY <1>4, SetToSeqType
<1>6. a \in Seq(all) /\ b \in Seq(all)
  BY <1>3, <1>5
<1>7. cs = a \o b
  BY <1>2, <1>5 DEF picked, lec
<1>8. cs \in Seq(all)
  BY <1>6, <1>7, Concat
<1>. QED BY <1>8 DEF ToSet, all

LEMMA ConfigurationSlots ==
    ASSUME RequestsAssumption, NEW timetable \in {OldCatalogue, NewCatalogue},
           NEW meta, meta.id \in DOMAIN OldCatalogue,
           NEW cs \in getConfigurations(courseFrom(timetable, meta))
    PROVE  ToSet(cs) \subseteq Slots(timetable, meta)
<1>1. PICK course : course = courseFrom(timetable, meta)
  OBVIOUS
<1>2. PICK i \in DOMAIN course.sections : cs \in sectionConfigurations(course.sections[i])
  BY <1>1 DEF getConfigurations
<1>3. Offered(course)
  BY <1>1, CourseFrom
<1>4. ToSet(cs) \subseteq getScheduleComponents(course.sections[i])
  BY <1>2, <1>3, SectionSlots DEF Offered
<1>5. PICK section \in ToSet(timetable[meta.id]) : course.sections[i] = parsed(section)
  BY <1>1, CourseIsFrom
<1>. QED BY <1>4, <1>5 DEF Slots

\* Entries for courses that there are.
Metas(metas) ==
    /\ DOMAIN metas = 1..Len(metas) /\ Len(metas) \in Nat
    /\ \A i \in DOMAIN metas : metas[i].id \in DOMAIN OldCatalogue

\* Every course asked for that data access delivers is one of the request, and no other is.
LEMMA CoursesDelivered ==
    ASSUME NEW metas, Metas(metas), NEW gone
    PROVE  /\ \A i \in DOMAIN metas : metas[i].id \notin gone =>
                 \E k \in DOMAIN getCourses(metas, gone) :
                    getCourses(metas, gone)[k] = dataToCourse(metas[i])
           /\ \A k \in DOMAIN getCourses(metas, gone) : \E i \in DOMAIN metas :
                 metas[i].id \notin gone /\ getCourses(metas, gone)[k] = dataToCourse(metas[i])
           /\ Len(getCourses(metas, gone)) = Len(metas) =>
                 \A i \in DOMAIN metas : metas[i].id \notin gone
<1> DEFINE here == {i \in DOMAIN metas : metas[i].id \notin gone}
           kept == ordered(here)
           list == [k \in DOMAIN kept |-> dataToCourse(metas[kept[k]])]
<1>1. DOMAIN metas = 1..Len(metas) /\ Len(metas) \in Nat
  BY DEF Metas
<1>2. kept \in Seq(here)
  BY <1>1, OrderedType
<1>3. (\A x \in here : \E k \in DOMAIN kept : kept[k] = x) /\ Len(kept) = Cardinality(here)
  BY <1>1, OrderedOnto
<1> HIDE DEF kept
<1>4. DOMAIN list = DOMAIN kept /\ DOMAIN kept = 1..Len(kept) /\ Len(kept) \in Nat
  BY <1>2
<1>5. evaluated(list) = list
  <2>1. list \in Seq({list[k] : k \in DOMAIN kept})
    BY <1>4
  <2>. QED BY <2>1, EvaluatedType
<1>6. getCourses(metas, gone) = list
  BY <1>5 DEF getCourses, kept
<1>7. \A i \in DOMAIN metas : metas[i].id \notin gone => \E k \in DOMAIN list : list[k] = dataToCourse(metas[i])
  BY <1>3
<1>8. \A k \in DOMAIN list : \E i \in DOMAIN metas :
         metas[i].id \notin gone /\ list[k] = dataToCourse(metas[i])
  BY <1>2
<1>9. ASSUME Len(list) = Len(metas) PROVE here = DOMAIN metas
  <2>1. Len(list) = Len(kept)
    BY <1>4
  <2>2. IsFiniteSet(DOMAIN metas) /\ Cardinality(DOMAIN metas) = Len(metas)
    <3>1. PICK n \in Nat : DOMAIN metas = 1..n /\ n = Len(metas)
      BY <1>1
    <3>2. IsFiniteSet(1..n) /\ Cardinality(1..n) = n
      BY FS_Interval
    <3>. QED BY <3>1, <3>2
  <2>3. Cardinality(here) = Cardinality(DOMAIN metas)
    BY <1>3, <1>9, <2>1, <2>2
  <2>. QED BY <2>2, <2>3, FS_Subset
<1> HIDE DEF list
<1>. QED BY <1>6, <1>7, <1>8, <1>9

\* What is searched: the courses of the request with something to offer.
SearchedInv ==
    /\ asked \in Requests
    /\ catalogue \in {OldCatalogue, NewCatalogue}
    /\ phase \in {"generating", "answered", "drawn"} => requested = getCourses(asked, lost)
    /\ phase \in {"generating", "answered", "drawn"} => courses \in sortedCourses(requested)

LEMMA CoursesSearched ==
    ASSUME RequestsAssumption, SearchedInv, phase \in {"generating", "answered", "drawn"}
    PROVE  /\ \A i \in DOMAIN asked :
                 asked[i].id \notin lost /\ getConfigurations(dataToCourse(asked[i])) # {} =>
                    \E p \in DOMAIN courses : courses[p] = dataToCourse(asked[i])
           /\ \A p \in DOMAIN courses : \E i \in DOMAIN asked : courses[p] = dataToCourse(asked[i])
<1>1. PICK list : list = getCourses(asked, lost)
  OBVIOUS
<1>2. list \in Seq({c \in ToSet(list) : Offered(c)}) /\ courses \in sortedCourses(list)
  BY <1>1, RequestedOffers DEF SearchedInv
<1>3. /\ \A i \in DOMAIN asked : asked[i].id \notin lost =>
            \E k \in DOMAIN list : list[k] = dataToCourse(asked[i])
      /\ \A k \in DOMAIN list : \E i \in DOMAIN asked : list[k] = dataToCourse(asked[i])
  <2>1. Metas(asked)
    BY DEF SearchedInv, RequestsAssumption, Metas
  <2>. QED BY <1>1, <2>1, CoursesDelivered
<1>4. /\ \A k \in DOMAIN list : getConfigurations(list[k]) # {} => \E p \in DOMAIN courses : courses[p] = list[k]
      /\ \A p \in DOMAIN courses : \E k \in DOMAIN list : courses[p] = list[k]
  BY <1>2, SortedHasAll
<1>5. ASSUME NEW i \in DOMAIN asked, asked[i].id \notin lost, getConfigurations(dataToCourse(asked[i])) # {}
      PROVE  \E p \in DOMAIN courses : courses[p] = dataToCourse(asked[i])
  <2>1. PICK k \in DOMAIN list : list[k] = dataToCourse(asked[i])
    BY <1>3, <1>5
  <2>. QED BY <1>4, <1>5, <2>1
<1>6. ASSUME NEW p \in DOMAIN courses PROVE \E i \in DOMAIN asked : courses[p] = dataToCourse(asked[i])
  <2>1. PICK k \in DOMAIN list : courses[p] = list[k]
    BY <1>4
  <2>. QED BY <1>3, <2>1
<1>. QED BY <1>5, <1>6

-----------------------------------------------------------------------------
(* The members of what is flattened                                        *)

LEMMA MembersOfConcat ==
    ASSUME NEW P, NEW a \in Seq(P), NEW b \in Seq(P)
    PROVE  ToSet(a \o b) = ToSet(a) \cup ToSet(b)
<1>1. PICK c : c = a \o b
  OBVIOUS
<1>2. /\ DOMAIN a = 1..Len(a) /\ Len(a) \in Nat /\ DOMAIN b = 1..Len(b) /\ Len(b) \in Nat
      /\ DOMAIN c = 1..(Len(a) + Len(b))
      /\ \A i \in DOMAIN a : i \in DOMAIN c /\ c[i] = a[i]
      /\ \A i \in DOMAIN b : Len(a) + i \in DOMAIN c /\ c[Len(a) + i] = b[i]
      /\ \A i \in DOMAIN c : i \in DOMAIN a \/ i - Len(a) \in DOMAIN b
  BY <1>1, ConcatMembers
<1>3. \A i \in DOMAIN a : a[i] \in ToSet(c)
  BY <1>2 DEF ToSet
<1>4. \A i \in DOMAIN b : b[i] \in ToSet(c)
  BY <1>2 DEF ToSet
<1>5. ASSUME NEW i \in DOMAIN c PROVE c[i] \in ToSet(a) \cup ToSet(b)
  <2>1. CASE i \in DOMAIN a
    BY <1>2, <2>1 DEF ToSet
  <2>2. CASE i - Len(a) \in DOMAIN b
    <3>1. Len(a) + (i - Len(a)) = i
      BY <1>2
    <3>2. c[i] = b[i - Len(a)]
      BY <1>2, <2>2, <3>1
    <3>. QED BY <2>2, <3>2 DEF ToSet
  <2>. QED BY <1>2, <2>1, <2>2
<1>6. ToSet(c) \subseteq ToSet(a) \cup ToSet(b)
  BY <1>5 DEF ToSet
<1>7. ToSet(a) \subseteq ToSet(c) /\ ToSet(b) \subseteq ToSet(c)
  BY <1>3, <1>4 DEF ToSet
<1>. QED BY <1>1, <1>6, <1>7

LEMMA FlattenMembers ==
    ASSUME NEW P, NEW ch \in Seq(Seq(P))
    PROVE  ToSet(FlattenSeq(ch)) = UNION {ToSet(ch[i]) : i \in DOMAIN ch}
<1>. PICK n \in Nat : n = Len(ch)
  OBVIOUS
<1>1. PICK f : Steps(f, n, P, ch) /\ FlattenSeq(ch) = f[n]
  BY FlattenSteps
<1> DEFINE I == {m \in Nat : m <= n => ToSet(f[m]) = UNION {ToSet(ch[i]) : i \in 1..m}}
<1>2. 0 \in I
  <2>1. f[0] = <<>>
    BY <1>1 DEF Steps
  <2>2. ToSet(<<>>) = {}
    BY DEF ToSet
  <2>. QED BY <2>1, <2>2
<1>3. ASSUME NEW m \in Nat, m \in I PROVE m + 1 \in I
  <2> SUFFICES ASSUME m + 1 <= n
               PROVE  ToSet(f[m + 1]) = UNION {ToSet(ch[i]) : i \in 1..(m + 1)}
    OBVIOUS
  <2>1. PICK a \in Seq(P), b \in Seq(P) : a = f[m] /\ b = ch[m + 1]
    BY <1>1 DEF Steps
  <2>2. f[m + 1] = a \o b
    <3>1. m + 1 \in 1..n /\ (m + 1) - 1 = m
      OBVIOUS
    <3>. QED BY <1>1, <2>1, <3>1 DEF Steps
  <2>3. ToSet(f[m + 1]) = ToSet(a) \cup ToSet(b)
    BY <2>2, MembersOfConcat
  <2>4. ToSet(a) = UNION {ToSet(ch[i]) : i \in 1..m}
    BY <1>3, <2>1
  <2>5. 1..(m + 1) = 1..m \cup {m + 1}
    OBVIOUS
  <2>. QED BY <2>1, <2>3, <2>4, <2>5
<1> HIDE DEF I
<1>4. n \in I
  BY <1>2, <1>3, SetInduction
<1>5. DOMAIN ch = 1..n
  OBVIOUS
<1>. QED BY <1>1, <1>4, <1>5 DEF I

-----------------------------------------------------------------------------
(* The answer                                                              *)

\* All the ids of the courses asked for.
AskedIds(timetable) == UNION {UNION {ids(section) : section \in ToSet(timetable[asked[i].id])} :
                                 i \in DOMAIN asked}

LEMMA AskedIdsFinite ==
    ASSUME RequestsAssumption, asked \in Requests, NEW timetable \in {OldCatalogue, NewCatalogue}
    PROVE  IsFiniteSet(AskedIds(timetable))
<1> DEFINE of(i) == UNION {ids(section) : section \in ToSet(timetable[asked[i].id])}
           all == {of(i) : i \in DOMAIN asked}
<1>1. ASSUME NEW i \in DOMAIN asked PROVE IsFiniteSet(of(i))
  <2>1. PICK id : id = asked[i].id
    OBVIOUS
  <2>2. id \in DOMAIN timetable
    BY <2>1 DEF RequestsAssumption
  <2>3. /\ DOMAIN timetable[id] = 1..Len(timetable[id]) /\ Len(timetable[id]) \in Nat
        /\ \A k \in DOMAIN timetable[id] : IsFiniteSet(timetable[id][k])
    BY <2>2 DEF RequestsAssumption
  <2> DEFINE sections == ToSet(timetable[id])
             names == {ids(section) : section \in sections}
  <2>4. IsFiniteSet(DOMAIN timetable[id])
    <3>1. PICK n \in Nat : n = Len(timetable[id])
      BY <2>3
    <3>2. IsFiniteSet(1..n)
      BY FS_Interval
    <3>. QED BY <2>3, <3>1, <3>2
  <2>5. [k \in DOMAIN timetable[id] |-> timetable[id][k]] \in Surjection(DOMAIN timetable[id], sections)
    BY DEF Surjection, ToSet
  <2>6. IsFiniteSet(sections)
    BY <2>4, <2>5, FS_Surjection
  <2>7. \A section \in sections : IsFiniteSet(section)
    BY <2>3 DEF ToSet
  <2> HIDE DEF sections
  <2>8. [section \in sections |-> ids(section)] \in Surjection(sections, names)
    BY DEF Surjection
  <2>9. IsFiniteSet(names)
    BY <2>6, <2>8, FS_Surjection
  <2>10. ASSUME NEW section \in sections PROVE IsFiniteSet(ids(section))
    <3>1. [c \in section |-> c.id] \in Surjection(section, ids(section))
      BY DEF Surjection, ids
    <3>. QED BY <2>7, <3>1, FS_Surjection
  <2>11. IsFiniteSet(UNION names)
    <3>1. \A T \in names : IsFiniteSet(T)
      BY <2>10
    <3>. QED BY <2>9, <3>1, FS_UNION
  <2>. QED BY <2>1, <2>11 DEF sections
<1>2. IsFiniteSet(DOMAIN asked)
  BY FS_Interval DEF RequestsAssumption
<1> HIDE DEF of
<1>3. [i \in DOMAIN asked |-> of(i)] \in Surjection(DOMAIN asked, all)
  BY DEF Surjection
<1>4. IsFiniteSet(UNION all)
  <2>1. IsFiniteSet(all)
    BY <1>2, <1>3, FS_Surjection
  <2>2. \A T \in all : IsFiniteSet(T)
    BY <1>1
  <2>. QED BY <2>1, <2>2, FS_UNION
<1>. QED BY <1>4 DEF AskedIds, of

\* A slot has components, all of them of its course.
LEMMA SlotIds ==
    ASSUME NEW timetable, NEW i \in DOMAIN asked, NEW slot \in Slots(timetable, asked[i])
    PROVE  /\ slot.components # {}
           /\ slot.components \subseteq ids(UNION ToSet(timetable[asked[i].id]))
           /\ slot.components \subseteq AskedIds(timetable)
<1>1. PICK section \in ToSet(timetable[asked[i].id]) : slot \in getScheduleComponents(parsed(section))
  BY DEF Slots
<1>2. PICK c \in parsed(section) : slot = scheduleComponent(parsed(section), c)
  BY <1>1 DEF getScheduleComponents
<1>3. slot.components = {d.id : d \in {d \in parsed(section) : sameSlot(c, d)}}
  BY <1>2 DEF scheduleComponent
<1>4. c.id \in slot.components
  BY <1>2, <1>3 DEF sameSlot
<1>5. slot.components \subseteq ids(section)
  BY <1>3 DEF ids, parsed
<1>6. ids(section) \subseteq ids(UNION ToSet(timetable[asked[i].id]))
  BY DEF ids
<1>7. ids(section) \subseteq AskedIds(timetable)
  BY DEF AskedIds
<1>. QED BY <1>4, <1>5, <1>6, <1>7

\* The slots of all the courses asked for.
AskedSlots(timetable) == UNION {Slots(timetable, asked[i]) : i \in DOMAIN asked}

\* The component that is drawn of a slot.
shownOf(slot) == sequenceOf(slot.components)[1]

LEMMA ShownIsMember ==
    ASSUME NEW slot, IsFiniteSet(slot.components), slot.components # {}
    PROVE  /\ shownOf(slot) \in slot.components /\ 1 \in DOMAIN sequenceOf(slot.components)
<1>1. PICK list : list = sequenceOf(slot.components)
  OBVIOUS
<1>2. list \in Seq(slot.components) /\ ToSet(list) = slot.components
  BY <1>1, SequenceOfLists DEF Lists
<1>3. list # <<>>
  BY <1>2 DEF ToSet
<1>4. 1 \in DOMAIN list
  BY <1>2, <1>3
<1>. QED BY <1>1, <1>2, <1>4 DEF shownOf

\* What compressSchedules writes can be read again, as the client does.
IsReadable(found, made) ==
    \E s \in found :
        /\ DOMAIN made = DOMAIN s
        /\ \A k \in DOMAIN s : compressSchedules(found).component_ids[made[k][1]] = shownOf(s[k])

LEMMA Compressed ==
    ASSUME NEW found, NEW T, \A s \in found : ToSet(s) \subseteq T, NEW I, IsFiniteSet(I),
           \A slot \in T : slot.components # {} /\ slot.components \subseteq I,
           NEW made \in compressSchedules(found).schedules
    PROVE  IsReadable(found, made)
<1> DEFINE all == UNION {UNION {alternates.components : alternates \in ToSet(s)} : s \in found}
           component_ids == sequenceOf(all)
           position(c) == CHOOSE p \in DOMAIN component_ids : component_ids[p] = c
           positions(slot) == LET cs == sequenceOf(slot.components) IN [i \in DOMAIN cs |-> position(cs[i])]
<1>1. /\ compressSchedules(found).component_ids = component_ids
      /\ compressSchedules(found).schedules = {[k \in DOMAIN s |-> positions(s[k])] : s \in found}
  BY DEF compressSchedules
<1>2. all \subseteq I
  OBVIOUS
<1>3. ToSet(component_ids) = all
  BY <1>2, FS_Subset, SequenceOfLists DEF Lists
<1>4. PICK s \in found : made = [k \in DOMAIN s |-> positions(s[k])]
  BY <1>1
<1>5. ASSUME NEW k \in DOMAIN s PROVE component_ids[made[k][1]] = shownOf(s[k])
  <2>1. PICK slot : slot = s[k]
    OBVIOUS
  <2>2. slot \in ToSet(s)
    BY <2>1 DEF ToSet
  <2>3. slot.components \subseteq all
    BY <2>2
  <2>4. IsFiniteSet(slot.components) /\ slot.components # {}
    BY <2>2, FS_Subset
  <2>5. shownOf(slot) \in all /\ 1 \in DOMAIN sequenceOf(slot.components)
    BY <2>3, <2>4, ShownIsMember
  <2>6. made[k][1] = position(shownOf(slot))
    BY <1>4, <2>1, <2>5 DEF shownOf
  <2>7. \E p \in DOMAIN component_ids : component_ids[p] = shownOf(slot)
    BY <1>3, <2>5 DEF ToSet
  <2>8. component_ids[position(shownOf(slot))] = shownOf(slot)
    BY <2>7
  <2>. QED BY <2>1, <2>6, <2>8
<1>6. DOMAIN made = DOMAIN s
  BY <1>4
<1>. QED BY <1>1, <1>5, <1>6 DEF IsReadable

\* What is kept is put together from the slots of the courses asked for, with one at
\* least of each that is mandatory.
LEMMA KeptSlots ==
    ASSUME RequestsAssumption, SearchInv, SearchedInv,
           phase \in {"generating", "answered", "drawn"}, NEW s \in schedules
    PROVE  /\ s.components \in Seq(Pieces)
           /\ ToSet(s.components) \subseteq AskedSlots(catalogue)
           /\ \A i \in DOMAIN asked : \A p \in DOMAIN courses :
                 courses[p] = dataToCourse(asked[i]) /\ asked[i].mandatory =>
                    \E k \in DOMAIN s.components : s.components[k] \in Slots(catalogue, asked[i])
<1>1. PICK ch : ch = s.chosen
  OBVIOUS
<1>2. Picks(ch) /\ s.components = FlattenSeq(ch) /\ Len(ch) = Len(courses)
  BY <1>1 DEF SearchInv, KeptInv, Kept, Sound, scheduleOf
<1>3. ch \in Seq(Seq(Pieces)) /\ DOMAIN ch = DOMAIN courses
  BY <1>2 DEF Picks, SearchInv, CoursesInv
<1>4. FlattenSeq(ch) \in Seq(Pieces)
  BY <1>2, PicksType DEF SearchInv
<1>5. ToSet(s.components) = UNION {ToSet(ch[p]) : p \in DOMAIN ch}
  BY <1>2, <1>3, FlattenMembers
<1>6. ASSUME NEW i \in DOMAIN asked, NEW p \in DOMAIN courses, courses[p] = dataToCourse(asked[i])
      PROVE  ToSet(ch[p]) \subseteq Slots(catalogue, asked[i])
  <2>1. CASE ch[p] = <<>>
    BY <2>1 DEF ToSet
  <2>2. CASE ch[p] # <<>>
    <3>1. ch[p] \in getConfigurations(courses[p])
      BY <1>2, <1>3, <2>2 DEF Picks
    <3>2. ch[p] \in getConfigurations(courseFrom(catalogue, asked[i]))
      BY <1>6, <3>1 DEF dataToCourse
    <3>3. asked[i].id \in DOMAIN OldCatalogue
      BY DEF RequestsAssumption, SearchedInv
    <3>. QED BY <3>2, <3>3, ConfigurationSlots DEF SearchedInv
  <2>. QED BY <2>1, <2>2
<1>7. \A p \in DOMAIN courses : \E i \in DOMAIN asked : courses[p] = dataToCourse(asked[i])
  BY CoursesSearched
<1>8. ToSet(s.components) \subseteq AskedSlots(catalogue)
  BY <1>3, <1>5, <1>6, <1>7 DEF AskedSlots
<1>9. ASSUME NEW i \in DOMAIN asked, NEW p \in DOMAIN courses,
             courses[p] = dataToCourse(asked[i]), asked[i].mandatory
      PROVE  \E k \in DOMAIN s.components : s.components[k] \in Slots(catalogue, asked[i])
  <2>1. asked[i].id \in DOMAIN OldCatalogue
    BY DEF RequestsAssumption, SearchedInv
  <2>2. courses[p].mandatory
    BY <1>9, <2>1, CourseIsFrom DEF dataToCourse, SearchedInv
  <2>3. ch[p] # <<>> /\ ch[p] \in Seq(Pieces)
    BY <1>2, <1>3, <2>2 DEF Picks
  <2>4. 1 \in DOMAIN ch[p]
    BY <2>3
  <2>5. ch[p][1] \in ToSet(ch[p])
    BY <2>4 DEF ToSet
  <2>6. ch[p][1] \in ToSet(s.components) /\ ch[p][1] \in Slots(catalogue, asked[i])
    BY <1>3, <1>5, <1>6, <1>9, <2>5
  <2>. QED BY <2>6 DEF ToSet
<1>. QED BY <1>2, <1>4, <1>8, <1>9

\* What version 2 has answered: the schedules it found, and what it was not given.
AnswerInv ==
    phase = "answered" /\ answer.error = "none" =>
        /\ answer.data = compressSchedules({s.components : s \in schedules})
        /\ \A i \in DOMAIN asked :
              asked[i].id \in lost => <<"SCHED_3000", asked[i].id>> \in answer.messages

LEMMA SameRequest ==
    ASSUME asked' = asked, lost' = lost, catalogue' = catalogue
    PROVE  getCourses(asked, lost)' = getCourses(asked, lost)
BY DEF getCourses, dataToCourse

LEMMA SearchedKept == ASSUME SearchedInv, [RequestsNext]_allVars PROVE SearchedInv'
<1>1. asked' = asked /\ lost' = lost
  BY DEF RequestsNext, allVars, request, generateSchedules, schedules_generate_v2, generateLocally,
         schedules_generate, firstGenerates, firstAnswers, draw, swapComponents, redraw,
         saveSchedule, timetableUpdated, expandScheduleSkeleton, expanded
<1>2. CASE timetableUpdated
  BY <1>1, <1>2 DEF timetableUpdated, SearchedInv
<1>3. CASE ~timetableUpdated
  <2>1. catalogue' = catalogue
    BY <1>3 DEF RequestsNext, allVars, request, generateSchedules, schedules_generate_v2,
           generateLocally, schedules_generate, firstGenerates, firstAnswers, draw,
           swapComponents, redraw, saveSchedule, expandScheduleSkeleton, expanded
  <2>2. UNCHANGED config
    BY <1>3 DEF RequestsNext, allVars, vars, generateSchedules, Next, start, pop, tryConfiguration,
           finish, schedules_generate_v2, generateLocally, schedules_generate, firstGenerates,
           firstAnswers, draw, swapComponents, redraw, saveSchedule, expandScheduleSkeleton,
           expanded
  <2>3. requested' = requested /\ courses' = courses
    BY <2>2 DEF config
  <2>4. phase' \in {"generating", "answered", "drawn"} =>
           phase \in {"generating", "answered", "drawn"}
    BY <1>3 DEF RequestsNext, allVars, generateSchedules, schedules_generate_v2, generateLocally,
           schedules_generate, firstGenerates, firstAnswers, draw, swapComponents, redraw,
           saveSchedule, expandScheduleSkeleton, expanded
  <2>5. getCourses(asked, lost)' = getCourses(asked, lost)
    BY <1>1, <2>1, SameRequest
  <2>. QED BY <1>1, <2>1, <2>3, <2>4, <2>5 DEF SearchedInv
<1>. QED BY <1>2, <1>3

\* The worker of the client is only asked when nothing was lost.
LEMMA NothingLostLocally ==
    ASSUME RequestsAssumption, SearchedInv, generateLocally
    PROVE  \A i \in DOMAIN asked : asked[i].id \notin lost
<1>1. DOMAIN asked = 1..Len(asked) /\ Len(asked) \in Nat
  BY DEF RequestsAssumption, SearchedInv
<1> DEFINE list == [i \in DOMAIN asked |-> deserializeCourse(asked[i])]
<1>2. list \in Seq({list[i] : i \in DOMAIN asked})
  BY <1>1
<1>3. Len(list) = Len(asked)
  BY <1>1
<1>4. requested = evaluated(list) /\ requested = getCourses(asked, lost)
  BY DEF generateLocally, SearchedInv
<1> HIDE DEF list
<1>5. evaluated(list) = list
  BY <1>2, EvaluatedType
<1>6. Len(getCourses(asked, lost)) = Len(asked)
  BY <1>3, <1>4, <1>5
<1>7. Metas(asked)
  BY DEF SearchedInv, RequestsAssumption, Metas
<1>. QED BY <1>6, <1>7, CoursesDelivered

LEMMA AnswerKept == ASSUME SearchedInv, AnswerInv, [RequestsNext]_allVars PROVE AnswerInv'
<1> DEFINE bundle == compressSchedules({s.components : s \in schedules})
<1>1. CASE schedules_generate_v2
  <2>1. UNCHANGED <<vars, request>> /\ answer' = respondV2
    BY <1>1 DEF schedules_generate_v2
  <2>2. schedules' = schedules /\ asked' = asked /\ lost' = lost
    BY <2>1 DEF vars, request
  <2>3. ASSUME respondV2.error = "none"
        PROVE  respondV2.data = bundle /\ missing(asked, lost) \subseteq respondV2.messages
    BY <2>3 DEF respondV2, failure, NoAnswer
  <2>4. \A i \in DOMAIN asked : asked[i].id \in lost =>
           <<"SCHED_3000", asked[i].id>> \in missing(asked, lost)
    BY DEF missing, ToSet
  <2> HIDE DEF bundle
  <2>5. bundle' = bundle
    BY <2>2 DEF bundle
  <2>6. answer'.error = "none" => answer'.data = bundle' /\ missing(asked, lost) \subseteq answer'.messages
    BY <2>1, <2>3, <2>5
  <2>. QED BY <2>2, <2>4, <2>6 DEF AnswerInv, bundle
<1>2. CASE generateLocally
  <2>1. UNCHANGED <<vars, request>> /\ answer' = localResult
    BY <1>2 DEF generateLocally
  <2>2. schedules' = schedules /\ asked' = asked /\ lost' = lost
    BY <2>1 DEF vars, request
  <2>3. ASSUME localResult.error = "none" PROVE localResult.data = bundle
    BY <2>3 DEF localResult, failure, NoAnswer, serializeSchedules
  <2>4. \A i \in DOMAIN asked : asked[i].id \notin lost
    BY <1>2, NothingLostLocally, RequestsAssumption
  <2> HIDE DEF bundle
  <2>5. bundle' = bundle
    BY <2>2 DEF bundle
  <2>6. answer'.error = "none" => answer'.data = bundle'
    BY <2>1, <2>3, <2>5
  <2>. QED BY <2>2, <2>4, <2>6 DEF AnswerInv, bundle
<1>3. CASE ~schedules_generate_v2 /\ ~generateLocally
  <2>1. phase' = "answered" => UNCHANGED allVars
    BY <1>3 DEF RequestsNext, generateSchedules, schedules_generate, firstGenerates,
           firstAnswers, draw, swapComponents, redraw, saveSchedule, timetableUpdated,
           expandScheduleSkeleton, expanded
  <2>2. ASSUME UNCHANGED allVars PROVE AnswerInv'
    <3>1. schedules' = schedules /\ asked' = asked /\ lost' = lost /\ answer' = answer /\ phase' = phase
      BY <2>2 DEF allVars, vars, request
    <3>. QED BY <3>1 DEF AnswerInv
  <2>. QED BY <2>1, <2>2 DEF AnswerInv
<1>. QED BY <1>1, <1>2, <1>3

AnsweredInv == SearchInv /\ SearchedInv /\ AnswerInv

\* Each course that was asked for as mandatory is accounted for.
LEMMA AnsweredAccounts ==
    ASSUME RequestsAssumption, AnsweredInv PROVE EveryCourseIsAccountedFor
<1> SUFFICES ASSUME phase = "answered", answer.error = "none", NEW i \in DOMAIN asked,
                    asked[i].mandatory, asked[i].id \notin lost,
                    getConfigurations(dataToCourse(asked[i])) # {},
                    NEW made \in answer.data.schedules
             PROVE  \E k \in DOMAIN made :
                       answer.data.component_ids[made[k][1]] \in ids(UNION ToSet(catalogue[asked[i].id]))
  BY DEF EveryCourseIsAccountedFor, AnsweredInv, AnswerInv
<1> DEFINE found == {s.components : s \in schedules}
<1>1. /\ asked \in Requests /\ catalogue \in {OldCatalogue, NewCatalogue}
      /\ answer.data = compressSchedules(found)
  BY DEF AnsweredInv, AnswerInv, SearchedInv
<1>2. PICK p \in DOMAIN courses : courses[p] = dataToCourse(asked[i])
  BY CoursesSearched DEF AnsweredInv
<1>. PICK table \in {OldCatalogue, NewCatalogue} : table = catalogue
  BY <1>1
<1>3. IsFiniteSet(AskedIds(table))
  BY <1>1, AskedIdsFinite
<1>4. \A s \in schedules : ToSet(s.components) \subseteq AskedSlots(table)
  BY KeptSlots DEF AnsweredInv
<1>5. ASSUME NEW slot \in AskedSlots(table)
      PROVE  slot.components # {} /\ slot.components \subseteq AskedIds(table)
  <2>1. PICK a \in DOMAIN asked : slot \in Slots(table, asked[a])
    BY DEF AskedSlots
  <2>. QED BY <2>1, SlotIds
<1>6. PICK s \in schedules :
        /\ DOMAIN made = DOMAIN s.components
        /\ \A k \in DOMAIN s.components : answer.data.component_ids[made[k][1]] = shownOf(s.components[k])
  <2>1. PICK lists : lists = found
    OBVIOUS
  <2>2. made \in compressSchedules(lists).schedules
    BY <1>1, <2>1
  <2>3. \A list \in lists : ToSet(list) \subseteq AskedSlots(table)
    BY <1>4, <2>1
  <2>4. \A slot \in AskedSlots(table) : slot.components # {} /\ slot.components \subseteq AskedIds(table)
    BY <1>5
  <2>5. PICK list \in lists :
          /\ DOMAIN made = DOMAIN list
          /\ \A k \in DOMAIN list : compressSchedules(lists).component_ids[made[k][1]] = shownOf(list[k])
    <3>1. PICK T, I : T = AskedSlots(table) /\ I = AskedIds(table)
      OBVIOUS
    <3>2. PICK bundled : bundled = made
      OBVIOUS
    <3>3. /\ \A list \in lists : ToSet(list) \subseteq T
          /\ \A slot \in T : slot.components # {} /\ slot.components \subseteq I
          /\ IsFiniteSet(I) /\ bundled \in compressSchedules(lists).schedules
      BY <1>3, <2>2, <2>3, <2>4, <3>1, <3>2
    <3>4. IsReadable(lists, bundled)
      BY ONLY <3>3, Compressed
    <3>. QED BY <3>2, <3>4 DEF IsReadable
  <2>6. PICK s \in schedules : list = s.components
    BY <2>1
  <2>7. answer.data.component_ids = compressSchedules(lists).component_ids
    BY <1>1, <2>1
  <2>. QED BY <2>5, <2>6, <2>7
<1>7. PICK k \in DOMAIN s.components : s.components[k] \in Slots(table, asked[i])
  BY <1>2, KeptSlots DEF AnsweredInv
<1>8. PICK slot : slot = s.components[k]
  OBVIOUS
<1>9. /\ slot.components # {} /\ slot.components \subseteq ids(UNION ToSet(table[asked[i].id]))
      /\ slot.components \subseteq AskedIds(table)
  <2>1. slot \in Slots(table, asked[i])
    BY <1>7, <1>8
  <2>. QED BY ONLY <2>1, i \in DOMAIN asked, SlotIds
<1>10. shownOf(slot) \in slot.components
  <2>1. IsFiniteSet(slot.components)
    BY <1>3, <1>9, FS_Subset
  <2>. QED BY <1>9, <2>1, ShownIsMember
<1>11. k \in DOMAIN made /\ answer.data.component_ids[made[k][1]] = shownOf(slot)
  BY <1>6, <1>8
<1>12. shownOf(slot) \in ids(UNION ToSet(table[asked[i].id]))
  BY <1>9, <1>10
<1>. QED BY <1>11, <1>12

LEMMA AnsweredInitially == RequestsInit => SearchedInv /\ AnswerInv
<1> SUFFICES ASSUME RequestsInit PROVE SearchedInv /\ AnswerInv
  OBVIOUS
<1>1. phase = "generating" /\ asked \in Requests /\ catalogue \in {OldCatalogue, NewCatalogue}
  BY DEF RequestsInit
<1>2. PICK f \in FilterChoices, l \in Limits : construct(getCourses(asked, lost), f, l)
  BY DEF RequestsInit
<1>3. requested = getCourses(asked, lost) /\ courses \in sortedCourses(requested)
  BY <1>2 DEF construct
<1>. QED BY <1>1, <1>3 DEF SearchedInv, AnswerInv

LEMMA AnsweredAlways == RequestsSpec => []AnsweredInv
<1>1. RequestsInit => AnsweredInv
  BY RequestEstablishes, AnsweredInitially DEF AnsweredInv
<1>2. AnsweredInv /\ [RequestsNext]_allVars => AnsweredInv'
  BY RequestKeeps, SearchedKept, AnswerKept DEF AnsweredInv
<1>. QED BY <1>1, <1>2, PTL DEF RequestsSpec

\* Every schedule that version 2 answers with, once compressed, names a component of each
\* mandatory course, unless the course has nothing to attend or the answer says that it
\* could not be fetched.
THEOREM CoursesAccountedFor == RequestsSpec => []EveryCourseIsAccountedFor
<1>1. AnsweredInv => EveryCourseIsAccountedFor
  BY AnsweredAccounts, RequestsAssumption
<1>. QED BY <1>1, AnsweredAlways, PTL

-----------------------------------------------------------------------------
(* What is drawn                                                           *)

\* Where the slots of the client come from.
LEMMA SlotFrom ==
    ASSUME NEW timetable, NEW slot \in AskedSlots(timetable)
    PROVE  \E i \in DOMAIN asked : \E section \in ToSet(timetable[asked[i].id]) :
              \E c \in parsed(section) : slot = scheduleComponent(parsed(section), c)
<1>1. PICK i \in DOMAIN asked : slot \in Slots(timetable, asked[i])
  BY DEF AskedSlots
<1>2. PICK section \in ToSet(timetable[asked[i].id]) : slot \in getScheduleComponents(parsed(section))
  BY <1>1 DEF Slots
<1>. QED BY <1>2 DEF getScheduleComponents

LEMMA SectionsKnown ==
    ASSUME RequestsAssumption, asked \in Requests, NEW timetable \in {OldCatalogue, NewCatalogue},
           NEW i \in DOMAIN asked
    PROVE  ToSet(timetable[asked[i].id]) \subseteq sectionsOf(timetable)
<1>1. PICK id \in DOMAIN timetable : id = asked[i].id
  BY DEF RequestsAssumption
<1>. QED BY <1>1 DEF sectionsOf

LEMMA IdsAreUnique ==
    ASSUME RequestsAssumption, NEW timetable \in {OldCatalogue, NewCatalogue},
           NEW section \in sectionsOf(timetable), NEW other \in sectionsOf(timetable),
           NEW c \in section, NEW d \in other, c.id = d.id
    PROVE  section = other /\ c = d
BY DEF RequestsAssumption

\* No component is in two slots.
Disjoint(S) == \A a \in S, b \in S : a.components \cap b.components # {} => a = b

LEMMA SlotsDisjoint ==
    ASSUME RequestsAssumption, asked \in Requests, NEW timetable \in {OldCatalogue, NewCatalogue}
    PROVE  Disjoint(AskedSlots(timetable))
<1> SUFFICES ASSUME NEW a \in AskedSlots(timetable), NEW b \in AskedSlots(timetable),
                    NEW x, x \in a.components, x \in b.components
             PROVE  a = b
  BY DEF Disjoint
<1>2. PICK section \in sectionsOf(timetable) :
         \E c \in parsed(section) : a = scheduleComponent(parsed(section), c)
  <2>1. PICK i \in DOMAIN asked : \E section \in ToSet(timetable[asked[i].id]) :
           \E c \in parsed(section) : a = scheduleComponent(parsed(section), c)
    BY SlotFrom
  <2>. QED BY <2>1, SectionsKnown
<1>3. PICK other \in sectionsOf(timetable) :
         \E c \in parsed(other) : b = scheduleComponent(parsed(other), c)
  <2>1. PICK i \in DOMAIN asked : \E other \in ToSet(timetable[asked[i].id]) :
           \E c \in parsed(other) : b = scheduleComponent(parsed(other), c)
    BY SlotFrom
  <2>. QED BY <2>1, SectionsKnown
<1>4. PICK c \in parsed(section) : a = scheduleComponent(parsed(section), c)
  BY <1>2
<1>5. PICK d \in parsed(other) : b = scheduleComponent(parsed(other), d)
  BY <1>3
<1>6. PICK e \in parsed(section) : sameSlot(c, e) /\ x = e.id
  BY <1>4 DEF scheduleComponent
<1>7. PICK f \in parsed(other) : sameSlot(d, f) /\ x = f.id
  BY <1>5 DEF scheduleComponent
<1>8. section = other /\ e = f
  <2>1. e \in section /\ f \in other /\ e.id = f.id
    BY <1>6, <1>7 DEF parsed
  <2>. QED BY <2>1, IdsAreUnique
<1>9. c.type = d.type /\ c.day = d.day /\ c.start = d.start /\ c.end = d.end
  BY <1>6, <1>7, <1>8 DEF sameSlot
<1>10. \A g : sameSlot(c, g) <=> sameSlot(d, g)
  BY <1>9 DEF sameSlot
<1>11. {g \in parsed(section) : sameSlot(c, g)} = {g \in parsed(other) : sameSlot(d, g)}
  BY <1>8, <1>10
<1>. QED BY <1>4, <1>5, <1>9, <1>11 DEF scheduleComponent

\* One component of each slot and nothing else.
Represents(D, S) ==
    /\ \A x \in D : \E slot \in S : x \in slot.components
    /\ \A slot \in S : \E x : D \cap slot.components = {x}

LEMMA RepresentsEach ==
    ASSUME NEW S, Disjoint(S), NEW D, Represents(D, S), IsFiniteSet(S)
    PROVE  Cardinality(D) = Cardinality(S)
<1> DEFINE of == [slot \in S |-> CHOOSE x : D \cap slot.components = {x}]
<1>1. \A slot \in S : D \cap slot.components = {of[slot]}
  BY DEF Represents
<1> HIDE DEF of
<1>2. DOMAIN of = S /\ of = [slot \in S |-> of[slot]]
  BY DEF of
<1>3. of \in [S -> D]
  BY <1>1, <1>2
<1>4. \A a, b \in S : of[a] = of[b] => a = b
  BY <1>1 DEF Disjoint
<1>5. \A x \in D : \E slot \in S : of[slot] = x
  BY <1>1 DEF Represents
<1>6. of \in Bijection(S, D)
  BY <1>3, <1>4, <1>5 DEF Bijection, Injection, Surjection, IsInjective
<1>. QED BY <1>6, FS_Bijection DEF ExistsBijection

\* The client draws one component of each slot.
LEMMA ShownRepresents ==
    ASSUME NEW S, Disjoint(S), \A slot \in S : shownOf(slot) \in slot.components
    PROVE  Represents({shownOf(slot) : slot \in S}, S)
<1> DEFINE D == {shownOf(slot) : slot \in S}
<1>1. \A x \in D : \E slot \in S : x \in slot.components
  OBVIOUS
<1>2. ASSUME NEW slot \in S PROVE D \cap slot.components = {shownOf(slot)}
  <2>1. ASSUME NEW other \in S, shownOf(other) \in slot.components PROVE other = slot
    BY <2>1 DEF Disjoint
  <2>. QED BY <2>1
<1>. QED BY <1>1, <1>2 DEF Represents

\* A component that is swapped in takes the place of one in the same slot.
LEMMA SwapRepresents ==
    ASSUME NEW S, Disjoint(S), NEW D, Represents(D, S), NEW slot \in S,
           NEW x \in D, x \in slot.components, NEW y \in slot.components
    PROVE  Represents((D \ {x}) \cup {y}, S)
<1> DEFINE E == (D \ {x}) \cup {y}
<1>1. \A z \in E : \E other \in S : z \in other.components
  BY DEF Represents
<1>2. D \cap slot.components = {x}
  BY DEF Represents
<1>3. E \cap slot.components = {y}
  BY <1>2
<1>4. ASSUME NEW other \in S, other # slot PROVE E \cap other.components = D \cap other.components
  <2>1. x \notin other.components /\ y \notin other.components
    BY <1>4 DEF Disjoint
  <2>. QED BY <2>1
<1>5. ASSUME NEW other \in S PROVE \E z : E \cap other.components = {z}
  BY <1>3, <1>4 DEF Represents
<1>. QED BY <1>1, <1>5 DEF Represents

\* The client knows the component and its section.
LEMMA AlternateIsInSlot ==
    ASSUME RequestsAssumption, asked \in Requests, NEW slot \in AskedSlots(OldCatalogue),
           NEW id \in slot.components, NEW d \in getAlternates(componentOf(id))
    PROVE  d.id \in slot.components
<1>1. PICK i \in DOMAIN asked : \E section \in ToSet(OldCatalogue[asked[i].id]) :
         \E c \in parsed(section) : slot = scheduleComponent(parsed(section), c)
  BY SlotFrom
<1>2. PICK section \in ToSet(OldCatalogue[asked[i].id]) :
         \E c \in parsed(section) : slot = scheduleComponent(parsed(section), c)
  BY <1>1
<1>3. PICK c \in parsed(section) : slot = scheduleComponent(parsed(section), c)
  BY <1>2
<1>4. PICK e \in parsed(section) : sameSlot(c, e) /\ id = e.id
  BY <1>3 DEF scheduleComponent
<1>5. section \in sectionsOf(OldCatalogue) /\ e \in section
  BY <1>4, SectionsKnown DEF parsed
<1>6. componentOf(id) = e
  <2>1. e \in known /\ e.id = id
    <3>1. PICK course : course = asked[i].id
      OBVIOUS
    <3>2. course \in {asked[k].id : k \in DOMAIN asked}
      BY <3>1
    <3>3. e \in UNION ToSet(OldCatalogue[course])
      BY <1>5, <3>1
    <3>. QED BY <1>4, <3>2, <3>3 DEF known
  <2>2. ASSUME NEW f \in known, f.id = id PROVE f = e
    <3>1. PICK k \in DOMAIN asked : \E other \in ToSet(OldCatalogue[asked[k].id]) : f \in other
      BY DEF known
    <3>2. PICK other \in sectionsOf(OldCatalogue) : f \in other
      BY <3>1, SectionsKnown
    <3>. QED BY <1>4, <1>5, <2>2, <3>2, IdsAreUnique
  <2>. QED BY <2>1, <2>2 DEF componentOf
<1>7. sectionOf(id) = section
  <2>1. id \in ids(section)
    BY <1>4, <1>5 DEF ids
  <2>2. ASSUME NEW other \in sectionsOf(OldCatalogue), id \in ids(other) PROVE other = section
    <3>1. PICK f \in other : f.id = id
      BY <2>2 DEF ids
    <3>. QED BY <1>4, <1>5, <3>1, IdsAreUnique
  <2>. QED BY <1>5, <2>1, <2>2 DEF sectionOf
<1>8. d \in section /\ sameSlot(e, d)
  BY <1>4, <1>6, <1>7 DEF getAlternates
<1>9. d \in parsed(section) /\ sameSlot(c, d)
  BY <1>4, <1>8 DEF parsed, sameSlot
<1>. QED BY <1>3, <1>9 DEF scheduleComponent

\* What the client shows has one component of each slot of a schedule that was found.
DrawnInv ==
    phase = "drawn" /\ catalogue = OldCatalogue =>
        \E s \in schedules : Represents(drawn, ToSet(s.components))

LEMMA DrawRepresents ==
    ASSUME RequestsAssumption, AnsweredInv, draw, catalogue = OldCatalogue
    PROVE  \E s \in schedules : Represents(drawn', ToSet(s.components))
<1> DEFINE found == {s.components : s \in schedules}
<1>1. /\ asked \in Requests /\ phase = "answered" /\ answer.data = compressSchedules(found)
      /\ \E made \in answer.data.schedules : drawn' = deserializeSchedules(answer.data, made)
  BY DEF draw, AnsweredInv, AnswerInv, SearchedInv
<1>2. PICK made \in answer.data.schedules : drawn' = deserializeSchedules(answer.data, made)
  BY <1>1
<1>3. IsFiniteSet(AskedIds(OldCatalogue))
  BY <1>1, AskedIdsFinite
<1>4. \A s \in schedules : ToSet(s.components) \subseteq AskedSlots(OldCatalogue)
  BY <1>1, KeptSlots DEF AnsweredInv
<1>5. ASSUME NEW slot \in AskedSlots(OldCatalogue)
      PROVE  /\ slot.components # {} /\ slot.components \subseteq AskedIds(OldCatalogue)
             /\ slot.components \subseteq ids(known)
             /\ shownOf(slot) \in slot.components
  <2>1. PICK i \in DOMAIN asked : slot \in Slots(OldCatalogue, asked[i])
    BY DEF AskedSlots
  <2>2. /\ slot.components # {} /\ slot.components \subseteq AskedIds(OldCatalogue)
        /\ slot.components \subseteq ids(UNION ToSet(OldCatalogue[asked[i].id]))
    BY <2>1, SlotIds
  <2>3. UNION ToSet(OldCatalogue[asked[i].id]) \subseteq known
    <3>1. PICK course : course = asked[i].id
      OBVIOUS
    <3>2. course \in {asked[k].id : k \in DOMAIN asked}
      BY <3>1
    <3>. QED BY ONLY <3>1, <3>2 DEF known
  <2>4. slot.components \subseteq ids(known)
    BY <2>2, <2>3 DEF ids
  <2>5. IsFiniteSet(slot.components)
    BY <1>3, <2>2, FS_Subset
  <2>. QED BY <2>2, <2>4, <2>5, ShownIsMember
<1>6. PICK s \in schedules :
        /\ DOMAIN made = DOMAIN s.components
        /\ \A k \in DOMAIN s.components : answer.data.component_ids[made[k][1]] = shownOf(s.components[k])
  <2>1. PICK lists : lists = found
    OBVIOUS
  <2>2. made \in compressSchedules(lists).schedules
    BY <1>1, <2>1
  <2>3. \A list \in lists : ToSet(list) \subseteq AskedSlots(OldCatalogue)
    BY <1>4, <2>1
  <2>4. \A slot \in AskedSlots(OldCatalogue) :
           slot.components # {} /\ slot.components \subseteq AskedIds(OldCatalogue)
    BY <1>5
  <2>5. PICK list \in lists :
          /\ DOMAIN made = DOMAIN list
          /\ \A k \in DOMAIN list : compressSchedules(lists).component_ids[made[k][1]] = shownOf(list[k])
    <3>1. PICK T, I : T = AskedSlots(OldCatalogue) /\ I = AskedIds(OldCatalogue)
      OBVIOUS
    <3>2. PICK bundled : bundled = made
      OBVIOUS
    <3>3. /\ \A list \in lists : ToSet(list) \subseteq T
          /\ \A slot \in T : slot.components # {} /\ slot.components \subseteq I
          /\ IsFiniteSet(I) /\ bundled \in compressSchedules(lists).schedules
      BY <1>3, <2>2, <2>3, <2>4, <3>1, <3>2
    <3>4. IsReadable(lists, bundled)
      BY ONLY <3>3, Compressed
    <3>. QED BY <3>2, <3>4 DEF IsReadable
  <2>6. PICK s \in schedules : list = s.components
    BY <2>1
  <2>7. answer.data.component_ids = compressSchedules(lists).component_ids
    BY <1>1, <2>1
  <2>. QED BY <2>5, <2>6, <2>7
<1>. PICK S : S = ToSet(s.components)
  OBVIOUS
<1>7. S \subseteq AskedSlots(OldCatalogue)
  BY <1>4
<1>8. \A slot \in S : shownOf(slot) \in slot.components /\ shownOf(slot) \in ids(known)
  BY <1>5, <1>7
<1>9. drawn' = {shownOf(slot) : slot \in S}
  <2>1. PICK data, list : data = answer.data /\ list = s.components
    OBVIOUS
  <2>2. /\ drawn' = deserializeSchedules(data, made)
        /\ DOMAIN made = DOMAIN list
        /\ \A k \in DOMAIN list : data.component_ids[made[k][1]] = shownOf(list[k])
    BY <1>2, <1>6, <2>1
  <2>3. S = {list[k] : k \in DOMAIN list}
    BY <2>1 DEF ToSet
  <2>4. {data.component_ids[made[k][1]] : k \in DOMAIN made} = {shownOf(slot) : slot \in S}
    BY ONLY <2>2, <2>3
  <2>5. drawn' = {shownOf(slot) : slot \in S} \cap ids(known)
    BY <2>2, <2>4 DEF deserializeSchedules
  <2>6. {shownOf(slot) : slot \in S} \subseteq ids(known)
    BY <1>8
  <2>. QED BY <2>5, <2>6
<1>10. Disjoint(S)
  <2>1. Disjoint(AskedSlots(OldCatalogue))
    BY <1>1, SlotsDisjoint
  <2>. QED BY <1>7, <2>1 DEF Disjoint
<1>11. Represents({shownOf(slot) : slot \in S}, S)
  BY <1>8, <1>10, ShownRepresents
<1>. QED BY <1>9, <1>11

LEMMA SwapKeeps ==
    ASSUME RequestsAssumption, AnsweredInv, DrawnInv, swapComponents, catalogue = OldCatalogue
    PROVE  \E s \in schedules : Represents(drawn', ToSet(s.components))
<1>1. /\ asked \in Requests /\ phase = "drawn"
      /\ \E id \in grid \cap drawn : \E d \in getAlternates(componentOf(id)) :
            drawn' = (drawn \ {id}) \cup {d.id}
  BY DEF swapComponents, AnsweredInv, SearchedInv
<1>2. PICK s \in schedules : Represents(drawn, ToSet(s.components))
  BY <1>1 DEF DrawnInv
<1>. PICK S, D : S = ToSet(s.components) /\ D = drawn
  OBVIOUS
<1>3. S \subseteq AskedSlots(OldCatalogue)
  BY <1>1, KeptSlots DEF AnsweredInv
<1>4. Disjoint(S)
  <2>1. Disjoint(AskedSlots(OldCatalogue))
    BY <1>1, SlotsDisjoint
  <2>. QED BY <1>3, <2>1 DEF Disjoint
<1>5. PICK id \in D : \E d \in getAlternates(componentOf(id)) : drawn' = (D \ {id}) \cup {d.id}
  BY <1>1
<1>6. PICK d \in getAlternates(componentOf(id)) : drawn' = (D \ {id}) \cup {d.id}
  BY <1>5
<1>7. PICK slot \in S : id \in slot.components
  BY <1>2 DEF Represents
<1>8. d.id \in slot.components
  BY <1>1, <1>3, <1>7, AlternateIsInSlot
<1>9. Represents(D, S)
  BY <1>2
<1>10. PICK y \in slot.components : y = d.id
  BY <1>8
<1>11. Represents((D \ {id}) \cup {y}, S)
  BY <1>4, <1>7, <1>9, SwapRepresents
<1>. QED BY <1>6, <1>10, <1>11

LEMMA DrawnKept ==
    ASSUME RequestsAssumption, AnsweredInv, DrawnInv, [RequestsNext]_allVars PROVE DrawnInv'
<1> SUFFICES ASSUME phase' = "drawn", catalogue' = OldCatalogue
             PROVE  \E s \in schedules' : Represents(drawn', ToSet(s.components))
  BY DEF DrawnInv
<1>1. CASE draw
  <2>1. catalogue' = catalogue /\ schedules' = schedules
    BY <1>1 DEF draw, vars, request
  <2>. QED BY <1>1, <2>1, DrawRepresents
<1>2. CASE swapComponents
  <2>1. catalogue' = catalogue /\ schedules' = schedules
    BY <1>2 DEF swapComponents, vars, request
  <2>. QED BY <1>2, <2>1, SwapKeeps
<1>3. CASE redraw \/ UNCHANGED allVars
  <2>1. /\ catalogue' = catalogue /\ schedules' = schedules /\ drawn' = drawn /\ phase' = phase
    BY <1>3 DEF redraw, allVars, vars, request, client
  <2>. QED BY <2>1 DEF DrawnInv
<1>4. draw \/ swapComponents \/ redraw \/ UNCHANGED allVars
  BY DEF RequestsNext, generateSchedules, schedules_generate_v2, generateLocally,
         schedules_generate, firstGenerates, firstAnswers, saveSchedule, timetableUpdated,
         expandScheduleSkeleton, expanded
<1>. QED BY <1>1, <1>2, <1>3, <1>4

LEMMA DrawnAlways == RequestsSpec => [](AnsweredInv /\ DrawnInv)
<1>1. RequestsInit => DrawnInv
  BY DEF RequestsInit, DrawnInv
<1>2. AnsweredInv /\ DrawnInv /\ [RequestsNext]_allVars => DrawnInv'
  BY DrawnKept, RequestsAssumption
<1>. QED BY <1>1, <1>2, AnsweredAlways, PTL DEF RequestsSpec

LEMMA DrawnIsFound == ASSUME RequestsAssumption, AnsweredInv, DrawnInv PROVE DrawnAsFound
<1> SUFFICES ASSUME phase = "drawn", catalogue = OldCatalogue
             PROVE  \E s \in schedules :
                       /\ Cardinality(drawn) = Cardinality(ToSet(s.components))
                       /\ \A k \in DOMAIN s.components : drawn \cap s.components[k].components # {}
  BY DEF DrawnAsFound
<1>1. PICK s \in schedules : Represents(drawn, ToSet(s.components))
  BY DEF DrawnInv
<1>2. asked \in Requests
  BY DEF AnsweredInv, SearchedInv
<1>3. s.components \in Seq(Pieces) /\ ToSet(s.components) \subseteq AskedSlots(OldCatalogue)
  BY KeptSlots DEF AnsweredInv
<1>. PICK list \in Seq(Pieces) : list = s.components
  BY <1>3
<1>. PICK S, D : S = ToSet(list) /\ D = drawn
  OBVIOUS
<1>4. IsFiniteSet(S)
  <2>1. IsFiniteSet(DOMAIN list)
    <3>1. PICK n \in Nat : DOMAIN list = 1..n
      OBVIOUS
    <3>2. IsFiniteSet(1..n)
      BY FS_Interval
    <3>. QED BY <3>1, <3>2
  <2>2. [k \in DOMAIN list |-> list[k]] \in Surjection(DOMAIN list, S)
    BY DEF Surjection, ToSet
  <2>. QED BY <2>1, <2>2, FS_Surjection
<1>5. Disjoint(S)
  <2>1. Disjoint(AskedSlots(OldCatalogue))
    BY <1>2, SlotsDisjoint
  <2>. QED BY <1>3, <2>1 DEF Disjoint
<1>6. Represents(D, S)
  BY <1>1
<1>7. Cardinality(D) = Cardinality(S)
  BY <1>4, <1>5, <1>6, RepresentsEach
<1>8. \A k \in DOMAIN list : D \cap list[k].components # {}
  <2>1. \A k \in DOMAIN list : list[k] \in S
    BY DEF ToSet
  <2>2. \A slot \in S : D \cap slot.components # {}
    <3>1. \A slot \in S : \E x : D \cap slot.components = {x}
      BY <1>6 DEF Represents
    <3>. QED BY ONLY <3>1
  <2>. QED BY ONLY <2>1, <2>2
<1>. QED BY <1>7, <1>8

\* What the client draws from the compressed answer has one component of each slot of a
\* schedule that was found, and keeps it so however often alternates are swapped in, as long
\* as the client has the timetable that the service had.
THEOREM SchedulesDrawnAsFound == RequestsSpec => []DrawnAsFound
<1>1. AnsweredInv /\ DrawnInv => DrawnAsFound
  BY DrawnIsFound, RequestsAssumption
<1>. QED BY <1>1, DrawnAlways, PTL
====
