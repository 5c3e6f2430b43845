---- MODULE FirstGeneratorProofs ----
(***************************************************************************)
(* What the first generator computes, for any courses, filters and limits: *)
(* what it answers without a word about the limit is complete, a schedule  *)
(* that was saved is shown again by an expansion, and where both versions  *)
(* mean the same they offer the same weeks.                                *)
(***************************************************************************)
EXTENDS ScheduleGeneratorProofs

-----------------------------------------------------------------------------
(* What a course offers the first generator                                *)

LEMMA FirstSequenceOf == ASSUME NEW S PROVE First!sequenceOf(S) = sequenceOf(S)
BY DEF First!sequenceOf, sequenceOf, First!FoldSet, FoldSet, First!MapThenFoldSet, MapThenFoldSet

LEMMA FirstFlatten == ASSUME NEW s PROVE First!FlattenSeq(s) = FlattenSeq(s)
BY DEF First!FlattenSeq, FlattenSeq

\* Sequences of at least one member.
Filled(P) == Seq(P) \ {<<>>}

LEMMA SectionCombines ==
    ASSUME NEW course, NEW i \in DOMAIN course.sections, IsFiniteSet(course.sections[i])
    PROVE  \E P : First!sectionCombinations(course, i) \in Seq(Filled(P))
<1> DEFINE placed(c) == [id |-> c.id, type |-> c.type, day |-> c.day, start |-> c.start, end |-> c.end,
                         closed |-> c.closed, course |-> course.id, section |-> i]
           all == {placed(c) : c \in course.sections[i]}
           lec == {c \in all : c.type = "LEC"}
           types == {c.type : c \in all \ lec}
           picks == {p \in [types -> all] : \A t \in types : p[t].type = t}
           made(p) == sequenceOf({p[t] : t \in types}) \o sequenceOf(lec)
<1>1. CASE all = {}
  <2>1. First!sectionCombinations(course, i) = <<>>
    BY <1>1 DEF First!sectionCombinations
  <2>. QED BY <2>1
<1>2. CASE all # {}
  <2>0. First!sectionCombinations(course, i) = sequenceOf({made(p) : p \in picks})
    <3>1. First!sectionCombinations(course, i) =
            First!sequenceOf({First!sequenceOf({p[t] : t \in types}) \o First!sequenceOf(lec) : p \in picks})
      BY <1>2 DEF First!sectionCombinations
    <3> DEFINE other(p) == First!sequenceOf({p[t] : t \in types}) \o First!sequenceOf(lec)
    <3>2. \A p \in picks : other(p) = made(p)
      BY FirstSequenceOf
    <3> HIDE DEF other, made, picks
    <3>3. {other(p) : p \in picks} = {made(p) : p \in picks}
      BY <3>2
    <3>4. First!sectionCombinations(course, i) = First!sequenceOf({other(p) : p \in picks})
      BY <3>1 DEF other, picks
    <3>. QED BY <3>3, <3>4, FirstSequenceOf
  <2>1. IsFiniteSet(all)
    <3>1. [c \in course.sections[i] |-> placed(c)] \in Surjection(course.sections[i], all)
      BY DEF Surjection
    <3>. QED BY <3>1, FS_Surjection
  <2> HIDE DEF all
  <2>2. IsFiniteSet(types)
    <3>1. IsFiniteSet(all \ lec)
      BY <2>1, FS_Subset
    <3>2. [c \in all \ lec |-> c.type] \in Surjection(all \ lec, types)
      BY DEF Surjection
    <3>. QED BY <3>1, <3>2, FS_Surjection
  <2>3. ASSUME NEW p \in picks PROVE made(p) \in Filled(all)
    <3> DEFINE picked == {p[t] : t \in types}
    <3>1. picked \subseteq all /\ lec \subseteq all
      OBVIOUS
    <3>2. IsFiniteSet(picked) /\ IsFiniteSet(lec)
      BY <2>1, <3>1, FS_Subset
    <3>3. picked # {} \/ lec # {}
      <4>1. PICK c \in all : TRUE
        BY <1>2
      <4>2. c \notin lec => p[c.type] \in picked
        OBVIOUS
      <4>. QED BY <4>2
    <3> HIDE DEF lec, picked
    <3>4. Lists(sequenceOf(picked), picked) /\ Lists(sequenceOf(lec), lec)
      BY <3>2, SequenceOfLists
    <3>5. PICK a \in Seq(all), b \in Seq(all) : a = sequenceOf(picked) /\ b = sequenceOf(lec)
      BY <3>1, <3>4 DEF Lists
    <3>6. a # <<>> \/ b # <<>>
      BY <3>3, <3>4, <3>5 DEF Lists, ToSet
    <3>7. a \o b \in Seq(all) /\ a \o b # <<>>
      BY <3>6, Concat
    <3>. QED BY <3>5, <3>7 DEF Filled, picked
  <2> HIDE DEF types
  <2>4. IsFiniteSet(picks)
    BY <2>1, <2>2, FunctionsFinite
  <2> HIDE DEF picks, made
  <2>5. IsFiniteSet({made(p) : p \in picks})
    <3>1. [p \in picks |-> made(p)] \in Surjection(picks, {made(p) : p \in picks})
      BY DEF Surjection
    <3>. QED BY <2>4, <3>1, FS_Surjection
  <2>6. {made(p) : p \in picks} \subseteq Filled(all)
    BY <2>3
  <2>7. PICK M : M = {made(p) : p \in picks}
    OBVIOUS
  <2>8. sequenceOf(M) \in Seq(M)
    BY <2>5, <2>7, SequenceOfLists DEF Lists
  <2>9. sequenceOf(M) \in Seq(Filled(all))
    BY <2>6, <2>7, <2>8
  <2>. QED BY <2>0, <2>7, <2>9
<1>. QED BY <1>1, <1>2

\* The members of a sequence, two levels down.
Within(combinations) == UNION {ToSet(cs) : cs \in ToSet(combinations)}

LEMMA FilledWithin ==
    ASSUME NEW P, NEW list \in Seq(Filled(P)), NEW Q, Within(list) \subseteq Q
    PROVE  list \in Seq(Filled(Q))
<1>1. ASSUME NEW k \in DOMAIN list PROVE list[k] \in Filled(Q)
  <2>1. PICK cs \in Seq(P) : cs = list[k] /\ cs # <<>>
    BY DEF Filled
  <2>2. cs \in ToSet(list)
    BY <2>1 DEF ToSet
  <2>3. \A i \in DOMAIN cs : cs[i] \in Q
    BY <2>2 DEF Within, ToSet
  <2>4. cs \in Seq(Q)
    BY <2>3
  <2>. QED BY <2>1, <2>4 DEF Filled
<1>. QED BY <1>1

LEMMA CourseCombines ==
    ASSUME NEW course, Offered(course), NEW n \in Nat, DOMAIN course.sections = 1..n
    PROVE  \E P : First!getCombinations(course) \in Seq(Filled(P))
<1> DEFINE of(i) == First!sectionCombinations(course, i)
           P == UNION {Within(of(i)) : i \in 1..n}
           list == [i \in 1..n |-> of(i)]
<1>1. ASSUME NEW i \in 1..n PROVE of(i) \in Seq(Filled(P))
  <2>1. IsFiniteSet(course.sections[i])
    BY DEF Offered
  <2>2. PICK Q : of(i) \in Seq(Filled(Q))
    BY <2>1, SectionCombines
  <2>3. Within(of(i)) \subseteq P
    OBVIOUS
  <2>. QED BY <2>2, <2>3, FilledWithin
<1>2. First!getCombinations(course) = FlattenSeq(list)
  BY FirstFlatten DEF First!getCombinations
<1> HIDE DEF of, P
<1>3. list \in Seq(Seq(Filled(P)))
  BY <1>1
<1>4. FlattenSeq(list) \in Seq(Filled(P))
  <2>1. PICK Q : Q = Filled(P)
    OBVIOUS
  <2>2. PICK ch \in Seq(Seq(Q)) : ch = list
    BY <1>3, <2>1
  <2>3. <<>> \in Seq(Q)
    OBVIOUS
  <2>. QED BY <2>1, <2>2, <2>3, FlattenAppend
<1>. QED BY <1>2, <1>4

-----------------------------------------------------------------------------
(* What it is created with                                                 *)

\* Sections in the order of their numbers.
Numbered(course) == Offered(course) /\ \E n \in Nat : DOMAIN course.sections = 1..n

LEMMA CourseNumbered ==
    ASSUME RequestsAssumption, NEW timetable \in {OldCatalogue, NewCatalogue},
           NEW meta, meta.id \in DOMAIN OldCatalogue
    PROVE  Numbered(courseFrom(timetable, meta))
<1> DEFINE all == timetable[meta.id]
           wanted == ordered(meta.sections \cap DOMAIN all)
           list == [k \in DOMAIN wanted |-> parsed(all[wanted[k]])]
<1>1. wanted \in Seq(meta.sections \cap DOMAIN all)
  BY WantedAre
<1> HIDE DEF wanted
<1>2. DOMAIN list = 1..Len(wanted) /\ Len(wanted) \in Nat
  BY <1>1
<1>3. evaluated(list) = list
  <2>1. list \in Seq({list[k] : k \in DOMAIN wanted})
    BY <1>2
  <2>. QED BY <2>1, EvaluatedType
<1>4. courseFrom(timetable, meta).sections = list
  BY <1>3 DEF courseFrom, wanted
<1> HIDE DEF list
<1>5. Offered(courseFrom(timetable, meta))
  BY CourseFrom
<1>. QED BY <1>2, <1>4, <1>5 DEF Numbered

LEMMA CoursesFetched ==
    ASSUME RequestsAssumption, catalogue \in {OldCatalogue, NewCatalogue}, NEW metas, Metas(metas),
           NEW gone
    PROVE  getCourses(metas, gone) \in Seq({c \in ToSet(getCourses(metas, gone)) : Numbered(c)})
<1> DEFINE kept == ordered({i \in DOMAIN metas : metas[i].id \notin gone})
           list == [k \in DOMAIN kept |-> dataToCourse(metas[kept[k]])]
<1>1. /\ DOMAIN metas = 1..Len(metas) /\ Len(metas) \in Nat
      /\ \A i \in DOMAIN metas : metas[i].id \in DOMAIN OldCatalogue
  BY DEF Metas
<1>2. kept \in Seq({i \in DOMAIN metas : metas[i].id \notin gone})
  BY <1>1, OrderedType
<1> HIDE DEF kept
<1>3. DOMAIN list = DOMAIN kept /\ DOMAIN kept = 1..Len(kept) /\ Len(kept) \in Nat
  BY <1>2
<1>4. ASSUME NEW k \in DOMAIN kept PROVE Numbered(list[k])
  <2>1. kept[k] \in DOMAIN metas
    BY <1>2
  <2>2. PICK meta : meta = metas[kept[k]]
    OBVIOUS
  <2>3. meta.id \in DOMAIN OldCatalogue
    BY <1>1, <2>1, <2>2
  <2>4. Numbered(courseFrom(catalogue, meta))
    BY <2>3, CourseNumbered
  <2>. QED BY <2>2, <2>4 DEF dataToCourse
<1>5. evaluated(list) = list
  <2>1. list \in Seq({list[k] : k \in DOMAIN kept})
    BY <1>3
  <2>. QED BY <2>1, EvaluatedType
<1>6. getCourses(metas, gone) = list
  BY <1>5 DEF getCourses, kept
<1>7. ASSUME NEW S, \A k \in DOMAIN kept : list[k] \in S PROVE list \in Seq(S)
  BY <1>3, <1>7
<1> HIDE DEF list
<1>8. \A k \in DOMAIN list : list[k] \in ToSet(list)
  BY DEF ToSet
<1>9. list \in Seq({c \in ToSet(list) : Numbered(c)})
  BY <1>3, <1>4, <1>7, <1>8
<1>. QED BY <1>6, <1>9

LEMMA GreatestNumber ==
    ASSUME NEW n \in Nat, NEW S \in SUBSET (1..n), S # {}
    PROVE  Max(S) \in S
<1> DEFINE T == {m \in Nat : \E x \in S : m = n - x}
<1>1. T # {}
  <2>1. PICK x \in S : TRUE
    OBVIOUS
  <2>2. x \in 1..n
    OBVIOUS
  <2>3. n - x \in Nat
    BY <2>2
  <2>. QED BY <2>3
<1>2. PICK m \in T : \A k \in T : m <= k
  BY <1>1, LeastNumber
<1>3. PICK x \in S : m = n - x
  OBVIOUS
<1>4. ASSUME NEW y \in S PROVE x >= y
  <2>1. x \in 1..n /\ y \in 1..n
    OBVIOUS
  <2>2. n - y \in T
    BY <2>1
  <2>3. n - x <= n - y
    BY <1>2, <1>3, <2>2
  <2>. QED BY <2>1, <2>3
<1>. QED BY <1>3, <1>4 DEF Max

\* Merged by id the entries are some of those there were, and no id is lost.
LEMMA ByIdMetas ==
    ASSUME NEW metas, Metas(metas)
    PROVE  /\ Metas(byId(metas))
           /\ \A p \in DOMAIN byId(metas) : \E i \in DOMAIN metas : byId(metas)[p] = metas[i]
           /\ \A i \in DOMAIN metas : \E p \in DOMAIN byId(metas) : byId(metas)[p].id = metas[i].id
<1> DEFINE first == {i \in DOMAIN metas : \A k \in 1..(i - 1) : metas[k].id # metas[i].id}
           places == ordered(first)
           at(id) == SelectLastInSeq(metas, LAMBDA m : m.id = id)
           list == [p \in DOMAIN places |-> metas[at(metas[places[p]].id)]]
<1>1. /\ DOMAIN metas = 1..Len(metas) /\ Len(metas) \in Nat
      /\ \A i \in DOMAIN metas : metas[i].id \in DOMAIN OldCatalogue
  BY DEF Metas
<1>2. places \in Seq(first)
  BY <1>1, OrderedType
<1>10. \A i \in first : \E p \in DOMAIN places : places[p] = i
  <2>1. first \in SUBSET (1..Len(metas))
    BY <1>1
  <2> HIDE DEF first
  <2>. QED BY <1>1, <2>1, OrderedOnto
<1> HIDE DEF places
<1>3. DOMAIN list = 1..Len(places) /\ Len(places) \in Nat
  BY <1>2
<1>4. ASSUME NEW i \in DOMAIN metas 
      PROVE  at(metas[i].id) \in DOMAIN metas /\ metas[at(metas[i].id)].id = metas[i].id
  <2> DEFINE I == {k \in 1..Len(metas) : metas[k].id = metas[i].id}
  <2>1. I # {} /\ I \in SUBSET (1..Len(metas))
    BY <1>1
  <2>2. Max(I) \in I
    <3>1. PICK n \in Nat : n = Len(metas)
      BY <1>1
    <3> HIDE DEF I
    <3>. QED BY <2>1, <3>1, GreatestNumber
  <2>3. at(metas[i].id) = Max(I)
    BY <2>1 DEF SelectLastInSeq
  <2>. QED BY <1>1, <2>2, <2>3
<1> HIDE DEF at
<1>5. ASSUME NEW p \in DOMAIN list PROVE list[p].id \in DOMAIN OldCatalogue
  <2>1. places[p] \in DOMAIN metas
    BY <1>2, <1>3
  <2>2. PICK i \in DOMAIN metas : i = at(metas[places[p]].id)
    BY <1>4, <2>1
  <2>. QED BY <1>1, <2>2
<1>6. evaluated(list) = list
  <2>1. list \in Seq({list[p] : p \in DOMAIN places})
    BY <1>3
  <2>. QED BY <2>1, EvaluatedType
<1>7. byId(metas) = list
  BY <1>6 DEF byId, places, at
<1>11. ASSUME NEW p \in DOMAIN list PROVE \E i \in DOMAIN metas : list[p] = metas[i]
  <2>1. places[p] \in DOMAIN metas
    BY <1>2, <1>3
  <2>. QED BY <1>4, <2>1
<1>12. ASSUME NEW i \in DOMAIN metas PROVE \E p \in DOMAIN list : list[p].id = metas[i].id
  <2> DEFINE same == {k \in DOMAIN metas : metas[k].id = metas[i].id}
  <2>1. same \in SUBSET Nat /\ i \in same
    BY <1>1
  <2>2. PICK k \in same : \A m \in same : k <= m
    BY <2>1, LeastNumber
  <2>3. k \in first
    <3>1. k \in DOMAIN metas /\ k \in Nat /\ metas[k].id = metas[i].id
      BY <2>1
    <3>2. ASSUME NEW m \in 1..(k - 1) PROVE metas[m].id # metas[k].id
      <4>1. m \in DOMAIN metas /\ m \in Nat /\ m < k
        BY <1>1, <3>1
      <4>. QED BY <2>2, <3>1, <4>1
    <3>. QED BY <3>1, <3>2
  <2>4. PICK p \in DOMAIN places : places[p] = k
    BY <1>10, <2>3
  <2>5. list[p].id = metas[k].id
    BY <1>4, <2>4
  <2>. QED BY <2>4, <2>5
<1> HIDE DEF list
<1>8. Len(list) = Len(places)
  BY <1>3
<1>. QED BY <1>3, <1>5, <1>7, <1>8, <1>11, <1>12 DEF Metas

\* The courses of the first generator, with what they are made of.
Parts(list) == UNION {Within(list[i].combinations) : i \in DOMAIN list}
Combined(list) ==
    /\ DOMAIN list = 1..Len(list) /\ Len(list) \in Nat
    /\ \A i \in DOMAIN list : list[i].combinations \in Seq(Filled(Parts(list)))

LEMMA Constructed ==
    ASSUME NEW cs, cs \in Seq({c \in ToSet(cs) : Numbered(c)}),
           NEW list, list \in First!sortedCourses(First!withCombinations(cs))
    PROVE  Combined(list)
<1> DEFINE offered == [i \in DOMAIN cs |-> [id |-> cs[i].id, mandatory |-> cs[i].mandatory,
                                            combinations |-> First!getCombinations(cs[i])]]
<1>1. DOMAIN cs = 1..Len(cs) /\ Len(cs) \in Nat /\ \A i \in DOMAIN cs : Numbered(cs[i])
  OBVIOUS
<1>2. First!withCombinations(cs) = offered
  <2>1. offered \in Seq({offered[i] : i \in DOMAIN cs})
    BY <1>1
  <2>2. First!evaluated(offered) = offered
    BY <2>1 DEF First!evaluated
  <2>. QED BY <2>2 DEF First!withCombinations
<1>3. ASSUME NEW i \in DOMAIN cs PROVE \E P : offered[i].combinations \in Seq(Filled(P))
  <2>1. PICK n \in Nat : DOMAIN cs[i].sections = 1..n
    BY <1>1 DEF Numbered
  <2>2. \E P : First!getCombinations(cs[i]) \in Seq(Filled(P))
    BY <1>1, <2>1, CourseCombines DEF Numbered
  <2>. QED BY <2>2
<1>4. DOMAIN offered = DOMAIN cs
  OBVIOUS
<1> HIDE DEF offered
<1>5. PICK order \in [DOMAIN cs -> DOMAIN cs] : list = [p \in DOMAIN cs |-> offered[order[p]]]
  BY <1>2, <1>4 DEF First!sortedCourses
<1>6. DOMAIN list = 1..Len(cs) /\ Len(list) = Len(cs)
  BY <1>1, <1>5
<1>7. ASSUME NEW p \in DOMAIN list PROVE list[p].combinations \in Seq(Filled(Parts(list)))
  <2>1. order[p] \in DOMAIN cs /\ list[p] = offered[order[p]]
    BY <1>1, <1>5, <1>6
  <2>2. PICK P : list[p].combinations \in Seq(Filled(P))
    BY <1>3, <2>1
  <2>3. Within(list[p].combinations) \subseteq Parts(list)
    BY DEF Parts
  <2>. QED BY <2>2, <2>3, FilledWithin
<1>. QED BY <1>1, <1>6, <1>7 DEF Combined

-----------------------------------------------------------------------------
(* Schedules of the first generator                                        *)

\* A combination can be added after others if the others can be and it can after them.
LEMMA AddableConcat ==
    ASSUME NEW P, NEW a \in Seq(P), NEW b \in Seq(P), NEW f
    PROVE  First!canAddCombination(<<>>, a \o b, f)
              <=> First!canAddCombination(<<>>, a, f) /\ First!canAddCombination(a, b, f)
<1>1. PICK c : c = a \o b
  OBVIOUS
<1>2. PICK m \in Nat, n \in Nat : m = Len(a) /\ n = Len(b)
  OBVIOUS
<1>3. /\ DOMAIN a = 1..m /\ DOMAIN b = 1..n /\ DOMAIN c = 1..(m + n)
      /\ \A i \in 1..m : c[i] = a[i]
      /\ \A i \in 1..n : c[m + i] = b[i]
  BY <1>1, <1>2, ConcatMembers
<1> DEFINE Ok(before, d) == First!canAddComponent(before, d, f)
<1>4. First!ToSet(<<>>) = {} /\ First!ToSet(a) = {a[k] : k \in 1..m}
  BY <1>3 DEF First!ToSet
<1>5. First!canAddCombination(<<>>, c, f) <=> \A i \in 1..(m + n) : Ok({c[k] : k \in 1..(i - 1)}, c[i])
  <2>1. \A S : {} \cup S = S
    OBVIOUS
  <2>. QED BY <1>3, <1>4, <2>1 DEF First!canAddCombination
<1>6. First!canAddCombination(<<>>, a, f) <=> \A i \in 1..m : Ok({a[k] : k \in 1..(i - 1)}, a[i])
  <2>1. \A S : {} \cup S = S
    OBVIOUS
  <2>. QED BY <1>3, <1>4, <2>1 DEF First!canAddCombination
<1>7. First!canAddCombination(a, b, f)
        <=> \A i \in 1..n : Ok({a[k] : k \in 1..m} \cup {b[k] : k \in 1..(i - 1)}, b[i])
  BY <1>3, <1>4 DEF First!canAddCombination
<1> HIDE DEF Ok
<1>8. \A i \in 1..m : c[i] = a[i] /\ {c[k] : k \in 1..(i - 1)} = {a[k] : k \in 1..(i - 1)}
  <2> TAKE i \in 1..m
  <2>1. \A k \in 1..(i - 1) : k \in 1..m /\ c[k] = a[k]
    BY <1>3
  <2>. QED BY <1>3, <2>1
<1>9. ASSUME NEW i \in 1..n
      PROVE  {c[k] : k \in 1..(m + i - 1)} = {a[k] : k \in 1..m} \cup {b[k] : k \in 1..(i - 1)}
  <2>1. \A k \in 1..m : k \in 1..(m + i - 1) /\ c[k] = a[k]
    BY <1>3
  <2>2. \A k \in 1..(i - 1) : m + k \in 1..(m + i - 1) /\ c[m + k] = b[k]
    BY <1>3
  <2>3. \A k \in 1..(m + i - 1) : k \in 1..m \/ (k - m \in 1..(i - 1) /\ m + (k - m) = k)
    OBVIOUS
  <2>4. ASSUME NEW k \in 1..(m + i - 1)
        PROVE  c[k] \in {a[j] : j \in 1..m} \cup {b[j] : j \in 1..(i - 1)}
    <3>1. CASE k \in 1..m
      BY <2>1, <3>1
    <3>2. CASE k - m \in 1..(i - 1) /\ m + (k - m) = k
      <4>1. c[k] = b[k - m]
        BY <2>2, <3>2
      <4>. QED BY <3>2, <4>1
    <3>. QED BY <2>3, <3>1, <3>2
  <2>5. \A k \in 1..m : a[k] \in {c[j] : j \in 1..(m + i - 1)}
    BY <2>1
  <2>6. \A k \in 1..(i - 1) : b[k] \in {c[j] : j \in 1..(m + i - 1)}
    BY <2>2
  <2>. QED BY <2>4, <2>5, <2>6
<1> DEFINE upto(j) == {c[k] : k \in 1..j}
           Q(i) == Ok(upto(i - 1), c[i])
<1>10. (\A i \in 1..(m + n) : Q(i)) <=> (\A i \in 1..m : Q(i)) /\ (\A i \in 1..n : Q(m + i))
  <2>1. \A i \in 1..(m + n) : i \in 1..m \/ (i - m \in 1..n /\ m + (i - m) = i)
    OBVIOUS
  <2>2. \A i \in 1..m : i \in 1..(m + n)
    OBVIOUS
  <2>3. \A i \in 1..n : m + i \in 1..(m + n)
    OBVIOUS
  <2> HIDE DEF Q
  <2>4. ASSUME \A i \in 1..m : Q(i), \A i \in 1..n : Q(m + i), NEW i \in 1..(m + n) PROVE Q(i)
    <3>1. CASE i \in 1..m
      BY <2>4, <3>1
    <3>2. CASE i - m \in 1..n /\ m + (i - m) = i
      <4>1. Q(m + (i - m))
        BY <2>4, <3>2
      <4>. QED BY <3>2, <4>1
    <3>. QED BY <2>1, <3>1, <3>2
  <2>. QED BY <2>2, <2>3, <2>4
<1>11. (\A i \in 1..m : Q(i)) <=> \A i \in 1..m : Ok({a[k] : k \in 1..(i - 1)}, a[i])
  BY <1>8
<1>12. (\A i \in 1..n : Q(m + i))
         <=> \A i \in 1..n : Ok({a[k] : k \in 1..m} \cup {b[k] : k \in 1..(i - 1)}, b[i])
  <2>1. \A i \in 1..n : upto(m + i - 1) = {a[k] : k \in 1..m} \cup {b[k] : k \in 1..(i - 1)}
    BY <1>9
  <2> DEFINE others(i) == {a[k] : k \in 1..m} \cup {b[k] : k \in 1..(i - 1)}
  <2>2. \A i \in 1..n : upto(m + i - 1) = others(i)
    BY <2>1
  <2> HIDE DEF upto, others
  <2>3. \A i \in 1..n : Q(m + i) <=> Ok(others(i), b[i])
    BY <1>3, <2>2
  <2> HIDE DEF Q
  <2>4. (\A i \in 1..n : Q(m + i)) <=> \A i \in 1..n : Ok(others(i), b[i])
    BY <2>3
  <2>. QED BY <2>4 DEF others
<1>. QED BY <1>1, <1>5, <1>6, <1>7, <1>10, <1>11, <1>12

\* What may be chosen of a course, and choices for the first courses of a list.
Options(course) ==
    ToSet(course.combinations)
    \cup (IF ~course.mandatory \/ course.combinations = <<>> THEN {<<>>} ELSE {})

Chosen(ch, list) ==
    /\ ch \in Seq(Seq(Parts(list))) /\ Len(ch) <= Len(list)
    /\ \A i \in 1..Len(ch) : ch[i] \in Options(list[i])

Records(P) ==
    [components : Seq(P), num_courses : Nat, num_courses_attempted : Nat,
     num_before_start_filter : Nat, num_after_end_filter : Nat]

\* The schedule made of a choice.
Reached(s, ch, list, f) ==
    /\ Chosen(ch, list)
    /\ s \in Records(Parts(list))
    /\ s.components = FlattenSeq(ch)
    /\ s.num_courses_attempted = Len(ch)
    /\ s.num_courses = 0 <=> FlattenSeq(ch) = <<>>
    /\ s.num_before_start_filter = beforeStart(FlattenSeq(ch), f)
    /\ s.num_after_end_filter = afterEnd(FlattenSeq(ch), f)
    /\ First!canAddCombination(<<>>, FlattenSeq(ch), f)

LEMMA ChosenAppend ==
    ASSUME NEW list, Combined(list), NEW ch, Chosen(ch, list), Len(ch) < Len(list),
           NEW cs \in Options(list[Len(ch) + 1])
    PROVE  Chosen(Append(ch, cs), list) /\ cs \in Seq(Parts(list)) /\ Len(Append(ch, cs)) = Len(ch) + 1
<1>. PICK P : P = Parts(list)
  OBVIOUS
<1>1. PICK n \in Nat : n = Len(ch)
  BY DEF Chosen
<1>2. n + 1 \in DOMAIN list /\ Len(list) \in Nat
  BY <1>1 DEF Combined
<1>3. cs \in Seq(P)
  <2>1. list[n + 1].combinations \in Seq(Filled(P))
    BY <1>1, <1>2 DEF Combined
  <2>2. ToSet(list[n + 1].combinations) \subseteq Seq(P)
    BY <2>1 DEF ToSet, Filled
  <2>3. <<>> \in Seq(P)
    OBVIOUS
  <2>. QED BY <1>1, <2>2, <2>3 DEF Options
<1>4. PICK more \in Seq(Seq(P)) : more = Append(ch, cs)
  <2>1. \A S : ch \in Seq(S) /\ cs \in S => Append(ch, cs) \in Seq(S)
    OBVIOUS
  <2>. QED BY <1>1, <1>3, <2>1 DEF Chosen
<1>5. Len(more) = n + 1 /\ more[n + 1] = cs /\ \A i \in 1..n : more[i] = ch[i]
  BY <1>1, <1>4 DEF Chosen
<1>6. ASSUME NEW i \in 1..(n + 1) PROVE more[i] \in Options(list[i])
  <2>1. CASE i = n + 1
    BY <1>1, <1>5, <2>1
  <2>2. CASE i \in 1..n
    BY <1>1, <1>5, <2>2 DEF Chosen
  <2>. QED BY <2>1, <2>2
<1>. QED BY <1>1, <1>2, <1>3, <1>4, <1>5, <1>6 DEF Chosen

LEMMA NothingReached ==
    ASSUME NEW list, Combined(list), NEW f PROVE Reached(First!EmptySchedule, <<>>, list, f)
<1>1. FlattenSeq(<<>>) = <<>>
  BY FlattenNothing
<1>2. Chosen(<<>>, list)
  BY DEF Chosen, Combined
<1>3. beforeStart(<<>>, f) = 0 /\ afterEnd(<<>>, f) = 0
  BY FS_EmptySet DEF beforeStart, afterEnd
<1>4. First!canAddCombination(<<>>, <<>>, f)
  BY DEF First!canAddCombination
<1>5. First!EmptySchedule \in Records(Parts(list))
  BY DEF First!EmptySchedule, Records
<1>. QED BY <1>1, <1>2, <1>3, <1>4, <1>5 DEF Reached, First!EmptySchedule

LEMMA SkipReached ==
    ASSUME NEW list, Combined(list), NEW f, NEW s, NEW ch, Reached(s, ch, list, f),
           Len(ch) < Len(list), <<>> \in Options(list[Len(ch) + 1])
    PROVE  Reached(First!incrementNumCoursesAttempted(s), Append(ch, <<>>), list, f)
<1> DEFINE more == Append(ch, <<>>)
           t == First!incrementNumCoursesAttempted(s)
<1>1. Chosen(more, list) /\ Len(more) = Len(ch) + 1
  BY ChosenAppend DEF Reached
<1>2. FlattenSeq(ch) \in Seq(Parts(list)) /\ FlattenSeq(more) = FlattenSeq(ch)
  <2>1. PICK P : P = Parts(list)
    OBVIOUS
  <2>2. ch \in Seq(Seq(P)) /\ <<>> \in Seq(P)
    BY <2>1 DEF Reached, Chosen
  <2>3. FlattenSeq(ch) \in Seq(P) /\ FlattenSeq(more) = FlattenSeq(ch) \o <<>>
    BY <2>2, FlattenAppend
  <2>. QED BY <2>1, <2>3, Concat
<1>3. s \in Records(Parts(list)) /\ s.num_courses_attempted = Len(ch) /\ Len(ch) \in Nat
  BY DEF Reached, Chosen
<1>4. /\ t \in Records(Parts(list)) /\ t.components = s.components
      /\ t.num_courses_attempted = s.num_courses_attempted + 1 /\ t.num_courses = s.num_courses
      /\ t.num_before_start_filter = s.num_before_start_filter
      /\ t.num_after_end_filter = s.num_after_end_filter
  BY <1>3 DEF Records, First!incrementNumCoursesAttempted
<1> HIDE DEF more, t
<1>5. Reached(t, more, list, f)
  BY <1>1, <1>2, <1>3, <1>4 DEF Reached
<1>. QED BY <1>5 DEF more, t

LEMMA FirstCardinality == ASSUME NEW S PROVE First!Cardinality(S) = Cardinality(S)
BY DEF First!Cardinality, Cardinality

LEMMA AddReached ==
    ASSUME NEW list, Combined(list), NEW f, NEW s, NEW ch, Reached(s, ch, list, f),
           Len(ch) < Len(list), NEW cs \in ToSet(list[Len(ch) + 1].combinations),
           First!canAddCombination(s.components, cs, f)
    PROVE  Reached(First!addCourseConfiguration(s, cs, f), Append(ch, cs), list, f)
<1> DEFINE more == Append(ch, cs)
           t == First!addCourseConfiguration(s, cs, f)
<1>1. Chosen(more, list) /\ Len(more) = Len(ch) + 1 /\ cs \in Seq(Parts(list))
  BY ChosenAppend DEF Reached, Options
<1>2. PICK P : P = Parts(list)
  OBVIOUS
<1>3. PICK a \in Seq(P) : a = FlattenSeq(ch) /\ FlattenSeq(more) = a \o cs
  BY <1>1, <1>2, FlattenAppend DEF Reached, Chosen
<1>4. cs # <<>>
  <2>1. Len(ch) \in Nat /\ Len(ch) + 1 \in DOMAIN list
    BY DEF Reached, Chosen, Combined
  <2>2. list[Len(ch) + 1].combinations \in Seq(Filled(P))
    BY <1>2, <2>1 DEF Combined
  <2>. QED BY <2>2 DEF ToSet, Filled
<1>5. a \o cs \in Seq(P) /\ a \o cs # <<>>
  BY <1>1, <1>2, <1>4, Concat
<1>6. /\ beforeStart(cs, f) \in Nat /\ beforeStart(a \o cs, f) = beforeStart(a, f) + beforeStart(cs, f)
      /\ afterEnd(cs, f) \in Nat /\ afterEnd(a \o cs, f) = afterEnd(a, f) + afterEnd(cs, f)
  BY <1>1, <1>2, BeforeConcat, AfterConcat
<1>7. First!canAddCombination(<<>>, a \o cs, f)
  BY <1>1, <1>2, <1>3, AddableConcat DEF Reached
<1>8. /\ s.components = a /\ s.num_courses \in Nat /\ s.num_courses_attempted = Len(ch)
      /\ s.num_before_start_filter = beforeStart(a, f) /\ s.num_after_end_filter = afterEnd(a, f)
      /\ beforeStart(a, f) \in Nat /\ afterEnd(a, f) \in Nat /\ Len(ch) \in Nat
  BY <1>3 DEF Reached, Records, Chosen
<1>9. /\ beforeStart(cs, f) = Cardinality({i \in DOMAIN cs : f.before # First!NoTime /\ f.before > cs[i].start})
      /\ afterEnd(cs, f) = Cardinality({i \in DOMAIN cs : f.after # First!NoTime /\ f.after < cs[i].end})
  BY DEF First!NoTime, NoTime, beforeStart, afterEnd
<1>10. t = [components |-> a \o cs, num_courses |-> s.num_courses + 1,
            num_courses_attempted |-> Len(ch) + 1,
            num_before_start_filter |-> beforeStart(a, f) + beforeStart(cs, f),
            num_after_end_filter |-> afterEnd(a, f) + afterEnd(cs, f)]
  <2>1. t = [components |-> s.components \o cs, num_courses |-> s.num_courses + 1,
             num_courses_attempted |-> s.num_courses_attempted + 1,
             num_before_start_filter |-> s.num_before_start_filter + beforeStart(cs, f),
             num_after_end_filter |-> s.num_after_end_filter + afterEnd(cs, f)]
    BY <1>9, FirstCardinality DEF First!addCourseConfiguration
  <2>. QED BY <1>8, <2>1
<1> HIDE DEF more
<1>11. t \in Records(P)
  <2>1. PICK c \in Seq(P) : c = a \o cs
    BY <1>5
  <2>2. PICK k \in Nat, n \in Nat : k = s.num_courses + 1 /\ n = Len(ch) + 1
    BY <1>8
  <2>3. PICK before \in Nat, after \in Nat : /\ before = beforeStart(a, f) + beforeStart(cs, f)
                                            /\ after = afterEnd(a, f) + afterEnd(cs, f)
    BY <1>6, <1>8
  <2>4. t = [components |-> c, num_courses |-> k, num_courses_attempted |-> n,
             num_before_start_filter |-> before, num_after_end_filter |-> after]
    BY <1>10, <2>1, <2>2, <2>3
  <2> HIDE DEF t
  <2>. QED BY ONLY <2>4, c \in Seq(P), k \in Nat, n \in Nat, before \in Nat, after \in Nat DEF Records
<1>12. /\ t.components = FlattenSeq(more) /\ t.num_courses_attempted = Len(more)
       /\ t.num_courses # 0 /\ FlattenSeq(more) # <<>>
       /\ t.num_before_start_filter = beforeStart(FlattenSeq(more), f)
       /\ t.num_after_end_filter = afterEnd(FlattenSeq(more), f)
       /\ First!canAddCombination(<<>>, FlattenSeq(more), f)
  <2>1. FlattenSeq(more) = a \o cs
    BY <1>3
  <2>2. /\ t.components = a \o cs /\ t.num_courses = s.num_courses + 1
        /\ t.num_courses_attempted = Len(ch) + 1
        /\ t.num_before_start_filter = beforeStart(a, f) + beforeStart(cs, f)
        /\ t.num_after_end_filter = afterEnd(a, f) + afterEnd(cs, f)
    BY <1>10
  <2> HIDE DEF t
  <2>3. t.num_courses # 0
    BY <1>8, <2>2
  <2>. QED BY <1>1, <1>5, <1>6, <1>7, <2>1, <2>2, <2>3
<1> HIDE DEF t
<1>13. Reached(t, more, list, f)
  BY <1>1, <1>2, <1>11, <1>12 DEF Reached
<1>. QED BY <1>13 DEF more, t

\* Members are added one at a time.
LEMMA MembersOfAppend ==
    ASSUME NEW S, NEW seq \in Seq(S), NEW x
    PROVE  /\ ToSet(Append(seq, x)) = ToSet(seq) \cup {x}
           /\ \A T : seq \in Seq(T) /\ x \in T => Append(seq, x) \in Seq(T)
<1>. PICK n \in Nat : n = Len(seq)
  OBVIOUS
<1>1. PICK more : more = Append(seq, x)
  OBVIOUS
<1>2. DOMAIN seq = 1..n /\ DOMAIN more = 1..(n + 1) /\ more[n + 1] = x /\ \A i \in 1..n : more[i] = seq[i]
  BY <1>1
<1>3. \A i \in DOMAIN more : i = n + 1 \/ i \in DOMAIN seq
  BY <1>2
<1>4. n + 1 \in DOMAIN more /\ \A i \in DOMAIN seq : i \in DOMAIN more
  BY <1>2
<1>5. ToSet(more) = ToSet(seq) \cup {x}
  BY <1>2, <1>3, <1>4 DEF ToSet
<1>6. \A T : seq \in Seq(T) /\ x \in T => Append(seq, x) \in Seq(T)
  OBVIOUS
<1>. QED BY <1>1, <1>5, <1>6

\* What is reached from a schedule with the next course.
Followers(s, ch, list, f) == {x \in Records(Parts(list)) :
    \E cs \in Options(list[Len(ch) + 1]) : Reached(x, Append(ch, cs), list, f)}

LEMMA SuccessorsReached ==
    ASSUME NEW list, Combined(list), NEW s, NEW ch, Reached(s, ch, list, filters1), Len(ch) < Len(list)
    PROVE  LET extended == First!successors(s, list[Len(ch) + 1])
           IN  /\ extended \in Seq(Followers(s, ch, list, filters1))
               /\ \A cs \in Options(list[Len(ch) + 1]) :
                    First!canAddCombination(<<>>, FlattenSeq(Append(ch, cs)), filters1) =>
                        \E x \in ToSet(extended) : Reached(x, Append(ch, cs), list, filters1)
<1>1. PICK course, combos : course = list[Len(ch) + 1] /\ combos = course.combinations
  OBVIOUS
<1>2. PICK P, R : P = Parts(list) /\ R = Followers(s, ch, list, filters1)
  OBVIOUS
<1>3. combos \in Seq(Filled(P))
  <2>1. Len(ch) \in Nat /\ Len(ch) + 1 \in DOMAIN list
    BY DEF Reached, Chosen, Combined
  <2>. QED BY <1>1, <1>2, <2>1 DEF Combined
<1>4. PICK n \in Nat : n = Len(combos) /\ DOMAIN combos = 1..n
  BY <1>3
<1>5. PICK left : left = IF ~course.mandatory \/ combos = <<>>
                         THEN <<First!incrementNumCoursesAttempted(s)>> ELSE <<>>
  OBVIOUS
<1>6. /\ left \in Seq(R)
      /\ <<>> \in Options(course) => \E x \in ToSet(left) : Reached(x, Append(ch, <<>>), list, filters1)
  <2>1. CASE ~course.mandatory \/ combos = <<>>
    <3>1. <<>> \in Options(course)
      BY <1>1, <2>1 DEF Options
    <3>2. PICK x : x = First!incrementNumCoursesAttempted(s)
      OBVIOUS
    <3>3. Reached(x, Append(ch, <<>>), list, filters1)
      BY <1>1, <3>1, <3>2, SkipReached
    <3>4. x \in R
      BY <1>1, <1>2, <3>1, <3>3 DEF Followers, Reached
    <3>5. left = <<x>>
      BY <1>5, <2>1, <3>2
    <3>6. x \in ToSet(left) /\ left \in Seq(R)
      BY <3>4, <3>5 DEF ToSet
    <3>. QED BY <3>3, <3>6
  <2>2. CASE ~(~course.mandatory \/ combos = <<>>)
    <3>1. left = <<>>
      BY <1>5, <2>2
    <3>2. <<>> \notin Options(course)
      BY <1>1, <1>3, <2>2 DEF Options, ToSet, Filled
    <3>. QED BY <3>1, <3>2
  <2>. QED BY <2>1, <2>2
<1> DEFINE can(k) == First!canAddCombination(s.components, combos[k], filters1)
           with(k) == First!addCourseConfiguration(s, combos[k], filters1)
           body(x, k) == IF k = 0 THEN left
                         ELSE IF can(k) THEN Append(x[k - 1], with(k)) ELSE x[k - 1]
           Is(x) == x = [k \in 0..n |-> body(x, k)]
<1>7. ASSUME NEW k \in 1..n, can(k)
      PROVE  with(k) \in R /\ Reached(with(k), Append(ch, combos[k]), list, filters1)
  <2>1. combos[k] \in ToSet(combos)
    BY <1>4 DEF ToSet
  <2>2. PICK cs : cs = combos[k]
    OBVIOUS
  <2>3. Reached(First!addCourseConfiguration(s, cs, filters1), Append(ch, cs), list, filters1)
    BY <1>1, <1>7, <2>1, <2>2, AddReached
  <2>4. cs \in Options(course)
    BY <1>1, <2>1, <2>2 DEF Options
  <2>. QED BY <1>1, <1>2, <2>2, <2>3, <2>4 DEF Followers, Reached
<1>8. \E x : Is(x)
  <2> DEFINE Part(x, m) == DOMAIN x = 0..m /\ \A k \in 0..m : x[k] = body(x, k)
             I == {m \in Nat : \E x : Part(x, m)}
  <2> HIDE DEF can, with
  <2>1. 0 \in I
    <3>1. Part([k \in 0..0 |-> left], 0)
      OBVIOUS
    <3>. QED BY <3>1
  <2>2. ASSUME NEW m \in Nat, m \in I PROVE m + 1 \in I
    <3>1. PICK x : Part(x, m)
      BY <2>2
    <3> DEFINE y == [k \in 0..(m + 1) |-> IF k = m + 1 THEN body(x, m + 1) ELSE x[k]]
    <3>2. DOMAIN y = 0..(m + 1)
      OBVIOUS
    <3>3. ASSUME NEW k \in 0..(m + 1) PROVE y[k] = body(y, k)
      <4>1. CASE k = m + 1
        <5>1. m \in 0..(m + 1) /\ k - 1 = m /\ m # m + 1
          BY <4>1
        <5>2. y[m] = x[m] /\ y[k] = body(x, m + 1)
          BY <4>1, <5>1
        <5>. QED BY <4>1, <5>1, <5>2
      <4>2. CASE k # m + 1
        <5>1. k \in 0..m /\ (k # 0 => k - 1 \in 0..m)
          BY <4>2
        <5>2. y[k] = x[k] /\ (k # 0 => y[k - 1] = x[k - 1])
          BY <4>2, <5>1
        <5>3. x[k] = body(x, k)
          BY <3>1, <5>1
        <5>. QED BY <5>2, <5>3
      <4>. QED BY <4>1, <4>2
    <3> HIDE DEF y, body
    <3>. QED BY <3>2, <3>3
  <2> HIDE DEF I, body
  <2>3. n \in I
    BY <2>1, <2>2, SetInduction
  <2>4. PICK x : DOMAIN x = 0..n /\ \A k \in 0..n : x[k] = body(x, k)
    BY <2>3 DEF I
  <2> DEFINE y == [k \in 0..n |-> x[k]]
  <2>5. ASSUME NEW k \in 0..n PROVE y[k] = body(y, k)
    <3>1. k # 0 => k - 1 \in 0..n
      OBVIOUS
    <3>2. body(y, k) = body(x, k)
      BY <3>1 DEF body
    <3>. QED BY <2>4, <3>2
  <2> HIDE DEF y
  <2>6. DOMAIN y = 0..n /\ y = [k \in 0..n |-> y[k]]
    BY DEF y
  <2>7. y = [k \in 0..n |-> body(y, k)]
    BY <2>5, <2>6
  <2>. QED BY <2>7
<1>9. PICK x : x = CHOOSE y : Is(y)
  OBVIOUS
<1>10. \A k \in 0..n : x[k] = body(x, k)
  <2>1. Is(x)
    BY <1>8, <1>9
  <2>. QED BY <2>1
<1>11. First!successors(s, course) = x[n]
  BY <1>1, <1>4, <1>5, <1>9 DEF First!successors
<1> DEFINE Good(seq, k) == /\ seq \in Seq(R)
                           /\ ToSet(left) \subseteq ToSet(seq)
                           /\ \A j \in 1..k : can(j) => with(j) \in ToSet(seq)
           J == {k \in Nat : k <= n => Good(x[k], k)}
<1> HIDE DEF can, with
<1>12. 0 \in J
  <2>1. x[0] = left
    BY <1>10
  <2>. QED BY <1>6, <2>1
<1>13. ASSUME NEW k \in Nat, k \in J PROVE k + 1 \in J
  <2> SUFFICES ASSUME k + 1 <= n PROVE Good(x[k + 1], k + 1)
    OBVIOUS
  <2>1. Good(x[k], k)
    BY <1>13
  <2>2. PICK seq \in Seq(R) : seq = x[k]
    BY <2>1
  <2>3. x[k + 1] = IF can(k + 1) THEN Append(seq, with(k + 1)) ELSE seq
    <3>1. k + 1 \in 0..n /\ k + 1 # 0 /\ (k + 1) - 1 = k
      OBVIOUS
    <3>2. x[k + 1] = body(x, k + 1)
      BY <1>10, <3>1
    <3>. QED BY <2>2, <3>1, <3>2
  <2>4. \A j \in 1..(k + 1) : j \in 1..k \/ j = k + 1
    OBVIOUS
  <2>5. CASE can(k + 1)
    <3>1. with(k + 1) \in R
      BY <1>7, <2>5
    <3>2. PICK y : y = with(k + 1)
      OBVIOUS
    <3>3. ToSet(Append(seq, y)) = ToSet(seq) \cup {y} /\ Append(seq, y) \in Seq(R)
      BY <3>1, <3>2, MembersOfAppend
    <3>4. x[k + 1] = Append(seq, y)
      BY <2>3, <2>5, <3>2
    <3>. QED BY <2>1, <2>2, <2>4, <3>2, <3>3, <3>4
  <2>6. CASE ~can(k + 1)
    BY <2>1, <2>2, <2>3, <2>4, <2>6
  <2>. QED BY <2>5, <2>6
<1> HIDE DEF J
<1>14. n \in J
  BY <1>12, <1>13, SetInduction
<1>15. Good(x[n], n)
  BY <1>14 DEF J
<1>16. ASSUME NEW cs \in Options(course), First!canAddCombination(<<>>, FlattenSeq(Append(ch, cs)), filters1)
       PROVE  \E y \in ToSet(x[n]) : Reached(y, Append(ch, cs), list, filters1)
  <2>1. CASE cs = <<>>
    <3>1. <<>> \in Options(course)
      BY <2>1
    <3>2. PICK y \in ToSet(left) : Reached(y, Append(ch, <<>>), list, filters1)
      BY <1>6, <3>1
    <3>. QED BY <1>15, <2>1, <3>2
  <2>2. CASE cs # <<>>
    <3>1. cs \in ToSet(combos)
      BY <1>1, <2>2 DEF Options
    <3>2. PICK k \in 1..n : combos[k] = cs
      BY <1>4, <3>1 DEF ToSet
    <3>3. cs \in Seq(P)
      BY <1>1, <1>2, ChosenAppend DEF Reached
    <3>4. FlattenSeq(ch) \in Seq(P) /\ FlattenSeq(Append(ch, cs)) = FlattenSeq(ch) \o cs
      BY <1>2, <3>3, FlattenAppend DEF Reached, Chosen
    <3>5. First!canAddCombination(FlattenSeq(ch), cs, filters1)
      <4>1. PICK a \in Seq(P) : a = FlattenSeq(ch)
        BY <3>4
      <4>2. First!canAddCombination(<<>>, a \o cs, filters1)
        BY <1>16, <3>4, <4>1
      <4>. QED BY <3>3, <4>1, <4>2, AddableConcat
    <3>6. s.components = FlattenSeq(ch)
      BY DEF Reached
    <3>7. can(k)
      BY <3>2, <3>5, <3>6 DEF can
    <3>8. Reached(with(k), Append(ch, cs), list, filters1)
      BY <1>7, <3>2, <3>7
    <3>9. with(k) \in ToSet(x[n])
      BY <1>15, <3>7
    <3>. QED BY <3>8, <3>9
  <2>. QED BY <2>1, <2>2
<1>17. x[n] \in Seq(R)
  BY <1>15
<1>. QED BY <1>1, <1>2, <1>11, <1>16, <1>17

-----------------------------------------------------------------------------
(* What is kept of them                                                    *)

LEMMA FirstToSet == ASSUME NEW s PROVE First!ToSet(s) = ToSet(s)
BY DEF First!ToSet, ToSet

\* Sets of schedules with the same counts.
Alike(set) == \A x \in ToSet(set) :
    /\ x.num_before_start_filter = set[1].num_before_start_filter
    /\ x.num_after_end_filter = set[1].num_after_end_filter
Sets(sets, R) == sets \in Seq(Filled(R)) /\ \A i \in DOMAIN sets : Alike(sets[i])

LEMMA IntoSets ==
    ASSUME NEW R, NEW sets, Sets(sets, R), NEW s \in R
    PROVE  LET more == First!intoSets(sets, s)
           IN  Sets(more, R) /\ more # <<>> /\ Within(more) = Within(sets) \cup {s}
<1>1. PICK more : more = First!intoSets(sets, s)
  OBVIOUS
<1>2. PICK n \in Nat : n = Len(sets)
  BY DEF Sets
<1>3. /\ DOMAIN sets = 1..n
      /\ \A i \in 1..n : sets[i] \in Seq(R) /\ sets[i] # <<>> /\ Alike(sets[i])
  BY <1>2 DEF Sets, Filled
<1> DEFINE same == {i \in DOMAIN sets : First!getProfile(sets[i][1]) = First!getProfile(s)}
<1>4. CASE same = {}
  <2>1. more = Append(sets, <<s>>)
    BY <1>1, <1>4 DEF First!intoSets
  <2>2. <<s>> \in Filled(R) /\ ToSet(<<s>>) = {s} /\ Alike(<<s>>)
    BY DEF Filled, ToSet, Alike
  <2>3. ToSet(more) = ToSet(sets) \cup {<<s>>} /\ more \in Seq(Filled(R))
    BY <2>1, <2>2, MembersOfAppend DEF Sets
  <2>4. Within(more) = Within(sets) \cup {s}
    BY <2>2, <2>3 DEF Within
  <2>5. Len(more) = n + 1 /\ more[n + 1] = <<s>> /\ \A i \in 1..n : more[i] = sets[i]
    BY <1>2, <2>1 DEF Sets
  <2>6. \A i \in DOMAIN more : i \in 1..n \/ i = n + 1
    BY <2>3, <2>5
  <2>7. \A i \in DOMAIN more : Alike(more[i])
    BY <1>3, <2>2, <2>5, <2>6
  <2>8. more # <<>>
    BY <2>5
  <2>. QED BY <1>1, <2>3, <2>4, <2>7, <2>8 DEF Sets
<1>5. CASE same # {}
  <2>1. more = [i \in DOMAIN sets |-> IF i \in same THEN Append(sets[i], s) ELSE sets[i]]
    BY <1>1, <1>5 DEF First!intoSets
  <2>2. ASSUME NEW i \in 1..n, i \in same
        PROVE  /\ more[i] \in Filled(R) /\ ToSet(more[i]) = ToSet(sets[i]) \cup {s} /\ Alike(more[i])
    <3>1. PICK set \in Seq(R) : set = sets[i] /\ set # <<>> /\ Alike(set)
      BY <1>3
    <3>2. PICK longer : longer = Append(set, s)
      OBVIOUS
    <3>3. more[i] = longer
      BY <1>3, <2>1, <2>2, <3>1, <3>2
    <3>4. longer \in Seq(R) /\ ToSet(longer) = ToSet(set) \cup {s}
      BY <3>1, <3>2, MembersOfAppend
    <3>5. longer # <<>> /\ longer[1] = set[1]
      BY <3>1, <3>2
    <3>6. First!getProfile(set[1]) = First!getProfile(s)
      BY <2>2, <3>1
    <3>7. /\ s.num_before_start_filter = set[1].num_before_start_filter
          /\ s.num_after_end_filter = set[1].num_after_end_filter
      BY <3>6 DEF First!getProfile
    <3>8. Alike(longer)
      BY <3>1, <3>4, <3>5, <3>7 DEF Alike
    <3>. QED BY <3>1, <3>3, <3>4, <3>5, <3>8 DEF Filled
  <2>3. \A i \in 1..n : i \notin same => more[i] = sets[i] /\ sets[i] \in Filled(R) /\ Alike(sets[i])
    BY <1>3, <2>1 DEF Filled
  <2>4. DOMAIN more = 1..n
    BY <1>3, <2>1
  <2>5. same \subseteq 1..n
    BY <1>3
  <2> HIDE DEF same
  <2>6. \A i \in 1..n : more[i] \in Filled(R) /\ Alike(more[i])
    BY <2>2, <2>3
  <2>7. more \in Seq(Filled(R)) /\ more # <<>>
    <3>1. more = [i \in 1..n |-> more[i]]
      BY <2>1, <2>4
    <3>0. PICK j \in same : TRUE
      BY <1>5
    <3>2. n # 0
      BY <2>5, <3>0
    <3>3. 1 \in DOMAIN more
      BY <2>4, <3>2
    <3>. QED BY <2>6, <3>1, <3>3
  <2>8. Within(more) = Within(sets) \cup {s}
    <3>1. \A i \in 1..n : ToSet(sets[i]) \subseteq ToSet(more[i]) /\ ToSet(more[i]) \subseteq ToSet(sets[i]) \cup {s}
      BY <2>2, <2>3
    <3>2. \E i \in 1..n : s \in ToSet(more[i])
      BY <1>5, <2>2, <2>5
    <3>3. Within(more) = UNION {ToSet(more[i]) : i \in 1..n}
      BY <2>4 DEF Within, ToSet
    <3>4. Within(sets) = UNION {ToSet(sets[i]) : i \in 1..n}
      <4>1. DOMAIN sets = 1..n
        BY <1>3
      <4>. QED BY <4>1 DEF Within, ToSet
    <3>. QED BY <3>1, <3>2, <3>3, <3>4
  <2>. QED BY <1>1, <2>4, <2>6, <2>7, <2>8 DEF Sets
<1>. QED BY <1>4, <1>5

\* What addSchedule keeps, and that it has come from something before.
KeptSets(kept, R) ==
    /\ kept \in [schedules : Nat, schedule_sets : Seq(Filled(R)), did_reach_limit : BOOLEAN]
    /\ Sets(kept.schedule_sets, R)
    /\ kept.schedules # 0 \/ kept.did_reach_limit => kept.schedule_sets # <<>>

Fitting(X, f) == {x \in X : x.num_courses # 0 /\ First!checkFilters(x.components, f)}

LEMMA FittingUnion ==
    ASSUME NEW X, NEW Y, NEW f PROVE Fitting(X \cup Y, f) = Fitting(X, f) \cup Fitting(Y, f)
BY DEF Fitting

Added(from, to, X) ==
    /\ Within(from.schedule_sets) \subseteq Within(to.schedule_sets)
    /\ Within(to.schedule_sets) \subseteq Within(from.schedule_sets) \cup X
    /\ ~to.did_reach_limit => ~from.did_reach_limit /\ X \subseteq Within(to.schedule_sets)

LEMMA AddedTwice ==
    ASSUME NEW a, NEW b, NEW c, NEW X, NEW Y, Added(a, b, X), Added(b, c, Y)
    PROVE  Added(a, c, X \cup Y)
BY DEF Added

LEMMA AddScheduleKeeps ==
    ASSUME NEW P, NEW kept, KeptSets(kept, Records(P)), NEW s \in Records(P), limit \in Nat \ {0}
    PROVE  /\ KeptSets(First!addSchedule(kept, s), Records(P))
           /\ Added(kept, First!addSchedule(kept, s), Fitting({s}, filters1))
<1>1. PICK R : R = Records(P)
  OBVIOUS
<1>2. /\ kept \in [schedules : Nat, schedule_sets : Seq(Filled(R)), did_reach_limit : BOOLEAN]
      /\ Sets(kept.schedule_sets, R)
      /\ kept.schedules # 0 \/ kept.did_reach_limit => kept.schedule_sets # <<>>
  BY <1>1 DEF KeptSets
<1>3. PICK to : to = First!addSchedule(kept, s)
  OBVIOUS
<1>4. CASE kept.schedules >= limit \/ kept.did_reach_limit
  <2>1. to = [kept EXCEPT !.did_reach_limit = TRUE]
    BY <1>3, <1>4 DEF First!addSchedule
  <2>2. /\ to \in [schedules : Nat, schedule_sets : Seq(Filled(R)), did_reach_limit : BOOLEAN]
        /\ to.schedule_sets = kept.schedule_sets /\ to.did_reach_limit /\ to.schedules = kept.schedules
    BY <1>2, <2>1
  <2>3. kept.schedules # 0 \/ kept.did_reach_limit
    BY <1>2, <1>4
  <2>. QED BY <1>1, <1>2, <1>3, <2>2, <2>3 DEF KeptSets, Added
<1>5. CASE ~(kept.schedules >= limit \/ kept.did_reach_limit)
  <2>0. s.num_courses > 0 <=> s.num_courses # 0
    BY DEF Records
  <2>1. CASE s.num_courses # 0 /\ First!checkFilters(s.components, filters1)
    <3>1. PICK sets : sets = First!intoSets(kept.schedule_sets, s)
      OBVIOUS
    <3>2. to = [kept EXCEPT !.schedules = @ + 1, !.schedule_sets = sets]
      BY <1>3, <1>5, <2>0, <2>1, <3>1 DEF First!addSchedule
    <3>3. Sets(sets, R) /\ sets # <<>> /\ Within(sets) = Within(kept.schedule_sets) \cup {s}
      BY <1>1, <1>2, <3>1, IntoSets
    <3>4. sets \in Seq(Filled(R))
      BY <3>3 DEF Sets
    <3>5. /\ to \in [schedules : Nat, schedule_sets : Seq(Filled(R)), did_reach_limit : BOOLEAN]
          /\ to.schedule_sets = sets /\ to.did_reach_limit = kept.did_reach_limit
      <4>1. PICK a \in Nat, c \in BOOLEAN : a = kept.schedules /\ c = kept.did_reach_limit
        BY <1>2
      <4>2. kept = [schedules |-> a, schedule_sets |-> kept.schedule_sets, did_reach_limit |-> c]
        BY <1>2, <4>1
      <4>3. to = [schedules |-> a + 1, schedule_sets |-> sets, did_reach_limit |-> c]
        <5>1. PICK old : old = kept.schedule_sets
          OBVIOUS
        <5>2. kept = [schedules |-> a, schedule_sets |-> old, did_reach_limit |-> c]
          BY <4>2, <5>1
        <5>3. to = [[schedules |-> a, schedule_sets |-> old, did_reach_limit |-> c]
                       EXCEPT !.schedules = @ + 1, !.schedule_sets = sets]
          BY <3>2, <5>2
        <5>. QED BY <5>3
      <4>. QED BY <3>4, <4>1, <4>3
    <3>6. Fitting({s}, filters1) = {s}
      BY <2>1 DEF Fitting
    <3>. QED BY <1>1, <1>3, <3>3, <3>5, <3>6 DEF KeptSets, Added
  <2>2. CASE ~(s.num_courses # 0 /\ First!checkFilters(s.components, filters1))
    <3>1. to = kept
      BY <1>3, <1>5, <2>0, <2>2 DEF First!addSchedule
    <3>2. Fitting({s}, filters1) = {}
      BY <2>2 DEF Fitting
    <3>. QED BY <1>3, <3>1, <3>2 DEF Added
  <2>. QED BY <2>1, <2>2
<1>. QED BY <1>4, <1>5

LEMMA AddAllKeeps ==
    ASSUME NEW P, KeptSets(found1, Records(P)), NEW extended \in Seq(Records(P)), limit \in Nat \ {0},
           NEW to \in First!addAll(extended)
    PROVE  KeptSets(to, Records(P)) /\ Added(found1, to, Fitting(ToSet(extended), filters1))
<1>1. PICK R : R = Records(P)
  OBVIOUS
<1>2. PICK n \in Nat : n = Len(extended) /\ DOMAIN extended = 1..n
  OBVIOUS
<1> DEFINE body(x, k) == IF k = 0 THEN {found1}
                         ELSE {First!addSchedule(kept, extended[k]) : kept \in x[k - 1]}
           Is(x) == x = [k \in 0..n |-> body(x, k)]
<1>3. \E x : Is(x)
  <2> DEFINE Part(x, m) == DOMAIN x = 0..m /\ \A k \in 0..m : x[k] = body(x, k)
             I == {m \in Nat : \E x : Part(x, m)}
  <2>1. 0 \in I
    <3>1. Part([k \in 0..0 |-> {found1}], 0)
      OBVIOUS
    <3>. QED BY <3>1
  <2>2. ASSUME NEW m \in Nat, m \in I PROVE m + 1 \in I
    <3>1. PICK x : Part(x, m)
      BY <2>2
    <3> DEFINE y == [k \in 0..(m + 1) |-> IF k = m + 1 THEN body(x, m + 1) ELSE x[k]]
    <3>2. DOMAIN y = 0..(m + 1)
      OBVIOUS
    <3>3. ASSUME NEW k \in 0..(m + 1) PROVE y[k] = body(y, k)
      <4>1. CASE k = m + 1
        <5>1. m \in 0..(m + 1) /\ k - 1 = m /\ m # m + 1
          BY <4>1
        <5>2. y[m] = x[m] /\ y[k] = body(x, m + 1)
          BY <4>1, <5>1
        <5>. QED BY <4>1, <5>1, <5>2
      <4>2. CASE k # m + 1
        <5>1. k \in 0..m /\ (k # 0 => k - 1 \in 0..m)
          BY <4>2
        <5>2. y[k] = x[k] /\ (k # 0 => y[k - 1] = x[k - 1])
          BY <4>2, <5>1
        <5>3. x[k] = body(x, k)
          BY <3>1, <5>1
        <5>. QED BY <5>2, <5>3
      <4>. QED BY <4>1, <4>2
    <3> HIDE DEF y, body
    <3>. QED BY <3>2, <3>3
  <2> HIDE DEF I, body
  <2>3. n \in I
    BY <2>1, <2>2, SetInduction
  <2>4. PICK x : DOMAIN x = 0..n /\ \A k \in 0..n : x[k] = body(x, k)
    BY <2>3 DEF I
  <2> DEFINE y == [k \in 0..n |-> x[k]]
  <2>5. ASSUME NEW k \in 0..n PROVE y[k] = body(y, k)
    <3>1. k # 0 => k - 1 \in 0..n
      OBVIOUS
    <3>2. body(y, k) = body(x, k)
      BY <3>1 DEF body
    <3>. QED BY <2>4, <3>2
  <2> HIDE DEF y
  <2>6. DOMAIN y = 0..n /\ y = [k \in 0..n |-> y[k]]
    BY DEF y
  <2>7. y = [k \in 0..n |-> body(y, k)]
    BY <2>5, <2>6
  <2>. QED BY <2>7
<1>4. PICK x : x = CHOOSE y : Is(y)
  OBVIOUS
<1>5. \A k \in 0..n : x[k] = body(x, k)
  <2>1. Is(x)
    BY <1>3, <1>4
  <2>. QED BY <2>1
<1>6. First!addAll(extended) = x[n]
  BY <1>2, <1>4 DEF First!addAll
<1> DEFINE upto(k) == {extended[j] : j \in 1..k}
           J == {k \in Nat : k <= n => \A kept \in x[k] :
                    KeptSets(kept, R) /\ Added(found1, kept, Fitting(upto(k), filters1))}
<1>7. 0 \in J
  <2>1. x[0] = {found1}
    <3>1. 0 \in 0..n
      OBVIOUS
    <3>2. x[0] = body(x, 0)
      BY <1>5, <3>1
    <3>. QED BY <3>2
  <2>2. Fitting(upto(0), filters1) = {}
    BY DEF Fitting
  <2>3. Added(found1, found1, {})
    BY DEF Added
  <2>. QED BY <1>1, <2>1, <2>2, <2>3
<1>8. ASSUME NEW k \in Nat, k \in J PROVE k + 1 \in J
  <2> SUFFICES ASSUME k + 1 <= n, NEW kept \in x[k + 1]
               PROVE  KeptSets(kept, R) /\ Added(found1, kept, Fitting(upto(k + 1), filters1))
    OBVIOUS
  <2>1. k + 1 \in 0..n /\ k + 1 \in 1..n /\ k + 1 # 0 /\ (k + 1) - 1 = k /\ k <= n
    OBVIOUS
  <2>2. x[k + 1] = {First!addSchedule(old, extended[k + 1]) : old \in x[k]}
    BY <1>5, <2>1
  <2>3. PICK old \in x[k] : kept = First!addSchedule(old, extended[k + 1])
    BY <2>2
  <2>4. KeptSets(old, R) /\ Added(found1, old, Fitting(upto(k), filters1))
    BY <1>8, <2>1
  <2>5. PICK s \in R : s = extended[k + 1]
    BY <1>1, <1>2, <2>1
  <2>6. KeptSets(kept, R) /\ Added(old, kept, Fitting({s}, filters1))
    BY <1>1, <2>3, <2>4, <2>5, AddScheduleKeeps
  <2>7. Fitting(upto(k + 1), filters1) = Fitting(upto(k), filters1) \cup Fitting({s}, filters1)
    <3>1. \A j \in 1..(k + 1) : j \in 1..k \/ j = k + 1
      OBVIOUS
    <3>2. k + 1 \in 1..(k + 1) /\ \A j \in 1..k : j \in 1..(k + 1)
      OBVIOUS
    <3>3. upto(k + 1) = upto(k) \cup {s}
      BY <2>5, <3>1, <3>2
    <3> HIDE DEF upto
    <3>. QED BY <3>3, FittingUnion
  <2>8. PICK X, Y : X = Fitting(upto(k), filters1) /\ Y = Fitting({s}, filters1)
    OBVIOUS
  <2>9. Added(found1, kept, X \cup Y)
    BY <2>4, <2>6, <2>8, AddedTwice
  <2>. QED BY <2>6, <2>7, <2>8, <2>9
<1> HIDE DEF J
<1>9. n \in J
  BY <1>7, <1>8, SetInduction
<1>10. KeptSets(to, R) /\ Added(found1, to, Fitting(upto(n), filters1))
  BY <1>6, <1>9 DEF J
<1>11. upto(n) = ToSet(extended)
  BY <1>2 DEF ToSet
<1>. QED BY <1>1, <1>10, <1>11

-----------------------------------------------------------------------------
(* The sets with the least count                                           *)

Counts == {"num_before_start_filter", "num_after_end_filter"}
LeastOf(X, count) == {x \in X : \A y \in X : x[count] <= y[count]}

\* The sets are those whose schedules have the least count, and there are some.
LEMMA LeastSets ==
    ASSUME NEW P, NEW sets, Sets(sets, Records(P)), NEW count \in Counts
    PROVE  LET fewest == First!withLeast(sets, count)
           IN  /\ Sets(fewest, Records(P))
               /\ sets # <<>> => fewest # <<>>
               /\ Within(fewest) = LeastOf(Within(sets), count)
<1>1. PICK R : R = Records(P)
  OBVIOUS
<1>2. PICK n \in Nat : n = Len(sets) /\ DOMAIN sets = 1..n
  BY DEF Sets
<1>3. \A i \in 1..n : sets[i] \in Seq(R) /\ sets[i] # <<>> /\ Alike(sets[i])
  BY <1>1, <1>2 DEF Sets, Filled
<1> DEFINE good(i) == \A k \in DOMAIN sets : sets[i][1][count] <= sets[k][1][count]
           body(x, i) == IF i = 0 THEN <<>>
                         ELSE IF good(i) THEN Append(x[i - 1], sets[i]) ELSE x[i - 1]
           Is(x) == x = [i \in 0..n |-> body(x, i)]
<1>4. \E x : Is(x)
  <2> HIDE DEF good
  <2> DEFINE Part(x, m) == DOMAIN x = 0..m /\ \A k \in 0..m : x[k] = body(x, k)
             I == {m \in Nat : \E x : Part(x, m)}
  <2>1. 0 \in I
    <3>1. Part([k \in 0..0 |-> <<>>], 0)
      OBVIOUS
    <3>. QED BY <3>1
  <2>2. ASSUME NEW m \in Nat, m \in I PROVE m + 1 \in I
    <3>1. PICK x : Part(x, m)
      BY <2>2
    <3> DEFINE y == [k \in 0..(m + 1) |-> IF k = m + 1 THEN body(x, m + 1) ELSE x[k]]
    <3>2. DOMAIN y = 0..(m + 1)
      OBVIOUS
    <3>3. ASSUME NEW k \in 0..(m + 1) PROVE y[k] = body(y, k)
      <4>1. CASE k = m + 1
        <5>1. m \in 0..(m + 1) /\ k - 1 = m /\ m # m + 1
          BY <4>1
        <5>2. y[m] = x[m] /\ y[k] = body(x, m + 1)
          BY <4>1, <5>1
        <5>. QED BY <4>1, <5>1, <5>2
      <4>2. CASE k # m + 1
        <5>1. k \in 0..m /\ (k # 0 => k - 1 \in 0..m)
          BY <4>2
        <5>2. y[k] = x[k] /\ (k # 0 => y[k - 1] = x[k - 1])
          BY <4>2, <5>1
        <5>3. x[k] = body(x, k)
          BY <3>1, <5>1
        <5>. QED BY <5>2, <5>3
      <4>. QED BY <4>1, <4>2
    <3> HIDE DEF y, body
    <3>. QED BY <3>2, <3>3
  <2> HIDE DEF I, body
  <2>3. n \in I
    BY <2>1, <2>2, SetInduction
  <2>4. PICK x : DOMAIN x = 0..n /\ \A k \in 0..n : x[k] = body(x, k)
    BY <2>3 DEF I
  <2> DEFINE y == [k \in 0..n |-> x[k]]
  <2>5. ASSUME NEW k \in 0..n PROVE y[k] = body(y, k)
    <3>1. k # 0 => k - 1 \in 0..n
      OBVIOUS
    <3>2. body(y, k) = body(x, k)
      BY <3>1 DEF body
    <3>. QED BY <2>4, <3>2
  <2> HIDE DEF y
  <2>6. DOMAIN y = 0..n /\ y = [k \in 0..n |-> y[k]]
    BY DEF y
  <2>7. y = [k \in 0..n |-> body(y, k)]
    BY <2>5, <2>6
  <2>. QED BY <2>7
<1>5. PICK x : x = CHOOSE y : Is(y)
  OBVIOUS
<1>6. \A k \in 0..n : x[k] = body(x, k)
  <2>1. Is(x)
    BY <1>4, <1>5
  <2> HIDE DEF good
  <2>. QED BY <2>1
<1>7. First!withLeast(sets, count) = x[n]
  BY <1>2, <1>5 DEF First!withLeast
<1>8. \A i \in 1..n : good(i) <=> \A k \in 1..n : sets[i][1][count] <= sets[k][1][count]
  BY <1>2
<1> HIDE DEF good
<1> DEFINE J == {k \in Nat : k <= n => /\ x[k] \in Seq(Filled(R))
                                       /\ ToSet(x[k]) = {sets[j] : j \in {j \in 1..k : good(j)}}}
<1>9. 0 \in J
  <2>1. 0 \in 0..n
    OBVIOUS
  <2>2. x[0] = <<>>
    BY <1>6, <2>1
  <2>3. ToSet(<<>>) = {}
    BY DEF ToSet
  <2>4. {sets[j] : j \in {j \in 1..0 : good(j)}} = {}
    OBVIOUS
  <2>5. ToSet(x[0]) = {sets[j] : j \in {j \in 1..0 : good(j)}}
    BY <2>2, <2>3, <2>4
  <2>6. x[0] \in Seq(Filled(R))
    BY <2>2
  <2>. QED BY <2>5, <2>6
<1>10. ASSUME NEW k \in Nat, k \in J PROVE k + 1 \in J
  <2> SUFFICES ASSUME k + 1 <= n
               PROVE  /\ x[k + 1] \in Seq(Filled(R))
                      /\ ToSet(x[k + 1]) = {sets[j] : j \in {j \in 1..(k + 1) : good(j)}}
    OBVIOUS
  <2>1. k + 1 \in 0..n /\ k + 1 \in 1..n /\ k + 1 # 0 /\ (k + 1) - 1 = k /\ k <= n
    OBVIOUS
  <2>2. PICK seq \in Seq(Filled(R)) : seq = x[k]
    BY <1>10, <2>1
  <2>3. ToSet(seq) = {sets[j] : j \in {j \in 1..k : good(j)}}
    BY <1>10, <2>1, <2>2
  <2>4. x[k + 1] = IF good(k + 1) THEN Append(seq, sets[k + 1]) ELSE seq
    BY <1>6, <2>1, <2>2
  <2>5. \A j \in 1..(k + 1) : j \in 1..k \/ j = k + 1
    OBVIOUS
  <2>6. k + 1 \in 1..(k + 1) /\ \A j \in 1..k : j \in 1..(k + 1)
    OBVIOUS
  <2>7. CASE good(k + 1)
    <3>1. PICK y : y = sets[k + 1]
      OBVIOUS
    <3>2. y \in Filled(R)
      BY <1>3, <2>1, <3>1 DEF Filled
    <3>3. ToSet(Append(seq, y)) = ToSet(seq) \cup {y} /\ Append(seq, y) \in Seq(Filled(R))
      BY <3>2, MembersOfAppend
    <3>4. {sets[j] : j \in {j \in 1..(k + 1) : good(j)}} = ToSet(seq) \cup {y}
      BY <2>3, <2>5, <2>6, <2>7, <3>1
    <3>. QED BY <2>4, <2>7, <3>1, <3>3, <3>4
  <2>8. CASE ~good(k + 1)
    <3>1. {sets[j] : j \in {j \in 1..(k + 1) : good(j)}} = ToSet(seq)
      BY <2>3, <2>5, <2>6, <2>8
    <3>. QED BY <2>2, <2>4, <2>8, <3>1
  <2>. QED BY <2>7, <2>8
<1> HIDE DEF J
<1>11. n \in J
  BY <1>9, <1>10, SetInduction
<1>12. PICK fewest : fewest = x[n]
  OBVIOUS
<1>13. fewest \in Seq(Filled(R)) /\ ToSet(fewest) = {sets[j] : j \in {j \in 1..n : good(j)}}
  BY <1>11, <1>12 DEF J
<1>14. Sets(fewest, R)
  <2>1. \A i \in DOMAIN fewest : fewest[i] \in ToSet(fewest)
    BY DEF ToSet
  <2>. QED BY <1>3, <1>13, <2>1 DEF Sets
<1> DEFINE first(j) == sets[j][1][count]
<1>15. ASSUME NEW j \in 1..n
       PROVE  /\ sets[j][1] \in ToSet(sets[j])
              /\ first(j) \in Nat
              /\ \A s \in ToSet(sets[j]) : s[count] = first(j)
  <2>1. PICK set \in Seq(R) : set = sets[j] /\ set # <<>> /\ Alike(set)
    BY <1>3
  <2>2. 1 \in DOMAIN set
    BY <2>1
  <2>3. set[1] \in R /\ set[1] \in ToSet(set)
    BY <2>2 DEF ToSet
  <2>4. /\ set[1].num_before_start_filter \in Nat /\ set[1].num_after_end_filter \in Nat
    BY <1>1, <2>3 DEF Records
  <2>5. CASE count = "num_before_start_filter"
    BY <2>1, <2>3, <2>4, <2>5 DEF Alike
  <2>6. CASE count = "num_after_end_filter"
    BY <2>1, <2>3, <2>4, <2>6 DEF Alike
  <2>. QED BY <2>5, <2>6 DEF Counts
<1>16. Within(sets) = UNION {ToSet(sets[j]) : j \in 1..n}
  BY <1>2 DEF Within, ToSet
<1>17. Within(fewest) = UNION {ToSet(sets[j]) : j \in {j \in 1..n : good(j)}}
  <2>1. PICK S : S = {j \in 1..n : good(j)}
    OBVIOUS
  <2>2. ToSet(fewest) = {sets[j] : j \in S}
    BY <1>13, <2>1
  <2>3. Within(fewest) = UNION {ToSet(sets[j]) : j \in S}
    BY <2>2 DEF Within
  <2>. QED BY <2>1, <2>3
<1>18. \A i \in 1..n : good(i) <=> \A k \in 1..n : first(i) <= first(k)
  BY <1>8
<1> HIDE DEF first
<1>19. Within(fewest) = LeastOf(Within(sets), count)
  <2>1. ASSUME NEW s \in Within(fewest) PROVE s \in LeastOf(Within(sets), count)
    <3>1. PICK j \in 1..n : good(j) /\ s \in ToSet(sets[j])
      BY <1>17
    <3>2. s[count] = first(j) /\ s \in Within(sets)
      BY <1>15, <1>16, <3>1
    <3>3. ASSUME NEW t \in Within(sets) PROVE s[count] <= t[count]
      <4>1. PICK k \in 1..n : t \in ToSet(sets[k])
        BY <1>16
      <4>. QED BY <1>15, <1>18, <3>1, <3>2, <4>1
    <3>. QED BY <3>2, <3>3 DEF LeastOf
  <2>2. ASSUME NEW s \in LeastOf(Within(sets), count) PROVE s \in Within(fewest)
    <3>1. PICK j \in 1..n : s \in ToSet(sets[j])
      BY <1>16 DEF LeastOf
    <3>2. s[count] = first(j)
      BY <1>15, <3>1
    <3>3. ASSUME NEW k \in 1..n PROVE first(j) <= first(k)
      <4>1. PICK t : t = sets[k][1]
        OBVIOUS
      <4>2. t \in ToSet(sets[k]) /\ t[count] = first(k)
        BY <1>15, <4>1
      <4>3. t \in Within(sets)
        BY <1>16, <4>2
      <4>4. s[count] <= t[count]
        BY <4>3 DEF LeastOf
      <4>. QED BY <3>2, <4>2, <4>4
    <3>. QED BY <1>17, <1>18, <3>1, <3>3
  <2>. QED BY <2>1, <2>2
<1>20. ASSUME sets # <<>> PROVE fewest # <<>>
  <2> DEFINE V == {first(j) : j \in 1..n}
  <2>1. n # 0
    BY <1>2, <1>20 DEF Sets
  <2>2. V # {} /\ V \subseteq Nat
    <3>1. 1 \in 1..n
      BY <2>1
    <3>. QED BY <1>15, <3>1
  <2>3. PICK v \in V : \A w \in V : v <= w
    BY <2>2, LeastNumber
  <2>4. PICK j \in 1..n : v = first(j)
    OBVIOUS
  <2>5. good(j)
    BY <1>18, <2>3, <2>4
  <2>6. sets[j] \in ToSet(fewest)
    BY <1>13, <2>5
  <2>7. ToSet(<<>>) = {}
    BY DEF ToSet
  <2>. QED BY <2>6, <2>7
<1>. QED BY <1>1, <1>7, <1>12, <1>14, <1>19, <1>20

-----------------------------------------------------------------------------
(* The search of the first generator                                       *)

Begins(p, ch) == Len(p) <= Len(ch) /\ \A i \in 1..Len(p) : p[i] = ch[i]

\* A choice for every course that the filters admit.
Wanted(ch, list, f) ==
    /\ Chosen(ch, list) /\ Len(ch) = Len(list)
    /\ FlattenSeq(ch) # <<>>
    /\ First!canAddCombination(<<>>, FlattenSeq(ch), f)
    /\ First!checkFilters(FlattenSeq(ch), f)

AllWanted(list, f) == {cs \in Seq(Parts(list)) : \E ch : Wanted(ch, list, f) /\ cs = FlattenSeq(ch)}

LEMMA ChosenFlat ==
    ASSUME NEW list, NEW ch, Chosen(ch, list) PROVE FlattenSeq(ch) \in Seq(Parts(list))
<1>1. PICK P : P = Parts(list)
  OBVIOUS
<1>2. ch \in Seq(Seq(P))
  BY <1>1 DEF Chosen
<1>3. PICK n \in Nat : n = Len(ch)
  BY <1>2
<1>4. PICK steps : Steps(steps, n, P, ch) /\ FlattenSeq(ch) = steps[n]
  BY <1>2, <1>3, FlattenSteps
<1>. QED BY <1>1, <1>3, <1>4 DEF Steps

LEMMA CandidatesWanted ==
    ASSUME Combined(courses1) PROVE FirstCandidates = AllWanted(courses1, filters1)
<1>1. PICK list, f : list = courses1 /\ f = filters1
  OBVIOUS
<1>2. PICK n \in Nat : n = Len(list) /\ DOMAIN list = 1..n
  BY <1>1 DEF Combined
<1>3. PICK P : P = Parts(list)
  OBVIOUS
<1> DEFINE all == UNION {Options(list[i]) : i \in DOMAIN list}
           choices == {ch \in [DOMAIN list -> all] : \A i \in DOMAIN list : ch[i] \in Options(list[i])}
           flat == {FlattenSeq(ch) : ch \in choices} \ {<<>>}
<1>4. FirstCandidates = {cs \in flat : First!canAddCombination(<<>>, cs, f) /\ First!checkFilters(cs, f)}
  BY <1>1 DEF FirstCandidates, Options
<1>5. ASSUME NEW ch PROVE ch \in choices <=> Chosen(ch, list) /\ Len(ch) = n
  <2>1. ASSUME ch \in choices PROVE Chosen(ch, list) /\ Len(ch) = n
    <3>1. ASSUME NEW i \in 1..n PROVE ch[i] \in Seq(P)
      <4>1. list[i].combinations \in Seq(Filled(P))
        BY <1>1, <1>2, <1>3 DEF Combined
      <4>2. Options(list[i]) \subseteq Seq(P)
        <5>1. ToSet(list[i].combinations) \subseteq Seq(P)
          BY <4>1 DEF ToSet, Filled
        <5>2. <<>> \in Seq(P)
          OBVIOUS
        <5>. QED BY <5>1, <5>2 DEF Options
      <4>. QED BY <1>2, <2>1, <4>2
    <3>2. ch \in [1..n -> all]
      BY <1>2, <2>1
    <3>3. ch \in [1..n -> Seq(P)]
      BY <3>1, <3>2
    <3>4. ch \in Seq(Seq(P)) /\ Len(ch) = n
      BY <3>3
    <3>. QED BY <1>2, <1>3, <2>1, <3>4 DEF Chosen
  <2>2. ASSUME Chosen(ch, list), Len(ch) = n PROVE ch \in choices
    <3>1. ch \in [1..n -> Seq(P)] /\ \A i \in 1..n : ch[i] \in Options(list[i])
      BY <1>3, <2>2 DEF Chosen
    <3>2. \A i \in 1..n : ch[i] \in all
      BY <1>2, <3>1
    <3>3. ch \in [1..n -> all]
      BY <3>1, <3>2
    <3>. QED BY <1>2, <3>1, <3>3
  <2>. QED BY <2>1, <2>2
<1> HIDE DEF choices
<1>6. ASSUME NEW cs PROVE cs \in FirstCandidates <=> cs \in AllWanted(list, f)
  <2>1. ASSUME cs \in FirstCandidates PROVE cs \in AllWanted(list, f)
    <3>1. /\ cs \in flat
          /\ First!canAddCombination(<<>>, cs, f) /\ First!checkFilters(cs, f)
      BY <1>4, <2>1
    <3>2. PICK ch \in choices : cs = FlattenSeq(ch)
      BY <3>1
    <3>3. Wanted(ch, list, f)
      BY <1>2, <1>5, <3>1, <3>2 DEF Wanted
    <3>4. cs \in Seq(Parts(list))
      BY <1>5, <3>2, ChosenFlat
    <3>. QED BY <3>2, <3>3, <3>4 DEF AllWanted
  <2>2. ASSUME cs \in AllWanted(list, f) PROVE cs \in FirstCandidates
    <3>1. PICK ch : Wanted(ch, list, f) /\ cs = FlattenSeq(ch)
      BY <2>2 DEF AllWanted
    <3>2. ch \in choices
      BY <1>2, <1>5, <3>1 DEF Wanted
    <3>3. cs \in flat
      BY <3>1, <3>2 DEF Wanted
    <3>. QED BY <1>4, <3>1, <3>3 DEF Wanted
  <2>. QED BY <2>1, <2>2
<1>. QED BY <1>1, <1>6

\* Schedules on the queue: courses are left, if there were any.
Queued(list, f) == {s \in Records(Parts(list)) :
    \E p : Reached(s, p, list, f) /\ (Len(p) < Len(list) \/ list = <<>>)}

Met(ch, q, kept, list, f) ==
    \/ \E s \in Within(kept.schedule_sets) : s.components = FlattenSeq(ch)
    \/ \E i \in DOMAIN q : \E p : Reached(q[i], p, list, f) /\ Begins(p, ch)

MadeOfWanted(s, list, f) == \E ch : Wanted(ch, list, f) /\ Reached(s, ch, list, f)

\* The best of them.
BestWanted(list, f) ==
    LET fewest == {cs \in AllWanted(list, f) : \A other \in AllWanted(list, f) :
                     beforeStart(cs, f) <= beforeStart(other, f)}
    IN  {cs \in fewest : \A other \in fewest : afterEnd(cs, f) <= afterEnd(other, f)}

Finished(kept, list, f) ==
    /\ Sets(kept.schedule_sets, Records(Parts(list)))
    /\ \A s \in Within(kept.schedule_sets) : MadeOfWanted(s, list, f)
    /\ kept.did_reach_limit => kept.schedule_sets # <<>>
    /\ ~kept.did_reach_limit => {s.components : s \in Within(kept.schedule_sets)} = BestWanted(list, f)

Searching(list, f, q, kept, st) ==
    /\ Combined(list)
    /\ st \in {"queue", "filter", "done", "timed_out"}
    /\ st \in {"queue", "filter"} => /\ KeptSets(kept, Records(Parts(list)))
                                     /\ \A s \in Within(kept.schedule_sets) : MadeOfWanted(s, list, f)
    /\ st = "queue" => /\ ~kept.did_reach_limit
                       /\ q \in Seq(Queued(list, f))
                       /\ \A ch : Wanted(ch, list, f) => Met(ch, q, kept, list, f)
    /\ st = "filter" => kept.did_reach_limit
    /\ st = "done" => Finished(kept, list, f)

\* A schedule on the queue is followed by one that is closer to the choice.
LEMMA HeadExtended ==
    ASSUME NEW list, Combined(list), NEW s, NEW p, Reached(s, p, list, filters1),
           Len(p) < Len(list), NEW ch, Wanted(ch, list, filters1), Begins(p, ch)
    PROVE  \E x \in ToSet(First!successors(s, list[Len(p) + 1])) :
              \E r : /\ Reached(x, r, list, filters1) /\ Begins(r, ch) /\ Len(r) = Len(p) + 1
                     /\ Len(r) = Len(list) => r = ch
<1>1. PICK P : P = Parts(list)
  OBVIOUS
<1>2. p \in Seq(Seq(P)) /\ ch \in Seq(Seq(P)) /\ Len(ch) = Len(list)
  BY <1>1 DEF Wanted, Reached, Chosen
<1>3. PICK m \in Nat, n \in Nat : m = Len(p) /\ n = Len(ch) /\ m < n
  BY <1>2
<1>4. PICK cs \in Options(list[m + 1]) : cs = ch[m + 1]
  <2>1. m + 1 \in 1..n
    BY <1>3
  <2>. QED BY <1>3, <2>1 DEF Wanted, Chosen
<1>5. PICK r : r = Append(p, cs)
  OBVIOUS
<1>6. r \in Seq(Seq(P)) /\ Len(r) = m + 1
  BY <1>1, <1>3, <1>4, <1>5, ChosenAppend DEF Reached, Chosen
<1>7. r[m + 1] = cs /\ \A i \in 1..m : r[i] = p[i]
  BY <1>2, <1>3, <1>5
<1>8. \A i \in 1..(m + 1) : r[i] = ch[i]
  <2> TAKE i \in 1..(m + 1)
  <2>1. CASE i = m + 1
    BY <1>4, <1>7, <2>1
  <2>2. CASE i \in 1..m
    BY <1>3, <1>7, <2>2 DEF Begins
  <2>. QED BY <2>1, <2>2
<1>9. Begins(r, ch)
  BY <1>3, <1>6, <1>8 DEF Begins
<1>10. PICK rest \in Seq(P) : FlattenSeq(ch) = FlattenSeq(r) \o rest
  BY <1>2, <1>6, <1>9, FlattenPrefix DEF Begins
<1>11. First!canAddCombination(<<>>, FlattenSeq(r), filters1)
  <2>1. Chosen(r, list)
    BY <1>1, <1>3, <1>4, <1>5, ChosenAppend DEF Reached
  <2>2. PICK a \in Seq(P) : a = FlattenSeq(r)
    BY <1>1, <2>1, ChosenFlat
  <2>3. First!canAddCombination(<<>>, a \o rest, filters1)
    BY <1>10, <2>2 DEF Wanted
  <2>. QED BY <2>2, <2>3, AddableConcat
<1>12. PICK x \in ToSet(First!successors(s, list[m + 1])) : Reached(x, r, list, filters1)
  BY <1>3, <1>4, <1>5, <1>11, SuccessorsReached
<1>13. Len(r) = Len(list) => r = ch
  BY <1>2, <1>3, <1>6, <1>8
<1>. QED BY <1>3, <1>6, <1>9, <1>12, <1>13

-----------------------------------------------------------------------------
(* The turns of the loop                                                   *)

LEMMA NextCompletes ==
    ASSUME NEW list, Combined(list), NEW s, NEW p, Reached(s, p, list, filters1),
           Len(p) + 1 = Len(list), NEW x, x \in Followers(s, p, list, filters1),
           x.num_courses # 0, First!checkFilters(x.components, filters1)
    PROVE  MadeOfWanted(x, list, filters1)
<1>1. PICK cs \in Options(list[Len(p) + 1]) : Reached(x, Append(p, cs), list, filters1)
  BY DEF Followers
<1>2. Len(p) \in Nat /\ Len(list) \in Nat
  BY DEF Reached, Chosen, Combined
<1>3. PICK ch : ch = Append(p, cs)
  OBVIOUS
<1>4. Len(ch) = Len(list)
  BY <1>2, <1>3, ChosenAppend DEF Reached
<1>5. Wanted(ch, list, filters1)
  BY <1>1, <1>3, <1>4 DEF Wanted, Reached
<1>. QED BY <1>1, <1>3, <1>5 DEF MadeOfWanted

LEMMA NextIsQueued ==
    ASSUME NEW list, Combined(list), NEW s, NEW p, Reached(s, p, list, filters1),
           Len(p) + 1 < Len(list), NEW x, x \in Followers(s, p, list, filters1)
    PROVE  x \in Queued(list, filters1)
<1>1. PICK cs \in Options(list[Len(p) + 1]) : Reached(x, Append(p, cs), list, filters1)
  BY DEF Followers
<1>2. Len(p) \in Nat /\ Len(list) \in Nat
  BY DEF Reached, Chosen, Combined
<1>3. PICK ch : ch = Append(p, cs)
  OBVIOUS
<1>4. Len(ch) < Len(list)
  BY <1>2, <1>3, ChosenAppend DEF Reached
<1>. QED BY <1>1, <1>3, <1>4 DEF Queued, Reached

\* The last course: what is complete is kept, if it fits.
LEMMA LastTurn ==
    ASSUME NEW list, list = courses1, limit \in Nat \ {0},
           Searching(list, filters1, queue1, found1, status1), status1 = "queue",
           NEW q \in Seq(Queued(list, filters1)), q = queue1, q # <<>>,
           NEW p, Reached(Head(q), p, list, filters1), Len(p) + 1 = Len(list),
           NEW extended, extended = First!successors(Head(q), list[Len(p) + 1]),
           NEW to \in First!addAll(extended), NEW st,
           st = IF to.did_reach_limit THEN "filter" ELSE "queue"
    PROVE  Searching(list, filters1, Tail(q), to, st)
<1>1. PICK f, P, s : f = filters1 /\ P = Parts(list) /\ s = Head(q)
  OBVIOUS
<1>2. /\ Combined(list) /\ KeptSets(found1, Records(P)) /\ ~found1.did_reach_limit
      /\ \A t \in Within(found1.schedule_sets) : MadeOfWanted(t, list, f)
      /\ \A ch : Wanted(ch, list, f) => Met(ch, q, found1, list, f)
  BY <1>1 DEF Searching
<1>3. Len(p) \in Nat /\ Len(list) \in Nat /\ Len(p) < Len(list)
  BY <1>2 DEF Reached, Chosen, Combined
<1>4. extended \in Seq(Followers(s, p, list, f))
  BY <1>1, <1>2, <1>3, SuccessorsReached
<1>5. extended \in Seq(Records(P)) /\ ToSet(extended) \subseteq Followers(s, p, list, f)
  BY <1>1, <1>4 DEF Followers, ToSet
<1>6. KeptSets(to, Records(P)) /\ Added(found1, to, Fitting(ToSet(extended), f))
  BY <1>1, <1>2, <1>5, AddAllKeeps
<1>7. ASSUME NEW t \in Within(to.schedule_sets) PROVE MadeOfWanted(t, list, f)
  <2>1. CASE t \in Within(found1.schedule_sets)
    BY <1>2, <2>1
  <2>2. CASE t \in Fitting(ToSet(extended), f)
    BY <1>1, <1>2, <1>5, <2>2, NextCompletes DEF Fitting
  <2>. QED BY <1>6, <2>1, <2>2 DEF Added
<1>8. Tail(q) \in Seq(Queued(list, f))
  BY <1>1
<1>9. ASSUME ~to.did_reach_limit, NEW ch, Wanted(ch, list, f) PROVE Met(ch, Tail(q), to, list, f)
  <2>1. CASE \E t \in Within(found1.schedule_sets) : t.components = FlattenSeq(ch)
    BY <1>6, <2>1 DEF Met, Added
  <2>2. ASSUME NEW i \in DOMAIN q, NEW r, Reached(q[i], r, list, f), Begins(r, ch)
        PROVE  Met(ch, Tail(q), to, list, f)
    <3>1. CASE i = 1
      <4>1. q[i] = s
        BY <1>1, <3>1
      <4>2. Len(r) = Len(p)
        BY <1>1, <2>2, <4>1 DEF Reached
      <4>3. PICK x \in ToSet(extended) : Reached(x, ch, list, f)
        <5>1. Reached(s, r, list, filters1) /\ Begins(r, ch) /\ Wanted(ch, list, filters1)
          BY <1>1, <1>9, <2>2, <4>1
        <5>2. PICK x \in ToSet(First!successors(s, list[Len(r) + 1])) :
                \E z : /\ Reached(x, z, list, filters1) /\ Begins(z, ch) /\ Len(z) = Len(r) + 1
                       /\ Len(z) = Len(list) => z = ch
          BY <1>2, <1>3, <4>2, <5>1, HeadExtended
        <5>. QED BY <1>1, <4>2, <5>2
      <4>4. x \in Fitting(ToSet(extended), f)
        BY <1>9, <4>3 DEF Fitting, Reached, Wanted
      <4>5. x \in Within(to.schedule_sets) /\ x.components = FlattenSeq(ch)
        BY <1>6, <1>9, <4>3, <4>4 DEF Added, Reached
      <4>. QED BY <4>5 DEF Met
    <3>2. CASE i # 1
      <4>1. i - 1 \in DOMAIN Tail(q) /\ Tail(q)[i - 1] = q[i]
        BY <3>2
      <4>. QED BY <2>2, <4>1 DEF Met
    <3>. QED BY <3>1, <3>2
  <2>. QED BY <1>2, <1>9, <2>1, <2>2 DEF Met
<1>10. st \in {"queue", "filter"} /\ (st = "filter" <=> to.did_reach_limit)
  <2>1. to.did_reach_limit \in BOOLEAN
    BY <1>6 DEF KeptSets
  <2>. QED BY <2>1
<1>. QED BY <1>1, <1>2, <1>6, <1>7, <1>8, <1>9, <1>10 DEF Searching

\* Another course: what follows goes to the end of the queue.
LEMMA OtherTurn ==
    ASSUME NEW list, list = courses1, Searching(list, filters1, queue1, found1, status1),
           status1 = "queue",
           NEW q \in Seq(Queued(list, filters1)), q = queue1, q # <<>>,
           NEW p, Reached(Head(q), p, list, filters1), Len(p) + 1 < Len(list),
           NEW extended, extended = First!successors(Head(q), list[Len(p) + 1])
    PROVE  Searching(list, filters1, Tail(q) \o extended, found1, status1)
<1>1. PICK f, P, s : f = filters1 /\ P = Parts(list) /\ s = Head(q)
  OBVIOUS
<1>2. /\ Combined(list) /\ KeptSets(found1, Records(P)) /\ ~found1.did_reach_limit
      /\ \A t \in Within(found1.schedule_sets) : MadeOfWanted(t, list, f)
      /\ \A ch : Wanted(ch, list, f) => Met(ch, q, found1, list, f)
  BY <1>1 DEF Searching
<1>3. Len(p) \in Nat /\ Len(list) \in Nat /\ Len(p) < Len(list)
  BY <1>2 DEF Reached, Chosen, Combined
<1>4. extended \in Seq(Followers(s, p, list, f))
  BY <1>1, <1>2, <1>3, SuccessorsReached
<1>5. Followers(s, p, list, f) \subseteq Queued(list, f)
  BY <1>1, <1>2, NextIsQueued
<1>6. extended \in Seq(Queued(list, f))
  BY <1>4, <1>5
<1>7. PICK rest \in Seq(Queued(list, f)) : rest = Tail(q)
  <2>1. Tail(q) \in Seq(Queued(list, f))
    BY <1>1
  <2>. QED BY <2>1
<1>8. PICK longer : longer = rest \o extended
  OBVIOUS
<1>9. /\ longer \in Seq(Queued(list, f))
      /\ \A i \in DOMAIN rest : i \in DOMAIN longer /\ longer[i] = rest[i]
      /\ \A i \in DOMAIN extended : Len(rest) + i \in DOMAIN longer /\ longer[Len(rest) + i] = extended[i]
  <2>1. PICK Q : Q = Queued(list, f)
    OBVIOUS
  <2>2. rest \in Seq(Q) /\ extended \in Seq(Q) /\ longer = rest \o extended
    BY <1>6, <1>7, <1>8, <2>1
  <2>3. longer \in Seq(Q)
    BY ONLY <2>2, Concat
  <2>4. /\ \A i \in DOMAIN rest : i \in DOMAIN longer /\ longer[i] = rest[i]
        /\ \A i \in DOMAIN extended : Len(rest) + i \in DOMAIN longer
                                      /\ longer[Len(rest) + i] = extended[i]
    BY ONLY <2>2, ConcatMembers
  <2>. QED BY ONLY <2>1, <2>3, <2>4
<1>10. ASSUME NEW ch, Wanted(ch, list, f) PROVE Met(ch, longer, found1, list, f)
  <2>1. CASE \E t \in Within(found1.schedule_sets) : t.components = FlattenSeq(ch)
    BY <2>1 DEF Met
  <2>2. ASSUME NEW i \in DOMAIN q, NEW r, Reached(q[i], r, list, f), Begins(r, ch)
        PROVE  Met(ch, longer, found1, list, f)
    <3>1. CASE i = 1
      <4>1. q[i] = s
        BY <1>1, <3>1
      <4>2. Len(r) = Len(p)
        BY <1>1, <2>2, <4>1 DEF Reached
      <4>3. PICK x \in ToSet(extended) : \E z : Reached(x, z, list, f) /\ Begins(z, ch)
        <5>1. Reached(s, r, list, filters1) /\ Begins(r, ch) /\ Wanted(ch, list, filters1)
          BY <1>1, <1>10, <2>2, <4>1
        <5>2. PICK x \in ToSet(First!successors(s, list[Len(r) + 1])) :
                \E z : /\ Reached(x, z, list, filters1) /\ Begins(z, ch) /\ Len(z) = Len(r) + 1
                       /\ Len(z) = Len(list) => z = ch
          BY <1>2, <1>3, <4>2, <5>1, HeadExtended
        <5>. QED BY <1>1, <4>2, <5>2
      <4>4. PICK k \in DOMAIN extended : extended[k] = x
        BY <4>3 DEF ToSet
      <4>. QED BY <1>9, <4>3, <4>4 DEF Met
    <3>2. CASE i # 1
      <4>1. i - 1 \in DOMAIN rest /\ rest[i - 1] = q[i]
        BY <1>7, <3>2
      <4>. QED BY <1>9, <2>2, <4>1 DEF Met
    <3>. QED BY <3>1, <3>2
  <2>. QED BY <1>2, <1>10, <2>1, <2>2 DEF Met
<1>. QED BY <1>1, <1>2, <1>7, <1>8, <1>9, <1>10 DEF Searching

LEMMA TurnKeeps ==
    ASSUME Searching(courses1, filters1, queue1, found1, status1), limit \in Nat \ {0}, First!dequeue
    PROVE  Searching(courses1, filters1, queue1', found1', status1')
<1>1. PICK list : list = courses1
  OBVIOUS
<1>2. status1 = "queue" /\ queue1 # <<>>
  BY DEF First!dequeue
<1>3. PICK q \in Seq(Queued(list, filters1)) : q = queue1
  BY <1>1, <1>2 DEF Searching
<1>4. PICK s : s = Head(q)
  OBVIOUS
<1>5. s \in Queued(list, filters1)
  BY <1>2, <1>3, <1>4
<1>6. PICK p : Reached(s, p, list, filters1) /\ (Len(p) < Len(list) \/ list = <<>>)
  BY <1>5 DEF Queued
<1>7. Len(p) \in Nat /\ Len(list) \in Nat /\ s.num_courses_attempted = Len(p)
  BY <1>1, <1>6 DEF Reached, Chosen, Searching, Combined
<1>8. PICK next : next = Len(p) + 1
  OBVIOUS
<1>9. IF next > Len(list)
      THEN queue1' = Tail(q) /\ UNCHANGED <<found1, status1>>
      ELSE \E extended \in {First!successors(s, list[next])} :
             IF next = Len(list)
             THEN /\ queue1' = Tail(q)
                  /\ found1' \in First!addAll(extended)
                  /\ status1' = IF found1'.did_reach_limit THEN "filter" ELSE "queue"
             ELSE /\ queue1' = Tail(q) \o extended
                  /\ UNCHANGED <<found1, status1>>
  BY <1>1, <1>3, <1>4, <1>7, <1>8 DEF First!dequeue
<1>10. CASE next > Len(list)
  <2>1. list = <<>>
    BY <1>6, <1>7, <1>8, <1>10
  <2>2. queue1' = Tail(q) /\ found1' = found1 /\ status1' = status1
    BY <1>9, <1>10
  <2>3. ASSUME NEW ch, Wanted(ch, list, filters1) PROVE FALSE
    <3>1. ch = <<>>
      BY <2>1, <2>3 DEF Wanted, Chosen
    <3>. QED BY <2>3, <3>1, FlattenNothing DEF Wanted
  <2>4. Tail(q) \in Seq(Queued(list, filters1))
    BY <1>2, <1>3
  <2>. QED BY <1>1, <2>2, <2>3, <2>4 DEF Searching
<1>11. CASE ~(next > Len(list))
  <2>1. PICK extended : extended = First!successors(s, list[next])
    OBVIOUS
  <2>2. CASE next = Len(list)
    <3>1. PICK to, st : to = found1' /\ st = status1'
      OBVIOUS
    <3>2. /\ queue1' = Tail(q) /\ to \in First!addAll(extended)
          /\ st = IF to.did_reach_limit THEN "filter" ELSE "queue"
      BY <1>9, <1>11, <2>1, <2>2, <3>1
    <3>3. Searching(list, filters1, Tail(q), to, st)
      BY <1>1, <1>2, <1>3, <1>4, <1>6, <1>8, <2>1, <2>2, <3>2, LastTurn
    <3>. QED BY <1>1, <3>1, <3>2, <3>3
  <2>3. CASE next # Len(list)
    <3>1. queue1' = Tail(q) \o extended /\ found1' = found1 /\ status1' = status1
      BY <1>9, <1>11, <2>1, <2>3
    <3>2. Len(p) + 1 < Len(list)
      BY <1>7, <1>8, <1>11, <2>3
    <3>3. Searching(list, filters1, Tail(q) \o extended, found1, status1)
      BY <1>1, <1>2, <1>3, <1>4, <1>6, <1>8, <2>1, <3>2, OtherTurn
    <3>. QED BY <1>1, <3>1, <3>3
  <2>. QED BY <2>2, <2>3
<1>. QED BY <1>10, <1>11

\* The schedules with the least counts are made of the best choices.
LEMMA LeastAreBest ==
    ASSUME NEW list, NEW f, NEW X, \A s \in X : MadeOfWanted(s, list, f),
           \A cs \in AllWanted(list, f) : \E s \in X : s.components = cs
    PROVE  {s.components : s \in LeastOf(LeastOf(X, "num_before_start_filter"), "num_after_end_filter")}
              = BestWanted(list, f)
<1> DEFINE W == AllWanted(list, f)
           fewest == {cs \in W : \A other \in W : beforeStart(cs, f) <= beforeStart(other, f)}
           wanted == {cs \in fewest : \A other \in fewest : afterEnd(cs, f) <= afterEnd(other, f)}
           Y == LeastOf(X, "num_before_start_filter")
           Z == LeastOf(Y, "num_after_end_filter")
<1>1. ASSUME NEW s \in X
      PROVE  /\ s.components \in W
             /\ s.num_before_start_filter = beforeStart(s.components, f)
             /\ s.num_after_end_filter = afterEnd(s.components, f)
  <2>1. PICK ch : Wanted(ch, list, f) /\ Reached(s, ch, list, f)
    BY DEF MadeOfWanted
  <2>2. s.components \in W
    BY <2>1, ChosenFlat DEF Reached, AllWanted, Wanted
  <2>. QED BY <2>1, <2>2 DEF Reached
<1>2. ASSUME NEW s \in X PROVE s \in Y <=> s.components \in fewest
  <2>1. ASSUME s \in Y, NEW other \in W
        PROVE  beforeStart(s.components, f) <= beforeStart(other, f)
    <3>1. PICK t \in X : t.components = other
      OBVIOUS
    <3>2. s.num_before_start_filter <= t.num_before_start_filter
      BY <2>1 DEF LeastOf
    <3>. QED BY <1>1, <3>1, <3>2
  <2>2. ASSUME s.components \in fewest, NEW t \in X
        PROVE  s.num_before_start_filter <= t.num_before_start_filter
    BY <1>1, <2>2
  <2>. QED BY <1>1, <2>1, <2>2 DEF LeastOf
<1>3. Y \subseteq X
  BY DEF LeastOf
<1> HIDE DEF W, Y
<1>4. \A cs \in fewest : \E s \in Y : s.components = cs
  BY <1>2 DEF W
<1>5. ASSUME NEW s \in Y PROVE s \in Z <=> s.components \in wanted
  <2>1. ASSUME s \in Z, NEW other \in fewest
        PROVE  afterEnd(s.components, f) <= afterEnd(other, f)
    <3>1. PICK t \in Y : t.components = other
      BY <1>4
    <3>2. s.num_after_end_filter <= t.num_after_end_filter
      BY <2>1 DEF LeastOf
    <3>. QED BY <1>1, <1>3, <3>1, <3>2
  <2>2. ASSUME s.components \in wanted, NEW t \in Y
        PROVE  s.num_after_end_filter <= t.num_after_end_filter
    <3>1. t.components \in fewest
      BY <1>2, <1>3
    <3>. QED BY <1>1, <1>3, <2>2, <3>1
  <2>3. s.components \in fewest
    BY <1>2, <1>3
  <2> HIDE DEF fewest
  <2>4. ASSUME s \in Z PROVE s.components \in wanted
    BY <2>1, <2>3, <2>4
  <2>5. ASSUME s.components \in wanted PROVE s \in Z
    BY <2>2, <2>5 DEF LeastOf
  <2>. QED BY <2>4, <2>5
<1>6. Z \subseteq Y /\ wanted \subseteq fewest
  BY DEF LeastOf
<1>7. BestWanted(list, f) = wanted
  BY DEF BestWanted, W
<1> HIDE DEF Z, wanted, fewest
<1>8. {s.components : s \in Z} = wanted
  BY <1>4, <1>5, <1>6
<1>. QED BY <1>7, <1>8 DEF Z, Y

\* applyWholeScheduleFilters leaves the best, or some when there was something.
LEMMA FinishFinishes ==
    ASSUME Searching(courses1, filters1, queue1, found1, status1), First!finish
    PROVE  Searching(courses1, filters1, queue1', found1', status1')
<1>1. PICK list, f, P, sets : /\ list = courses1 /\ f = filters1 /\ P = Parts(courses1)
                              /\ sets = found1.schedule_sets
  OBVIOUS
<1>2. status1 = "filter" \/ (status1 = "queue" /\ queue1 = <<>>)
  BY DEF First!finish
<1>3. /\ Combined(list) /\ KeptSets(found1, Records(P))
      /\ \A s \in Within(sets) : MadeOfWanted(s, list, f)
      /\ status1 = "filter" => found1.did_reach_limit
      /\ status1 = "queue" => /\ ~found1.did_reach_limit
                              /\ \A ch : Wanted(ch, list, f) => Met(ch, queue1, found1, list, f)
  BY <1>1, <1>2 DEF Searching
<1>4. PICK some : some = First!withLeast(sets, "num_before_start_filter")
  OBVIOUS
<1>5. PICK few : few = First!withLeast(some, "num_after_end_filter")
  OBVIOUS
<1>6. found1' = [found1 EXCEPT !.schedule_sets = few] /\ status1' = "done"
  BY <1>1, <1>4, <1>5 DEF First!finish
<1>7. found1'.schedule_sets = few /\ found1'.did_reach_limit = found1.did_reach_limit
  BY <1>3, <1>6 DEF KeptSets
<1>8. /\ Sets(some, Records(P)) /\ (sets # <<>> => some # <<>>)
      /\ Within(some) = LeastOf(Within(sets), "num_before_start_filter")
  BY <1>1, <1>3, <1>4, LeastSets DEF KeptSets, Counts
<1>9. /\ Sets(few, Records(P)) /\ (some # <<>> => few # <<>>)
      /\ Within(few) = LeastOf(Within(some), "num_after_end_filter")
  BY <1>5, <1>8, LeastSets DEF Counts
<1>10. found1.did_reach_limit => few # <<>>
  BY <1>1, <1>3, <1>8, <1>9 DEF KeptSets
<1>11. ASSUME ~found1.did_reach_limit PROVE {s.components : s \in Within(few)} = BestWanted(list, f)
  <2>1. queue1 = <<>> /\ \A ch : Wanted(ch, list, f) => Met(ch, queue1, found1, list, f)
    BY <1>2, <1>3, <1>11
  <2>2. \A cs \in AllWanted(list, f) : \E s \in Within(sets) : s.components = cs
    BY <1>1, <2>1 DEF AllWanted, Met
  <2>. QED BY <1>3, <1>8, <1>9, <2>2, LeastAreBest
<1>12. Finished(found1', list, f)
  <2>1. Within(few) \subseteq Within(sets)
    BY <1>8, <1>9 DEF LeastOf
  <2>. QED BY <1>1, <1>3, <1>7, <1>9, <1>10, <1>11, <2>1 DEF Finished
<1>. QED BY <1>1, <1>3, <1>6, <1>12 DEF Searching

LEMMA GenerateKeeps ==
    ASSUME Searching(courses1, filters1, queue1, found1, status1), limit \in Nat \ {0}, First!generate
    PROVE  Searching(courses1', filters1', queue1', found1', status1')
<1>1. courses1' = courses1 /\ filters1' = filters1
  BY DEF First!generate, First!dequeue, First!timeOut, First!finish
<1>2. CASE First!dequeue
  BY <1>1, <1>2, TurnKeeps
<1>3. CASE First!timeOut
  BY <1>1, <1>3 DEF First!timeOut, Searching
<1>4. CASE First!finish
  BY <1>1, <1>4, FinishFinishes
<1>. QED BY <1>2, <1>3, <1>4 DEF First!generate

-----------------------------------------------------------------------------
(* The answer of version 1                                                 *)

Claimed(result, list, f) ==
    result.error \in {"none", "SCHED_2001"} /\ result.messages = {} =>
        result.schedules = {ToSet(cs) : cs \in BestWanted(list, f)}

LEMMA AnswerClaims ==
    ASSUME Searching(courses1, filters1, queue1, found1, status1), status1 \in {"done", "timed_out"}
    PROVE  Claimed(First!getResult, courses1, filters1)
<1>1. PICK result : result = First!getResult
  OBVIOUS
<1>2. CASE status1 = "timed_out"
  <2>1. result.error = "SCHED_2004"
    BY <1>1, <1>2 DEF First!getResult
  <2>. QED BY <1>1, <2>1 DEF Claimed
<1>3. CASE status1 = "done"
  <2>1. Finished(found1, courses1, filters1)
    BY <1>3 DEF Searching
  <2>2. PICK sets, wanted : sets = found1.schedule_sets /\ wanted = BestWanted(courses1, filters1)
    OBVIOUS
  <2>3. First!results = Within(sets)
    BY <2>2, FirstToSet DEF First!results, Within
  <2>4. CASE sets = <<>>
    <3>1. result.schedules = {}
      BY <1>1, <1>3, <2>2, <2>4 DEF First!getResult
    <3>2. Within(sets) = {}
      BY <2>4 DEF Within, ToSet
    <3>3. wanted = {}
      BY <2>1, <2>2, <2>4, <3>2 DEF Finished
    <3>. QED BY <1>1, <2>2, <3>1, <3>3 DEF Claimed
  <2>5. CASE sets # <<>>
    <3>1. /\ result.messages = IF found1.did_reach_limit THEN {"SCHED_2002"} ELSE {}
          /\ result.schedules = {First!ToSet(s.components) : s \in Within(sets)}
      BY <1>1, <1>3, <2>2, <2>3, <2>5 DEF First!getResult
    <3>2. ASSUME result.messages = {} PROVE result.schedules = {ToSet(cs) : cs \in wanted}
      <4>1. {s.components : s \in Within(sets)} = wanted
        BY <2>1, <2>2, <3>1, <3>2 DEF Finished
      <4>2. result.schedules = {ToSet(s.components) : s \in Within(sets)}
        BY <3>1, FirstToSet
      <4>. QED BY <4>1, <4>2
    <3>. QED BY <1>1, <2>2, <3>2 DEF Claimed
  <2>. QED BY <2>4, <2>5
<1>. QED BY <1>2, <1>3

LEMMA SearchBegins ==
    ASSUME NEW list, Combined(list), NEW f
    PROVE  Searching(list, f, <<First!EmptySchedule>>, First!NothingFound, "queue")
<1>1. PICK s, kept, q : s = First!EmptySchedule /\ kept = First!NothingFound /\ q = <<s>>
  OBVIOUS
<1>2. Reached(s, <<>>, list, f)
  BY <1>1, NothingReached
<1>3. kept = [schedules |-> 0, schedule_sets |-> <<>>, did_reach_limit |-> FALSE]
  BY <1>1 DEF First!NothingFound
<1>4. Within(<<>>) = {}
  BY DEF Within, ToSet
<1>5. KeptSets(kept, Records(Parts(list)))
  BY <1>3 DEF KeptSets, Sets
<1>6. s \in Queued(list, f)
  <2>1. s \in Records(Parts(list))
    BY <1>2 DEF Reached
  <2>2. Len(<<>>) < Len(list) \/ list = <<>>
    BY DEF Combined
  <2>. QED BY <1>2, <2>1, <2>2 DEF Queued
<1>7. ASSUME NEW ch PROVE Met(ch, q, kept, list, f) \/ ~Wanted(ch, list, f)
  <2>1. Wanted(ch, list, f) => Begins(<<>>, ch)
    BY DEF Wanted, Chosen, Begins
  <2>2. 1 \in DOMAIN q /\ q[1] = s
    BY <1>1
  <2>. QED BY <1>2, <2>1, <2>2 DEF Met
<1>8. q \in Seq(Queued(list, f))
  BY <1>1, <1>6
<1>. QED BY <1>1, <1>3, <1>4, <1>5, <1>7, <1>8 DEF Searching

FirstInv ==
    /\ phase \in {"comparing", "compared"} => filters1 = filters
    /\ phase = "comparing" => Searching(courses1, filters1, queue1, found1, status1)
    /\ phase = "compared" => Combined(courses1) /\ Claimed(outcome, courses1, filters1)

LEMMA FirstBegins ==
    ASSUME RequestsAssumption, AnsweredInv, schedules_generate PROVE FirstInv'
<1>1. First!construct(firstGetCourses(asked, lost), filters) /\ filters' = filters /\ phase' = "comparing"
  BY DEF schedules_generate, vars, config
<1>2. PICK cs : cs = getCourses(byId(asked), lost)
  OBVIOUS
<1>3. cs \in Seq({c \in ToSet(cs) : Numbered(c)})
  <2>1. Metas(asked)
    BY DEF AnsweredInv, SearchedInv, RequestsAssumption, Metas
  <2>. QED BY <1>2, <2>1, ByIdMetas, CoursesFetched DEF AnsweredInv, SearchedInv
<1>4. PICK list : list = courses1'
  OBVIOUS
<1>5. list \in First!sortedCourses(First!withCombinations(cs))
  BY <1>1, <1>2, <1>4 DEF First!construct, firstGetCourses
<1>6. Combined(list)
  BY <1>3, <1>5, Constructed
<1>7. /\ filters1' = filters /\ queue1' = <<First!EmptySchedule>>
      /\ found1' = First!NothingFound /\ status1' = "queue"
  BY <1>1 DEF First!construct
<1>8. Searching(list, filters, <<First!EmptySchedule>>, First!NothingFound, "queue")
  BY <1>6, SearchBegins
<1>. QED BY <1>1, <1>4, <1>7, <1>8 DEF FirstInv

LEMMA FirstKept ==
    ASSUME RequestsAssumption, AnsweredInv, limit \in Nat \ {0}, FirstInv, [RequestsNext]_allVars
    PROVE  FirstInv'
<1>1. CASE schedules_generate
  BY <1>1, FirstBegins
<1>2. CASE firstGenerates /\ phase = "comparing"
  <2>1. First!generate /\ filters' = filters /\ phase' = phase
    BY <1>2 DEF firstGenerates, vars, config
  <2>2. Searching(courses1', filters1', queue1', found1', status1')
    BY <1>2, <2>1, GenerateKeeps DEF FirstInv
  <2>3. filters1' = filters1
    BY <2>1 DEF First!generate, First!dequeue, First!timeOut, First!finish
  <2>. QED BY <1>2, <2>1, <2>2, <2>3 DEF FirstInv
<1>3. CASE firstAnswers
  <2>1. /\ phase = "comparing" /\ phase' = "compared" /\ status1 \in {"done", "timed_out"}
        /\ outcome' = First!getResult /\ filters' = filters
        /\ courses1' = courses1 /\ filters1' = filters1
    BY <1>3 DEF firstAnswers, vars, config, firstVars
  <2>2. Claimed(First!getResult, courses1, filters1) /\ Combined(courses1) /\ filters1 = filters
    BY <2>1, AnswerClaims DEF FirstInv, Searching
  <2>. QED BY <2>1, <2>2 DEF FirstInv
<1>4. CASE UNCHANGED allVars
  BY <1>4 DEF FirstInv, allVars, vars, config, firstVars
<1>5. CASE phase' \notin {"comparing", "compared"}
  BY <1>5 DEF FirstInv
<1>6. \/ schedules_generate \/ (firstGenerates /\ phase = "comparing") \/ firstAnswers
      \/ UNCHANGED allVars \/ phase' \notin {"comparing", "compared"}
  BY DEF RequestsNext, generateSchedules, schedules_generate_v2, generateLocally, firstGenerates,
         draw, swapComponents, redraw, saveSchedule, timetableUpdated, expandScheduleSkeleton, expanded
<1>. QED BY <1>1, <1>2, <1>3, <1>4, <1>5, <1>6

LEMMA LimitAlways == RequestsSpec => [](limit \in Nat \ {0})
<1>1. RequestsInit => limit \in Nat \ {0}
  BY GeneratorAssumption DEF RequestsInit, construct
<1>2. limit \in Nat \ {0} /\ [RequestsNext]_allVars => (limit \in Nat \ {0})'
  BY DEF RequestsNext, allVars, vars, config, generateSchedules, Next, start, pop, tryConfiguration,
         finish, schedules_generate_v2, generateLocally, schedules_generate, firstGenerates,
         firstAnswers, draw, swapComponents, redraw, saveSchedule, timetableUpdated,
         expandScheduleSkeleton, expanded
<1>. QED BY <1>1, <1>2, PTL DEF RequestsSpec

LEMMA InvFirst == ASSUME FirstInv PROVE FirstResultIsComplete
<1> SUFFICES ASSUME phase = "compared", outcome.error \in {"none", "SCHED_2001"}, outcome.messages = {}
             PROVE  LET fewest == {cs \in FirstCandidates : \A other \in FirstCandidates :
                                      beforeStart(cs, filters) <= beforeStart(other, filters)}
                        last == {cs \in fewest : \A other \in fewest :
                                      afterEnd(cs, filters) <= afterEnd(other, filters)}
                    IN  outcome.schedules = {ToSet(cs) : cs \in last}
  BY DEF FirstResultIsComplete
<1>1. FirstCandidates = AllWanted(courses1, filters) /\ filters1 = filters
  BY CandidatesWanted DEF FirstInv
<1>2. outcome.schedules = {ToSet(cs) : cs \in BestWanted(courses1, filters)}
  BY <1>1 DEF FirstInv, Claimed
<1>. QED BY <1>1, <1>2 DEF BestWanted

\* What version 1 answers without a word about the limit is complete: exactly the choices of
\* one combination or nothing per course that canAddComponent and checkFilters admit and that
\* have the fewest early, then the fewest late components.  Neither the copies made for each
\* combination nor the sets by profile, of which applyWholeScheduleFilters looks at the first
\* schedule only, lose any.
THEOREM FirstAnswersComplete == RequestsSpec => []FirstResultIsComplete
<1>1. RequestsInit => FirstInv
  BY DEF RequestsInit, FirstInv
<1>2. AnsweredInv /\ limit \in Nat \ {0} /\ FirstInv /\ [RequestsNext]_allVars => FirstInv'
  BY FirstKept, RequestsAssumption
<1>3. FirstInv => FirstResultIsComplete
  BY InvFirst
<1>. QED BY <1>1, <1>2, <1>3, AnsweredAlways, LimitAlways, PTL DEF RequestsSpec

-----------------------------------------------------------------------------
(* One section of every course: what is found and drawn                    *)

\* At most one section of a course, and in it one component of every type but LEC.
OneSection(D, sections) ==
    \A a, b \in ToSet(sections) : \A c \in a, d \in b :
        c.id \in D /\ d.id \in D => a = b /\ (c.type = d.type /\ c.type # "LEC" => c = d)

LEMMA GuidsTell ==
    ASSUME GuidsAssumption, NEW timetable \in {OldCatalogue, NewCatalogue},
           NEW other \in {OldCatalogue, NewCatalogue},
           NEW i \in DOMAIN timetable, NEW k \in DOMAIN other,
           NEW section \in ToSet(timetable[i]), NEW r \in ToSet(other[k]),
           NEW c \in section, NEW d \in r, c.id = d.id
    PROVE  i = k /\ c.type = d.type
BY DEF GuidsAssumption

\* What a guid is in.
LEMMA GuidIn ==
    ASSUME NEW sections, NEW x \in ids(UNION ToSet(sections))
    PROVE  \E section \in ToSet(sections) : \E c \in section : c.id = x
BY DEF ids

\* What is of one section in one timetable is of one section in the other.
LEMMA SectionKept ==
    ASSUME RequestsAssumption, GuidsAssumption, NEW timetable \in {OldCatalogue, NewCatalogue},
           NEW other \in {OldCatalogue, NewCatalogue}, NEW i \in DOMAIN OldCatalogue, NEW D,
           OneSection(D, timetable[i]),
           D \cap ids(UNION ToSet(other[i])) \subseteq ids(UNION ToSet(timetable[i]))
    PROVE  OneSection(D, other[i])
<1> SUFFICES ASSUME NEW a \in ToSet(other[i]), NEW b \in ToSet(other[i]), NEW c \in a, NEW d \in b,
                    c.id \in D, d.id \in D
             PROVE  a = b /\ (c.type = d.type /\ c.type # "LEC" => c = d)
  BY DEF OneSection
<1>1. i \in DOMAIN timetable /\ i \in DOMAIN other
  BY DEF RequestsAssumption
<1>2. c.id \in ids(UNION ToSet(timetable[i])) /\ d.id \in ids(UNION ToSet(timetable[i]))
  <2>1. c \in UNION ToSet(other[i]) /\ d \in UNION ToSet(other[i])
    OBVIOUS
  <2>2. c.id \in ids(UNION ToSet(other[i])) /\ d.id \in ids(UNION ToSet(other[i]))
    BY ONLY <2>1 DEF ids
  <2>. QED BY <2>2
<1>3. PICK a1 \in ToSet(timetable[i]) : \E e \in a1 : e.id = c.id
  BY ONLY <1>2, GuidIn
<1>4. PICK b1 \in ToSet(timetable[i]) : \E e \in b1 : e.id = d.id
  BY ONLY <1>2, GuidIn
<1>5. PICK c1 \in a1 : c1.id = c.id
  BY <1>3
<1>6. PICK d1 \in b1 : d1.id = d.id
  BY <1>4
<1>7. a1 = b1 /\ (c1.type = d1.type /\ c1.type # "LEC" => c1 = d1)
  BY <1>5, <1>6 DEF OneSection
<1>8. a = b
  <2>1. c.id \in ids(a) /\ c.id \in ids(a1) /\ d.id \in ids(b) /\ d.id \in ids(a1)
    BY <1>5, <1>6, <1>7 DEF ids
  <2>2. ids(a) \cap ids(a1) # {} /\ ids(b) \cap ids(a1) # {}
    BY ONLY <2>1
  <2>3. \A t, u \in {OldCatalogue, NewCatalogue} : \A j \in DOMAIN t, k \in DOMAIN u :
           \A r \in ToSet(u[k]) : \A v, w \in ToSet(t[j]) :
              ids(v) \cap ids(r) # {} /\ ids(w) \cap ids(r) # {} => v = w
    BY ONLY GuidsAssumption DEF GuidsAssumption
  <2>4. i \in DOMAIN other /\ i \in DOMAIN timetable /\ a1 \in ToSet(timetable[i])
    BY <1>1
  <2>. QED BY ONLY <2>2, <2>3, <2>4, timetable \in {OldCatalogue, NewCatalogue},
             other \in {OldCatalogue, NewCatalogue}, a \in ToSet(other[i]), b \in ToSet(other[i])
<1>9. c1.type = c.type /\ d1.type = d.type
  BY <1>1, <1>5, <1>6, GuidsTell
<1>10. ASSUME c.type = d.type, c.type # "LEC" PROVE c = d
  <2>1. c.id = d.id
    BY <1>5, <1>6, <1>7, <1>9, <1>10
  <2>2. a \in sectionsOf(other) /\ b \in sectionsOf(other)
    BY <1>1 DEF sectionsOf
  <2>. QED BY <2>1, <2>2, IdsAreUnique
<1>. QED BY <1>8, <1>10

\* A configuration has one slot of every type but LEC.
LEMMA OneOfType ==
    ASSUME NEW section, IsFiniteSet(section), NEW cs \in sectionConfigurations(section),
           NEW x \in ToSet(cs), NEW y \in ToSet(cs), x.type = y.type, x.type # "LEC"
    PROVE  x = y
<1> DEFINE all == getScheduleComponents(section)
           lec == {c \in all : c.type = "LEC"}
           types == {c.type : c \in all \ lec}
<1>1. IsFiniteSet(all)
  <2>1. [c \in section |-> scheduleComponent(section, c)] \in Surjection(section, all)
    BY DEF getScheduleComponents, Surjection
  <2>. QED BY <2>1, FS_Surjection
<1>2. PICK p \in [types -> all] : /\ \A t \in types : p[t].type = t
                                  /\ cs = SetToSeq({p[t] : t \in types}) \o SetToSeq(lec)
  BY DEF sectionConfigurations
<1> DEFINE picked == {p[t] : t \in types}
<1>3. picked \subseteq all /\ lec \subseteq all
  BY <1>2
<1>4. IsFiniteSet(picked) /\ IsFiniteSet(lec)
  BY <1>1, <1>3, FS_Subset
<1>5. ASSUME NEW z \in picked \cup lec, z.type # "LEC" PROVE z.type \in types /\ z = p[z.type]
  <2>1. PICK t \in types : z = p[t]
    BY <1>5
  <2>. QED BY <1>2, <2>1
<1> HIDE DEF all, lec, picked
<1>6. PICK a \in Seq(picked), b \in Seq(lec) : a = SetToSeq(picked) /\ b = SetToSeq(lec)
  BY <1>4, SetToSeqType
<1>7. a \in Seq(picked \cup lec) /\ b \in Seq(picked \cup lec)
  BY <1>6
<1>8. cs = a \o b
  BY <1>2, <1>6 DEF picked, lec
<1>9. cs \in Seq(picked \cup lec)
  BY <1>7, <1>8, Concat
<1>10. ToSet(cs) \subseteq picked \cup lec
  BY <1>9 DEF ToSet
<1>. QED BY <1>5, <1>10

\* A slot is shown by a component of it, of its course.
LEMMA SlotShown ==
    ASSUME RequestsAssumption, asked \in Requests, NEW table \in {OldCatalogue, NewCatalogue},
           NEW slot \in AskedSlots(table)
    PROVE  /\ slot.components # {} /\ slot.components \subseteq AskedIds(table)
           /\ shownOf(slot) \in slot.components
<1>1. IsFiniteSet(AskedIds(table))
  BY AskedIdsFinite
<1>2. PICK i \in DOMAIN asked : slot \in Slots(table, asked[i])
  BY DEF AskedSlots
<1>3. slot.components # {} /\ slot.components \subseteq AskedIds(table)
  BY <1>2, SlotIds
<1>4. IsFiniteSet(slot.components)
  BY <1>1, <1>3, FS_Subset
<1>. QED BY <1>3, <1>4, ShownIsMember

\* The client draws what shows the slots of a schedule that was found, as far as it knows it.
LEMMA DrawShows ==
    ASSUME RequestsAssumption, AnsweredInv, draw
    PROVE  \E s \in schedules : drawn' = {shownOf(slot) : slot \in ToSet(s.components)} \cap ids(known)
<1> DEFINE found == {s.components : s \in schedules}
<1>1. /\ asked \in Requests /\ phase = "answered" /\ answer.data = compressSchedules(found)
      /\ \E made \in answer.data.schedules : drawn' = deserializeSchedules(answer.data, made)
  BY DEF draw, AnsweredInv, AnswerInv, SearchedInv
<1>. PICK table \in {OldCatalogue, NewCatalogue} : table = catalogue
  BY DEF AnsweredInv, SearchedInv
<1>2. PICK made \in answer.data.schedules : drawn' = deserializeSchedules(answer.data, made)
  BY <1>1
<1>3. IsFiniteSet(AskedIds(table))
  BY <1>1, AskedIdsFinite
<1>4. \A s \in schedules : ToSet(s.components) \subseteq AskedSlots(table)
  BY <1>1, KeptSlots DEF AnsweredInv
<1>5. \A slot \in AskedSlots(table) : slot.components # {} /\ slot.components \subseteq AskedIds(table)
  BY <1>1, SlotShown
<1>6. PICK s \in schedules :
        /\ DOMAIN made = DOMAIN s.components
        /\ \A k \in DOMAIN s.components : answer.data.component_ids[made[k][1]] = shownOf(s.components[k])
  <2>1. PICK lists : lists = found
    OBVIOUS
  <2>2. made \in compressSchedules(lists).schedules
    BY <1>1, <2>1
  <2>3. \A list \in lists : ToSet(list) \subseteq AskedSlots(table)
    BY <1>4, <2>1
  <2>4. PICK list \in lists :
          /\ DOMAIN made = DOMAIN list
          /\ \A k \in DOMAIN list : compressSchedules(lists).component_ids[made[k][1]] = shownOf(list[k])
    <3>1. PICK T, I : T = AskedSlots(table) /\ I = AskedIds(table)
      OBVIOUS
    <3>2. PICK bundled : bundled = made
      OBVIOUS
    <3>3. /\ \A list \in lists : ToSet(list) \subseteq T
          /\ \A slot \in T : slot.components # {} /\ slot.components \subseteq I
          /\ IsFiniteSet(I) /\ bundled \in compressSchedules(lists).schedules
      BY <1>3, <1>5, <2>2, <2>3, <3>1, <3>2
    <3>4. IsReadable(lists, bundled)
      BY ONLY <3>3, Compressed
    <3>. QED BY <3>2, <3>4 DEF IsReadable
  <2>5. PICK s \in schedules : list = s.components
    BY <2>1
  <2>6. answer.data.component_ids = compressSchedules(lists).component_ids
    BY <1>1, <2>1
  <2>. QED BY <2>4, <2>5, <2>6
<1>7. PICK data, list : data = answer.data /\ list = s.components
  OBVIOUS
<1>8. /\ drawn' = deserializeSchedules(data, made)
      /\ DOMAIN made = DOMAIN list
      /\ \A k \in DOMAIN list : data.component_ids[made[k][1]] = shownOf(list[k])
  BY <1>2, <1>6, <1>7
<1>9. {data.component_ids[made[k][1]] : k \in DOMAIN made} = {shownOf(slot) : slot \in ToSet(list)}
  BY ONLY <1>8 DEF ToSet
<1>10. drawn' = {shownOf(slot) : slot \in ToSet(list)} \cap ids(known)
  BY <1>8, <1>9 DEF deserializeSchedules
<1>. QED BY <1>7, <1>10

\* The page asks for a course once.
AskedOnce == \A i, k \in DOMAIN asked : asked[i].id = asked[k].id => i = k

LEMMA OrderedOnce ==
    ASSUME NEW n \in Nat, NEW S \in SUBSET (1..n), NEW i \in DOMAIN ordered(S),
           NEW k \in DOMAIN ordered(S), ordered(S)[i] = ordered(S)[k]
    PROVE  i = k
<1>1. \E seq \in [1..Cardinality(S) -> S] : \A a, b \in DOMAIN seq : a < b => seq[a] < seq[b]
  BY EnumerationExists DEF Enumerable, Increasing
<1>2. PICK seq \in [1..Cardinality(S) -> S] :
        seq = ordered(S) /\ \A a, b \in DOMAIN seq : a < b => seq[a] < seq[b]
  BY <1>1 DEF ordered
<1>3. IsFiniteSet(1..n)
  BY FS_Interval
<1>4. PICK c \in Nat : c = Cardinality(S)
  BY <1>3, FS_Subset, FS_CardinalityType
<1>5. i \in 1..c /\ k \in 1..c /\ seq[i] \in 1..n /\ seq[i] = seq[k]
  BY <1>2, <1>4
<1>6. ~(i < k) /\ ~(k < i)
  <2>1. ~(seq[i] < seq[k]) /\ ~(seq[k] < seq[i])
    BY <1>5
  <2>. QED BY <1>2, <1>4, <1>5, <2>1
<1>. QED BY <1>5, <1>6

\* No place of a list of courses is taken twice.
LEMMA SortedOnce ==
    ASSUME NEW cs, cs \in Seq({c \in ToSet(cs) : Offered(c)}), courses \in sortedCourses(cs),
           \A i, k \in DOMAIN cs : cs[i].id = cs[k].id => i = k,
           NEW p \in DOMAIN courses, NEW q \in DOMAIN courses, courses[p].id = courses[q].id
    PROVE  p = q
<1> DEFINE count(i) == getConfigurationCount(cs[i])
           kept == {i \in DOMAIN cs : count(i) # 0}
<1>1. PICK order \in [1..Cardinality(kept) -> kept] :
        /\ courses = [k \in DOMAIN order |-> cs[order[k]]]
        /\ \A i, k \in DOMAIN order : i < k =>
              \/ count(order[i]) < count(order[k])
              \/ count(order[i]) = count(order[k]) /\ order[i] < order[k]
  BY DEF sortedCourses
<1>2. DOMAIN cs = 1..Len(cs) /\ Len(cs) \in Nat /\ \A i \in DOMAIN cs : Offered(cs[i])
  OBVIOUS
<1>3. \A i \in DOMAIN cs : count(i) \in Nat
  BY <1>2, ConfigurationsFinite, FS_CardinalityType DEF getConfigurationCount
<1> HIDE DEF count
<1>4. PICK c \in Nat : c = Cardinality(kept)
  <2>1. kept \subseteq 1..Len(cs) /\ IsFiniteSet(1..Len(cs))
    BY <1>2, FS_Interval
  <2>. QED BY <2>1, FS_Subset, FS_CardinalityType
<1>5. p \in 1..c /\ q \in 1..c /\ order[p] = order[q] /\ order[p] \in DOMAIN cs
  <2>1. p \in DOMAIN order /\ q \in DOMAIN order /\ courses[p] = cs[order[p]] /\ courses[q] = cs[order[q]]
    BY <1>1
  <2>2. order[p] \in DOMAIN cs /\ order[q] \in DOMAIN cs
    BY <1>1, <2>1
  <2>. QED BY <1>1, <1>4, <2>1, <2>2
<1>6. ~(p < q) /\ ~(q < p)
  <2>1. ~(count(order[p]) < count(order[q])) /\ ~(order[p] < order[q])
    BY <1>2, <1>3, <1>5
  <2>2. ~(count(order[q]) < count(order[p])) /\ ~(order[q] < order[p])
    BY <1>2, <1>3, <1>5
  <2>. QED BY <1>1, <1>4, <1>5, <2>1, <2>2
<1>. QED BY <1>5, <1>6

\* Every course of an answer keeps the id it was asked for with.
LEMMA CourseHasId ==
    ASSUME NEW timetable, NEW meta PROVE courseFrom(timetable, meta).id = meta.id
BY DEF courseFrom

\* A course that is asked for once is searched once.
LEMMA CoursesOnce ==
    ASSUME RequestsAssumption, SearchedInv, phase \in {"generating", "answered", "drawn"}, AskedOnce,
           NEW p \in DOMAIN courses, NEW q \in DOMAIN courses, courses[p].id = courses[q].id
    PROVE  p = q
<1> DEFINE here == {i \in DOMAIN asked : asked[i].id \notin lost}
           kept == ordered(here)
           list == [k \in DOMAIN kept |-> dataToCourse(asked[kept[k]])]
<1>1. DOMAIN asked = 1..Len(asked) /\ Len(asked) \in Nat
  BY DEF RequestsAssumption, SearchedInv
<1>2. kept \in Seq(here)
  BY <1>1, OrderedType
<1>3. \A i, k \in DOMAIN kept : kept[i] = kept[k] => i = k
  BY <1>1, OrderedOnce
<1> HIDE DEF kept
<1>4. DOMAIN list = DOMAIN kept /\ DOMAIN kept = 1..Len(kept) /\ Len(kept) \in Nat
  BY <1>2
<1>5. evaluated(list) = list
  <2>1. list \in Seq({list[k] : k \in DOMAIN kept})
    BY <1>4
  <2>. QED BY <2>1, EvaluatedType
<1>6. getCourses(asked, lost) = list
  BY <1>5 DEF getCourses, kept
<1>7. \A k \in DOMAIN list : kept[k] \in DOMAIN asked /\ list[k].id = asked[kept[k]].id
  BY <1>2, CourseHasId DEF dataToCourse
<1> HIDE DEF list
<1>8. \A i, k \in DOMAIN list : list[i].id = list[k].id => i = k
  BY <1>3, <1>4, <1>7 DEF AskedOnce
<1>9. list \in Seq({c \in ToSet(list) : Offered(c)}) /\ courses \in sortedCourses(list)
  BY <1>6, RequestedOffers DEF SearchedInv
<1>. QED BY <1>8, <1>9, SortedOnce

LEMMA SectionFrom ==
    ASSUME RequestsAssumption, NEW timetable \in {OldCatalogue, NewCatalogue},
           NEW meta, meta.id \in DOMAIN OldCatalogue, NEW course, course = courseFrom(timetable, meta),
           NEW m \in DOMAIN course.sections
    PROVE  \E section \in ToSet(timetable[meta.id]) : course.sections[m] = parsed(section)
BY CourseIsFrom

\* What is found has one section of every course, and one slot of each type but LEC.
LEMMA FoundOnce ==
    ASSUME RequestsAssumption, GuidsAssumption, AnsweredInv, AskedOnce,
           phase \in {"generating", "answered", "drawn"}, NEW s \in schedules,
           NEW i \in DOMAIN catalogue
    PROVE  OneSection({shownOf(slot) : slot \in ToSet(s.components)}, catalogue[i])
<1>. PICK table \in {OldCatalogue, NewCatalogue} : table = catalogue
  BY DEF AnsweredInv, SearchedInv
<1> DEFINE D == {shownOf(slot) : slot \in ToSet(s.components)}
<1> SUFFICES ASSUME NEW a \in ToSet(table[i]), NEW b \in ToSet(table[i]), NEW c \in a, NEW d \in b,
                    c.id \in D, d.id \in D
             PROVE  a = b /\ (c.type = d.type /\ c.type # "LEC" => c = d)
  BY DEF OneSection
<1>. asked \in Requests
  BY DEF AnsweredInv, SearchedInv
<1>1. PICK ch : ch = s.chosen
  OBVIOUS
<1>2. Picks(ch) /\ s.components = FlattenSeq(ch) /\ Len(ch) = Len(courses)
  BY <1>1 DEF AnsweredInv, SearchInv, KeptInv, Kept, Sound, scheduleOf
<1>3. ch \in Seq(Seq(Pieces)) /\ DOMAIN ch = DOMAIN courses
  BY <1>2 DEF Picks, AnsweredInv, SearchInv, CoursesInv
<1>4. ToSet(s.components) = UNION {ToSet(ch[p]) : p \in DOMAIN ch}
  <2>1. PICK list : list = FlattenSeq(ch)
    OBVIOUS
  <2>2. ToSet(list) = UNION {ToSet(ch[p]) : p \in DOMAIN ch}
    BY ONLY <1>3, <2>1, FlattenMembers
  <2>. QED BY <1>2, <2>1, <2>2
<1>5. ASSUME NEW e, e \in UNION ToSet(table[i]), e.id \in D
      PROVE  \E p \in DOMAIN courses : \E slot \in ToSet(ch[p]) :
                /\ courses[p].id = i
                /\ ch[p] \in getConfigurations(courses[p]) /\ e.id = shownOf(slot)
  <2>1. PICK p \in DOMAIN courses : \E slot \in ToSet(ch[p]) : e.id = shownOf(slot)
    BY <1>3, <1>4, <1>5
  <2>2. PICK slot \in ToSet(ch[p]) : e.id = shownOf(slot)
    BY <2>1
  <2>3. ch[p] \in getConfigurations(courses[p])
    <3>1. ch[p] # <<>>
      BY <2>2 DEF ToSet
    <3>. QED BY <1>2, <1>3, <3>1 DEF Picks
  <2>4. PICK k \in DOMAIN asked : courses[p] = courseFrom(table, asked[k])
    BY CoursesSearched DEF AnsweredInv, dataToCourse
  <2>5. asked[k].id \in DOMAIN OldCatalogue
    BY DEF RequestsAssumption
  <2>6. slot \in Slots(table, asked[k])
    BY <2>2, <2>3, <2>4, <2>5, ConfigurationSlots
  <2>7. slot.components \subseteq ids(UNION ToSet(table[asked[k].id]))
    BY <2>6, SlotIds
  <2>8. shownOf(slot) \in slot.components
    BY <2>6, SlotShown DEF AskedSlots
  <2>9. PICK j : j = asked[k].id
    OBVIOUS
  <2>10. e.id \in ids(UNION ToSet(table[j])) /\ j \in DOMAIN table /\ i \in DOMAIN table
    <3>1. j \in DOMAIN table
      BY <2>5, <2>9 DEF RequestsAssumption
    <3>2. e.id \in ids(UNION ToSet(table[j]))
      BY ONLY <2>2, <2>7, <2>8, <2>9
    <3>. QED BY <3>1, <3>2
  <2>11. PICK section \in ToSet(table[j]) : \E f \in section : f.id = e.id
    BY ONLY <2>10, GuidIn
  <2>12. PICK f \in section : f.id = e.id
    BY <2>11
  <2>13. PICK own \in ToSet(table[i]) : e \in own
    BY <1>5
  <2>14. j = i
    BY ONLY GuidsAssumption, table \in {OldCatalogue, NewCatalogue}, section \in ToSet(table[j]),
            own \in ToSet(table[i]), f \in section, <2>10, <2>12, <2>13, GuidsTell
  <2>15. courses[p].id = i
    <3>1. courses[p].id = asked[k].id
      BY ONLY <2>4, CourseHasId
    <3>. QED BY ONLY <2>9, <2>14, <3>1
  <2>. QED BY <2>2, <2>3, <2>13, <2>15
<1>6. PICK p \in DOMAIN courses : \E x \in ToSet(ch[p]) :
        courses[p].id = i /\ ch[p] \in getConfigurations(courses[p]) /\ c.id = shownOf(x)
  BY <1>5
<1>7. PICK q \in DOMAIN courses : \E y \in ToSet(ch[q]) :
        courses[q].id = i /\ ch[q] \in getConfigurations(courses[q]) /\ d.id = shownOf(y)
  BY <1>5
<1>. PICK x \in ToSet(ch[p]) : c.id = shownOf(x)
  BY <1>6
<1>. PICK y \in ToSet(ch[q]) : d.id = shownOf(y)
  BY <1>7
<1>8. p = q
  BY <1>6, <1>7, CoursesOnce DEF AnsweredInv
<1>9. PICK k \in DOMAIN asked : courses[p] = courseFrom(table, asked[k])
  BY CoursesSearched DEF AnsweredInv, dataToCourse
<1>10. PICK meta : meta = asked[k]
  OBVIOUS
<1>11. meta.id = i /\ meta.id \in DOMAIN OldCatalogue
  BY <1>6, <1>9, <1>10, CourseHasId DEF RequestsAssumption
<1>12. PICK course : course = courses[p]
  OBVIOUS
<1>13. course = courseFrom(table, meta)
  BY <1>9, <1>10, <1>12
<1>14. PICK m \in DOMAIN course.sections : ch[p] \in sectionConfigurations(course.sections[m])
  BY <1>6, <1>12 DEF getConfigurations
<1>15. PICK section \in ToSet(table[i]) : course.sections[m] = parsed(section)
  <2>1. meta.id \in DOMAIN OldCatalogue
    BY <1>11
  <2>2. \E own \in ToSet(table[meta.id]) : course.sections[m] = parsed(own)
    BY ONLY RequestsAssumption, table \in {OldCatalogue, NewCatalogue}, <2>1, <1>13, <1>14, SectionFrom
  <2>. QED BY <1>11, <2>2
<1>16. IsFiniteSet(parsed(section))
  BY <1>11, <1>13, <1>15, CourseFrom DEF Offered
<1>17. ToSet(ch[p]) \subseteq getScheduleComponents(parsed(section))
  BY <1>14, <1>15, <1>16, SectionSlots
<1>18. ASSUME NEW slot \in ToSet(ch[p]), NEW own \in ToSet(table[i]), NEW e \in own, e.id = shownOf(slot)
       PROVE  own = section /\ e.type = slot.type
  <2>1. PICK f \in parsed(section) : slot = scheduleComponent(parsed(section), f)
    BY <1>17 DEF getScheduleComponents
  <2>2. slot \in Slots(table, meta)
    BY <1>11, <1>15, <1>17 DEF Slots
  <2>3. slot \in AskedSlots(table)
    BY <1>10, <2>2 DEF AskedSlots
  <2>4. e.id \in slot.components
    BY <1>18, <2>3, SlotShown
  <2>5. PICK g \in parsed(section) : sameSlot(f, g) /\ g.id = e.id
    BY <2>1, <2>4 DEF scheduleComponent
  <2>6. own \in sectionsOf(table) /\ section \in sectionsOf(table) /\ g \in section
    BY <1>11, <2>5 DEF sectionsOf, parsed
  <2>7. own = section /\ e = g
    BY <2>5, <2>6, IdsAreUnique
  <2>8. slot.type = f.type /\ f.type = g.type
    BY <2>1, <2>5 DEF scheduleComponent, sameSlot
  <2>. QED BY <2>7, <2>8
<1>19. a = section /\ b = section /\ c.type = x.type /\ d.type = y.type
  <2>1. y \in ToSet(ch[p])
    BY <1>8
  <2>2. a = section /\ c.type = x.type
    BY <1>18
  <2>3. b = section /\ d.type = y.type
    BY <1>18, <2>1
  <2>. QED BY <2>2, <2>3
<1>20. ASSUME c.type = d.type, c.type # "LEC" PROVE c = d
  <2>1. x = y
    <3>1. y \in ToSet(ch[p]) /\ ch[p] \in sectionConfigurations(parsed(section))
      BY <1>8, <1>14, <1>15
    <3>2. x.type = y.type /\ x.type # "LEC"
      BY <1>19, <1>20
    <3>. QED BY ONLY x \in ToSet(ch[p]), <1>16, <3>1, <3>2, OneOfType
  <2>2. c.id = d.id
    BY <2>1
  <2>3. section \in sectionsOf(table)
    BY <1>11 DEF sectionsOf
  <2>. QED BY <1>19, <2>2, <2>3, IdsAreUnique
<1>. QED BY <1>19, <1>20

-----------------------------------------------------------------------------
(* ... and what it shows after swaps, and what it stores                   *)

\* What the client shows has one section of every course, and of that one component of each
\* type but LEC.
DrawnOnceInv ==
    phase = "drawn" => /\ drawn \subseteq ids(known)
                       /\ \A i \in DOMAIN OldCatalogue : OneSection(drawn, OldCatalogue[i])

LEMMA KnownIn ==
    ASSUME RequestsAssumption, asked \in Requests, NEW c \in known
    PROVE  \E k \in DOMAIN asked : \E section \in ToSet(OldCatalogue[asked[k].id]) :
              c \in section /\ asked[k].id \in DOMAIN OldCatalogue
<1>1. PICK i \in {asked[k].id : k \in DOMAIN asked} : c \in UNION ToSet(OldCatalogue[i])
  BY DEF known
<1>2. PICK k \in DOMAIN asked : i = asked[k].id
  OBVIOUS
<1>3. PICK section \in ToSet(OldCatalogue[i]) : c \in section
  BY <1>1
<1>. QED BY <1>2, <1>3 DEF RequestsAssumption

\* Drawing an answer, and swapping one of its components, keep it.
LEMMA DrawOnce ==
    ASSUME RequestsAssumption, GuidsAssumption, AnsweredInv, AskedOnce, draw
    PROVE  /\ drawn' \subseteq ids(known)
           /\ \A i \in DOMAIN OldCatalogue : OneSection(drawn', OldCatalogue[i])
<1>. PICK table \in {OldCatalogue, NewCatalogue} : table = catalogue
  BY DEF AnsweredInv, SearchedInv
<1>1. PICK s \in schedules : drawn' = {shownOf(slot) : slot \in ToSet(s.components)} \cap ids(known)
  BY DrawShows
<1>. PICK D : D = {shownOf(slot) : slot \in ToSet(s.components)}
  OBVIOUS
<1>2. asked \in Requests /\ phase = "answered"
  BY DEF draw, AnsweredInv, SearchedInv
<1>3. ToSet(s.components) \subseteq AskedSlots(table)
  BY <1>2, KeptSlots DEF AnsweredInv
<1>4. ASSUME NEW i \in DOMAIN OldCatalogue PROVE OneSection(drawn', OldCatalogue[i])
  <2>1. i \in DOMAIN table
    BY DEF RequestsAssumption
  <2>2. OneSection(D, table[i])
    BY <1>2, <2>1, FoundOnce
  <2>3. ASSUME NEW x \in D, x \in ids(UNION ToSet(OldCatalogue[i]))
        PROVE  x \in ids(UNION ToSet(table[i]))
    <3>1. PICK slot \in ToSet(s.components) : x = shownOf(slot)
      OBVIOUS
    <3>2. slot \in AskedSlots(table)
      BY <1>3
    <3>3. PICK k \in DOMAIN asked : slot \in Slots(table, asked[k])
      BY <3>2 DEF AskedSlots
    <3>4. PICK j : j = asked[k].id
      OBVIOUS
    <3>5. j \in DOMAIN table
      BY <1>2, <3>4 DEF RequestsAssumption
    <3>6. x \in slot.components
      BY <1>2, <3>1, <3>2, SlotShown
    <3>7. slot.components \subseteq ids(UNION ToSet(table[asked[k].id]))
      BY <3>3, SlotIds
    <3>8. x \in ids(UNION ToSet(table[j]))
      BY ONLY <3>4, <3>6, <3>7
    <3>9. PICK section \in ToSet(table[j]) : \E f \in section : f.id = x
      BY ONLY <3>8, GuidIn
    <3>10. PICK own \in ToSet(OldCatalogue[i]) : \E f \in own : f.id = x
      BY ONLY <2>3, GuidIn
    <3>11. PICK f \in section : f.id = x
      BY <3>9
    <3>12. PICK e \in own : e.id = x
      BY <3>10
    <3>13. f.id = e.id
      BY <3>11, <3>12
    <3>14. j = i
      BY ONLY GuidsAssumption, table \in {OldCatalogue, NewCatalogue}, i \in DOMAIN OldCatalogue, <3>5,
              section \in ToSet(table[j]), own \in ToSet(OldCatalogue[i]), f \in section, e \in own,
              <3>13, GuidsTell
    <3>. QED BY <3>8, <3>14
  <2>4. OneSection(D, OldCatalogue[i])
    <3>1. D \cap ids(UNION ToSet(OldCatalogue[i])) \subseteq ids(UNION ToSet(table[i]))
      BY <2>3
    <3>2. OldCatalogue \in {OldCatalogue, NewCatalogue}
      OBVIOUS
    <3>. QED BY ONLY RequestsAssumption, GuidsAssumption, table \in {OldCatalogue, NewCatalogue},
                     i \in DOMAIN OldCatalogue, <2>2, <3>1, <3>2, SectionKept
  <2>. QED BY <1>1, <2>4 DEF OneSection
<1>. QED BY <1>1, <1>4

LEMMA SwapOnce ==
    ASSUME RequestsAssumption, AnsweredInv, DrawnOnceInv, swapComponents
    PROVE  /\ drawn' \subseteq ids(known)
           /\ \A i \in DOMAIN OldCatalogue : OneSection(drawn', OldCatalogue[i])
<1>1. /\ asked \in Requests /\ drawn \subseteq ids(known)
      /\ \A i \in DOMAIN OldCatalogue : OneSection(drawn, OldCatalogue[i])
      /\ \E id \in grid \cap drawn : \E d \in getAlternates(componentOf(id)) :
            drawn' = (drawn \ {id}) \cup {d.id}
  BY DEF swapComponents, AnsweredInv, SearchedInv, DrawnOnceInv
<1>. PICK D, E : D = drawn /\ E = drawn'
  OBVIOUS
<1>2. PICK id \in D : \E d \in getAlternates(componentOf(id)) : E = (D \ {id}) \cup {d.id}
  BY <1>1
<1>3. PICK c \in known : c.id = id /\ c = componentOf(id)
  BY <1>1, <1>2 DEF ids, componentOf
<1>4. PICK d \in getAlternates(c) : E = (D \ {id}) \cup {d.id}
  BY <1>2, <1>3
<1>5. PICK k \in DOMAIN asked : \E section \in ToSet(OldCatalogue[asked[k].id]) :
         c \in section /\ asked[k].id \in DOMAIN OldCatalogue
  BY <1>1, KnownIn
<1>6. PICK j : j = asked[k].id
  OBVIOUS
<1>7. j \in DOMAIN OldCatalogue
  BY <1>5, <1>6
<1>8. PICK section \in ToSet(OldCatalogue[j]) : c \in section
  BY <1>5, <1>6
<1>9. section \in sectionsOf(OldCatalogue)
  BY <1>7 DEF sectionsOf
<1>10. sectionOf(id) = section
  <2>1. id \in ids(section)
    BY <1>3, <1>8 DEF ids
  <2>2. ASSUME NEW other \in sectionsOf(OldCatalogue), id \in ids(other) PROVE other = section
    <3>1. PICK f \in other : f.id = id
      BY <2>2 DEF ids
    <3>. QED BY <1>3, <1>8, <1>9, <3>1, IdsAreUnique
  <2>. QED BY <1>9, <2>1, <2>2 DEF sectionOf
<1>11. d \in section /\ d.type = c.type
  BY <1>3, <1>4, <1>10 DEF getAlternates, sameSlot
<1>12. d.id \in ids(known)
  <2>1. j \in {asked[m].id : m \in DOMAIN asked}
    BY <1>6
  <2>2. d \in UNION ToSet(OldCatalogue[j])
    BY <1>8, <1>11
  <2>3. d \in known
    BY ONLY <2>1, <2>2 DEF known
  <2>. QED BY <2>3 DEF ids
<1>13. ASSUME NEW i \in DOMAIN OldCatalogue PROVE OneSection(E, OldCatalogue[i])
  <2>1. ASSUME NEW a \in ToSet(OldCatalogue[i]), NEW e \in a, e.id = d.id
        PROVE  a = section /\ e = d
    <3>1. a \in sectionsOf(OldCatalogue)
      BY DEF sectionsOf
    <3>. QED BY <1>9, <1>11, <2>1, <3>1, IdsAreUnique
  <2>2. OneSection(D, OldCatalogue[i]) /\ c.id \in D /\ c \in section
    BY <1>1, <1>3, <1>8
  <2>3. ASSUME NEW a \in ToSet(OldCatalogue[i]), NEW e \in a, e.id = d.id,
               NEW b \in ToSet(OldCatalogue[i]), NEW f \in b, f.id \in D, f.id # id
        PROVE  a = b /\ (e.type = f.type => e.type = "LEC")
    <3>1. a = section /\ e = d
      BY <2>1, <2>3
    <3>2. section = b /\ (c.type = f.type /\ c.type # "LEC" => c = f)
      BY <2>2, <2>3, <3>1 DEF OneSection
    <3>. QED BY <1>3, <1>11, <2>3, <3>1, <3>2
  <2> SUFFICES ASSUME NEW a \in ToSet(OldCatalogue[i]), NEW b \in ToSet(OldCatalogue[i]),
                      NEW e \in a, NEW f \in b, e.id \in E, f.id \in E
               PROVE  a = b /\ (e.type = f.type /\ e.type # "LEC" => e = f)
    BY DEF OneSection
  <2>4. (e.id = d.id \/ (e.id \in D /\ e.id # id)) /\ (f.id = d.id \/ (f.id \in D /\ f.id # id))
    BY <1>4
  <2>5. CASE e.id = d.id /\ f.id = d.id
    BY <2>1, <2>5
  <2>6. CASE e.id = d.id /\ f.id \in D /\ f.id # id
    BY <2>3, <2>6
  <2>7. CASE f.id = d.id /\ e.id \in D /\ e.id # id
    BY <2>3, <2>7
  <2>8. CASE e.id \in D /\ f.id \in D
    BY <2>2, <2>8 DEF OneSection
  <2>. QED BY <2>4, <2>5, <2>6, <2>7, <2>8
<1>14. E \subseteq ids(known)
  BY <1>1, <1>4, <1>12
<1>. QED BY <1>13, <1>14

LEMMA DrawnOnceKept ==
    ASSUME RequestsAssumption, GuidsAssumption, AnsweredInv, AskedOnce, DrawnOnceInv,
           [RequestsNext]_allVars
    PROVE  DrawnOnceInv'
<1> SUFFICES ASSUME phase' = "drawn"
             PROVE  /\ drawn' \subseteq ids(known)'
                    /\ \A i \in DOMAIN OldCatalogue : OneSection(drawn', OldCatalogue[i])
  BY DEF DrawnOnceInv, OneSection
<1>1. asked' = asked
  BY DEF RequestsNext, allVars, request, generateSchedules, schedules_generate_v2, generateLocally,
         schedules_generate, firstGenerates, firstAnswers, draw, swapComponents, redraw,
         saveSchedule, timetableUpdated, expandScheduleSkeleton, expanded
<1>2. ids(known)' = ids(known)
  BY <1>1 DEF ids, known
<1>3. CASE draw
  BY <1>2, <1>3, DrawOnce
<1>4. CASE swapComponents
  BY <1>2, <1>4, SwapOnce
<1>5. CASE redraw \/ UNCHANGED allVars
  <2>1. drawn' = drawn /\ phase' = phase
    BY <1>5 DEF redraw, allVars, client
  <2>. QED BY <1>2, <2>1 DEF DrawnOnceInv
<1>6. draw \/ swapComponents \/ redraw \/ UNCHANGED allVars
  BY DEF RequestsNext, generateSchedules, schedules_generate_v2, generateLocally,
         schedules_generate, firstGenerates, firstAnswers, saveSchedule, timetableUpdated,
         expandScheduleSkeleton, expanded
<1>. QED BY <1>3, <1>4, <1>5, <1>6

\* What is stored: of finitely many courses, of each one section.
Stored(skeleton) ==
    /\ DOMAIN skeleton \subseteq DOMAIN OldCatalogue /\ IsFiniteSet(DOMAIN skeleton)
    /\ \A i \in DOMAIN skeleton : /\ skeleton[i] \subseteq ids(UNION ToSet(OldCatalogue[i]))
                                  /\ OneSection(skeleton[i], OldCatalogue[i])

SavedInv == phase \in {"saved", "expanding", "expanded"} => Stored(saved)

\* Saving stores a drawn schedule by course, its skeleton.
LEMMA SaveStores ==
    ASSUME RequestsAssumption, GuidsAssumption, SearchedInv, DrawnOnceInv, saveSchedule
    PROVE  SavedInv'
<1> DEFINE of(i) == drawn \cap ids(UNION ToSet(OldCatalogue[i]))
           here == {i \in DOMAIN OldCatalogue : of(i) # {}}
<1>1. /\ asked \in Requests /\ drawn \subseteq ids(known)
      /\ \A i \in DOMAIN OldCatalogue : OneSection(drawn, OldCatalogue[i])
      /\ saved' = [i \in here |-> of(i)]
  BY DEF saveSchedule, SearchedInv, DrawnOnceInv, getCourseSkeletons
<1>2. DOMAIN asked = 1..Len(asked) /\ Len(asked) \in Nat
  BY <1>1 DEF RequestsAssumption
<1>3. ASSUME NEW i \in here PROVE \E k \in DOMAIN asked : i = asked[k].id
  <2>1. PICK x \in drawn : x \in ids(UNION ToSet(OldCatalogue[i]))
    OBVIOUS
  <2>2. PICK c \in known : c.id = x
    BY <1>1 DEF ids
  <2>3. PICK k \in DOMAIN asked : \E section \in ToSet(OldCatalogue[asked[k].id]) :
           c \in section /\ asked[k].id \in DOMAIN OldCatalogue
    BY <1>1, KnownIn
  <2>4. PICK j \in DOMAIN OldCatalogue : j = asked[k].id
    BY <2>3
  <2>5. PICK section \in ToSet(OldCatalogue[j]) : c \in section
    BY <2>3, <2>4
  <2>6. PICK own \in ToSet(OldCatalogue[i]) : \E e \in own : e.id = x
    BY ONLY <2>1, GuidIn
  <2>7. PICK e \in own : e.id = c.id
    BY <2>2, <2>6
  <2>8. i \in DOMAIN OldCatalogue
    OBVIOUS
  <2>9. i = j
    BY ONLY GuidsAssumption, <2>5, <2>7, <2>8, j \in DOMAIN OldCatalogue, e \in own, c \in section,
            own \in ToSet(OldCatalogue[i]), section \in ToSet(OldCatalogue[j]) DEF GuidsAssumption
  <2>. QED BY <2>4, <2>9
<1>4. IsFiniteSet(here)
  <2>1. IsFiniteSet(DOMAIN asked)
    <3>1. PICK n \in Nat : DOMAIN asked = 1..n
      BY <1>2
    <3>2. IsFiniteSet(1..n)
      BY FS_Interval
    <3>. QED BY <3>1, <3>2
  <2> DEFINE named == {asked[k].id : k \in DOMAIN asked}
  <2>2. [k \in DOMAIN asked |-> asked[k].id] \in Surjection(DOMAIN asked, named)
    BY DEF Surjection
  <2>3. IsFiniteSet(named)
    BY <2>1, <2>2, FS_Surjection
  <2>4. here \subseteq named
    BY <1>3
  <2>. QED BY <2>3, <2>4, FS_Subset
<1>6. here \subseteq DOMAIN OldCatalogue
  OBVIOUS
<1>7. PICK skeleton : skeleton = [i \in here |-> of(i)]
  OBVIOUS
<1>8. DOMAIN skeleton = here
  BY <1>7
<1>9. Stored(skeleton)
  <2>1. ASSUME NEW i \in DOMAIN skeleton
        PROVE  /\ skeleton[i] \subseteq ids(UNION ToSet(OldCatalogue[i]))
               /\ OneSection(skeleton[i], OldCatalogue[i])
    <3>1. i \in here
      BY <1>8
    <3>2. skeleton[i] = of(i)
      BY <1>7, <3>1
    <3>3. OneSection(drawn, OldCatalogue[i])
      BY <1>1, <3>1
    <3>4. PICK D, own : D = of(i) /\ own = OldCatalogue[i]
      OBVIOUS
    <3>5. D \subseteq drawn /\ D \subseteq ids(UNION ToSet(own)) /\ OneSection(drawn, own)
      BY <3>3, <3>4
    <3>6. OneSection(D, own)
      BY ONLY <3>5 DEF OneSection
    <3>. QED BY <3>2, <3>4, <3>5, <3>6
  <2>. QED BY <1>4, <1>6, <1>8, <2>1 DEF Stored
<1>10. (Stored(saved))'
  BY <1>1, <1>7, <1>9 DEF Stored
<1>. QED BY <1>10 DEF SavedInv

LEMMA SavedKept ==
    ASSUME RequestsAssumption, GuidsAssumption, SearchedInv, DrawnOnceInv, SavedInv,
           [RequestsNext]_allVars
    PROVE  SavedInv'
<1>1. CASE saveSchedule
  BY <1>1, SaveStores
<1>2. CASE ~saveSchedule
  <2>1. saved' = saved
    BY <1>2 DEF RequestsNext, allVars, client, generateSchedules, schedules_generate_v2,
           generateLocally, schedules_generate, firstGenerates, firstAnswers, draw, swapComponents,
           redraw, timetableUpdated, expandScheduleSkeleton, expanded
  <2>2. phase' \in {"saved", "expanding", "expanded"} => phase \in {"saved", "expanding", "expanded"}
    BY <1>2 DEF RequestsNext, allVars, generateSchedules, schedules_generate_v2,
           generateLocally, schedules_generate, firstGenerates, firstAnswers, draw, swapComponents,
           redraw, timetableUpdated, expandScheduleSkeleton, expanded
  <2>. QED BY <2>1, <2>2 DEF SavedInv
<1>. QED BY <1>1, <1>2

-----------------------------------------------------------------------------
(* The courses of an expansion                                             *)

\* Of a section one way to take it: all of it.
Whole(section) ==
    /\ section # {} /\ IsFiniteSet(section)
    /\ \A c, d \in section : c.type = d.type /\ c.type # "LEC" => c = d

LEMMA SectionWhole ==
    ASSUME NEW course, NEW i \in DOMAIN course.sections, Whole(course.sections[i])
    PROVE  /\ First!sectionCombinations(course, i) # <<>>
           /\ \A cs \in ToSet(First!sectionCombinations(course, i)) :
                 ids(ToSet(cs)) = ids(course.sections[i])
<1> DEFINE section == course.sections[i]
           placed(c) == [id |-> c.id, type |-> c.type, day |-> c.day, start |-> c.start, end |-> c.end,
                         closed |-> c.closed, course |-> course.id, section |-> i]
           all == {placed(c) : c \in section}
           lec == {c \in all : c.type = "LEC"}
           types == {c.type : c \in all \ lec}
           picks == {p \in [types -> all] : \A t \in types : p[t].type = t}
           made(p) == sequenceOf({p[t] : t \in types}) \o sequenceOf(lec)
<1>1. section # {} /\ IsFiniteSet(section)
  BY DEF Whole
<1>2. \A c \in section : placed(c).id = c.id /\ placed(c).type = c.type
  OBVIOUS
<1>3. all # {}
  BY <1>1
<1>4. First!sectionCombinations(course, i) = sequenceOf({made(p) : p \in picks})
  <2>1. First!sectionCombinations(course, i) =
          First!sequenceOf({First!sequenceOf({p[t] : t \in types}) \o First!sequenceOf(lec) : p \in picks})
    BY <1>3 DEF First!sectionCombinations
  <2> DEFINE other(p) == First!sequenceOf({p[t] : t \in types}) \o First!sequenceOf(lec)
  <2>2. \A p \in picks : other(p) = made(p)
    BY FirstSequenceOf
  <2> HIDE DEF other, made, picks
  <2>3. {other(p) : p \in picks} = {made(p) : p \in picks}
    BY <2>2
  <2>4. First!sectionCombinations(course, i) = First!sequenceOf({other(p) : p \in picks})
    BY <2>1 DEF other, picks
  <2>. QED BY <2>3, <2>4, FirstSequenceOf
<1>5. IsFiniteSet(all)
  <2>1. [c \in section |-> placed(c)] \in Surjection(section, all)
    BY DEF Surjection
  <2>. QED BY <1>1, <2>1, FS_Surjection
<1> HIDE DEF placed
<1>6. ids(all) = ids(section)
  <2>1. \A x \in ids(all) : x \in ids(section)
    BY <1>2 DEF ids
  <2>2. \A x \in ids(section) : x \in ids(all)
    BY <1>2 DEF ids
  <2>. QED BY <2>1, <2>2
<1>7. \A e, f \in all : e.type = f.type /\ e.type # "LEC" => e = f
  BY <1>2 DEF Whole
<1> HIDE DEF all
<1>8. IsFiniteSet(types)
  <2>1. IsFiniteSet(all \ lec)
    BY <1>5, FS_Subset
  <2>2. [c \in all \ lec |-> c.type] \in Surjection(all \ lec, types)
    BY DEF Surjection
  <2>. QED BY <2>1, <2>2, FS_Surjection
<1>9. ASSUME NEW p \in picks PROVE ids(ToSet(made(p))) = ids(section)
  <2> DEFINE picked == {p[t] : t \in types}
  <2>1. picked \subseteq all /\ lec \subseteq all
    OBVIOUS
  <2>2. IsFiniteSet(picked) /\ IsFiniteSet(lec)
    BY <1>5, <2>1, FS_Subset
  <2>3. picked \cup lec = all
    <3>1. ASSUME NEW e \in all, e.type # "LEC" PROVE e \in picked
      <4>1. e.type \in types
        BY <3>1
      <4>2. p[e.type] \in all /\ p[e.type].type = e.type
        BY <4>1
      <4>. QED BY <1>7, <3>1, <4>1, <4>2
    <3>. QED BY <2>1, <3>1
  <2> HIDE DEF lec, picked
  <2>4. Lists(sequenceOf(picked), picked) /\ Lists(sequenceOf(lec), lec)
    BY <2>2, SequenceOfLists
  <2>5. PICK a \in Seq(all), b \in Seq(all) : a = sequenceOf(picked) /\ b = sequenceOf(lec)
    BY <2>1, <2>4 DEF Lists
  <2>6. ToSet(a \o b) = all
    <3>1. ToSet(a \o b) = ToSet(a) \cup ToSet(b)
      BY MembersOfConcat
    <3>2. ToSet(a) = picked /\ ToSet(b) = lec
      BY <2>4, <2>5 DEF Lists
    <3>. QED BY <2>3, <3>1, <3>2
  <2>7. made(p) = a \o b
    BY <2>5 DEF picked
  <2>. QED BY <1>6, <2>6, <2>7
<1>10. picks # {}
  <2> DEFINE p == [t \in types |-> CHOOSE c \in all : c.type = t]
  <2>1. \A t \in types : p[t] \in all /\ p[t].type = t
    OBVIOUS
  <2>2. p \in picks
    BY <2>1
  <2>. QED BY <2>2
<1> HIDE DEF types
<1>11. IsFiniteSet(picks)
  BY <1>5, <1>8, FunctionsFinite
<1> HIDE DEF picks, made, section
<1>12. PICK M : M = {made(p) : p \in picks}
  OBVIOUS
<1>13. IsFiniteSet(M) /\ M # {}
  <2>1. [p \in picks |-> made(p)] \in Surjection(picks, {made(p) : p \in picks})
    BY DEF Surjection
  <2>. QED BY <1>10, <1>11, <1>12, <2>1, FS_Surjection
<1>14. ToSet(sequenceOf(M)) = M
  BY <1>13, SequenceOfLists DEF Lists
<1>15. sequenceOf(M) # <<>>
  BY <1>13, <1>14 DEF ToSet
<1>16. \A cs \in M : ids(ToSet(cs)) = ids(section)
  BY <1>9, <1>12
<1>. QED BY <1>4, <1>12, <1>14, <1>15, <1>16 DEF section

\* A course with all its sections has all of them.
HasAll(course, all) ==
    \A section \in ToSet(all) : \E k \in DOMAIN course.sections : course.sections[k] = parsed(section)

LEMMA AllSections ==
    ASSUME RequestsAssumption, NEW timetable \in {OldCatalogue, NewCatalogue},
           NEW meta, meta.id \in DOMAIN OldCatalogue, NEW course, course = courseFrom(timetable, meta),
           NEW all, all = timetable[meta.id], meta.sections = DOMAIN all
    PROVE  HasAll(course, all)
<1> DEFINE wanted == ordered(meta.sections \cap DOMAIN all)
           list == [k \in DOMAIN wanted |-> parsed(all[wanted[k]])]
<1>1. meta.id \in DOMAIN timetable
  BY DEF RequestsAssumption
<1>2. PICK n \in Nat : DOMAIN all = 1..n
  BY <1>1 DEF RequestsAssumption
<1>3. wanted \in Seq(meta.sections \cap DOMAIN all)
  BY WantedAre
<1>4. \A i \in 1..n : \E k \in DOMAIN wanted : wanted[k] = i
  <2>1. PICK S \in SUBSET (1..n) : S = meta.sections \cap DOMAIN all
    BY <1>2
  <2>2. \A x \in S : \E k \in DOMAIN ordered(S) : ordered(S)[k] = x
    BY ONLY n \in Nat, S \in SUBSET (1..n), OrderedOnto
  <2>3. S = 1..n /\ wanted = ordered(S)
    BY <1>2, <2>1
  <2>. QED BY ONLY <2>2, <2>3
<1> HIDE DEF wanted
<1>5. DOMAIN list = DOMAIN wanted /\ DOMAIN wanted = 1..Len(wanted) /\ Len(wanted) \in Nat
  BY <1>3
<1>6. evaluated(list) = list
  <2>1. list \in Seq({list[k] : k \in DOMAIN wanted})
    BY <1>5
  <2>. QED BY <2>1, EvaluatedType
<1>7. courseFrom(timetable, meta).sections = list
  BY <1>6 DEF courseFrom, wanted
<1>8. ASSUME NEW section \in ToSet(all) PROVE \E k \in DOMAIN list : list[k] = parsed(section)
  <2>1. PICK i \in 1..n : section = all[i]
    BY <1>2 DEF ToSet
  <2>2. PICK k \in DOMAIN wanted : wanted[k] = i
    BY <1>4
  <2>. QED BY <1>5, <2>1, <2>2
<1> HIDE DEF list
<1>. QED BY <1>7, <1>8 DEF HasAll

\* filterContent leaves of the sections with something in the skeleton what is in it.
LEMMA ContentFiltered ==
    ASSUME NEW i, NEW mandatory, NEW sections, NEW D,
           NEW course, course = [id |-> i, mandatory |-> mandatory, sections |-> sections],
           Numbered(course), NEW filtered, filtered = filterContent(course, D)
    PROVE  /\ filtered.id = i /\ filtered.mandatory = mandatory /\ Numbered(filtered)
           /\ \A k \in DOMAIN filtered.sections : \E m \in DOMAIN sections :
                 /\ ids(sections[m]) \cap D # {}
                 /\ filtered.sections[k] = {c \in sections[m] : c.id \in D}
           /\ \A m \in DOMAIN sections : ids(sections[m]) \cap D # {} => DOMAIN filtered.sections # {}
<1> DEFINE hit == {m \in DOMAIN sections : ids(sections[m]) \cap D # {}}
           kept == ordered(hit)
           list == [k \in DOMAIN kept |-> {c \in sections[kept[k]] : c.id \in D}]
<1>1. PICK n \in Nat : DOMAIN sections = 1..n
  BY DEF Numbered
<1>2. kept \in Seq(hit) /\ \A m \in hit : \E k \in DOMAIN kept : kept[k] = m
  <2>1. hit \in SUBSET (1..n)
    BY <1>1
  <2> HIDE DEF hit
  <2>. QED BY <2>1, OrderedType, OrderedOnto
<1> HIDE DEF kept
<1>3. DOMAIN list = DOMAIN kept /\ DOMAIN kept = 1..Len(kept) /\ Len(kept) \in Nat
  BY <1>2
<1>4. evaluated(list) = list
  <2>1. list \in Seq({list[k] : k \in DOMAIN kept})
    BY <1>3
  <2>. QED BY <2>1, EvaluatedType
<1>5. filtered = [course EXCEPT !.sections = list]
  BY <1>4 DEF filterContent, kept
<1>6. filtered.id = i /\ filtered.mandatory = mandatory /\ filtered.sections = list
  BY <1>5
<1>7. \A k \in DOMAIN list : kept[k] \in DOMAIN sections /\ ids(sections[kept[k]]) \cap D # {}
                             /\ list[k] = {c \in sections[kept[k]] : c.id \in D}
  BY <1>2
<1>8. Numbered(filtered)
  <2>1. ASSUME NEW k \in DOMAIN list PROVE IsFiniteSet(list[k]) /\ Timed(list[k])
    <3>1. PICK section : section = sections[kept[k]]
      OBVIOUS
    <3>2. IsFiniteSet(section) /\ Timed(section)
      BY <1>7, <3>1 DEF Numbered, Offered
    <3>3. list[k] \subseteq section
      BY <1>7, <3>1
    <3>. QED BY <3>2, <3>3, FS_Subset DEF Timed
  <2>2. DOMAIN list \subseteq Nat /\ IsFiniteSet(DOMAIN list)
    <3>1. PICK m \in Nat : DOMAIN list = 1..m
      BY <1>3
    <3>. QED BY <3>1, FS_Interval
  <2> HIDE DEF list
  <2>. QED BY <1>3, <1>6, <2>1, <2>2 DEF Numbered, Offered
<1>9. ASSUME NEW m \in DOMAIN sections, ids(sections[m]) \cap D # {} PROVE DOMAIN list # {}
  BY <1>2, <1>3, <1>9
<1> HIDE DEF list
<1>. QED BY <1>6, <1>7, <1>8, <1>9

\* What is left of a saved course in a timetable.
Left(D, sections) == D \cap ids(parsed(UNION ToSet(sections)))

\* The sections of an expanded course are taken whole, and are what is left of it.
WholeIn(course, L) ==
    /\ Numbered(course) /\ \A k \in DOMAIN course.sections : Whole(course.sections[k]) /\ ids(course.sections[k]) = L
    /\ DOMAIN course.sections = {} => L = {}

\* The course i of an expansion, of which L is left.
Expands(course, i, L) == course.id = i /\ course.mandatory = TRUE /\ WholeIn(course, L)

\* A saved course, mandatory and with all its sections.
wholeMeta(i, all) == [id |-> i, mandatory |-> TRUE, sections |-> DOMAIN all]

LEMMA ContentWhole ==
    ASSUME RequestsAssumption, NEW table \in {OldCatalogue, NewCatalogue},
           NEW i \in DOMAIN OldCatalogue, NEW all, all = table[i], NEW D, OneSection(D, all),
           NEW filtered, filtered = filterContent(courseFrom(table, wholeMeta(i, all)), D)
    PROVE  Expands(filtered, i, Left(D, all))
<1>. PICK meta : meta = wholeMeta(i, all)
  OBVIOUS
<1>0. /\ meta.id = i /\ meta.mandatory = TRUE /\ meta.sections = DOMAIN table[meta.id]
      /\ meta.id \in DOMAIN OldCatalogue /\ all = table[meta.id]
      /\ filtered = filterContent(courseFrom(table, meta), D)
  BY DEF wholeMeta
<1>. PICK course : course = courseFrom(table, meta)
  OBVIOUS
<1>. PICK sections : sections = course.sections
  OBVIOUS
<1>1. course = [id |-> meta.id, mandatory |-> meta.mandatory, sections |-> sections]
  BY DEF courseFrom
<1>2. Numbered(course)
  BY <1>0, CourseNumbered
<1>3. /\ filtered.id = meta.id /\ filtered.mandatory = meta.mandatory /\ Numbered(filtered)
      /\ \A k \in DOMAIN filtered.sections : \E m \in DOMAIN sections :
            /\ ids(sections[m]) \cap D # {}
            /\ filtered.sections[k] = {c \in sections[m] : c.id \in D}
      /\ \A m \in DOMAIN sections : ids(sections[m]) \cap D # {} => DOMAIN filtered.sections # {}
  <2>1. PICK mandatory : i = meta.id /\ mandatory = meta.mandatory
    BY <1>0
  <2>2. course = [id |-> i, mandatory |-> mandatory, sections |-> sections]
    BY <1>1, <2>1
  <2>3. filtered = filterContent(course, D)
    BY <1>0
  <2>. QED BY ONLY <1>2, <2>1, <2>2, <2>3, ContentFiltered
<1>4. \A m \in DOMAIN sections : \E section \in ToSet(all) : sections[m] = parsed(section)
  BY <1>0, CourseIsFrom
<1>5. \A section \in ToSet(all) : \E m \in DOMAIN sections : sections[m] = parsed(section)
  <2>1. meta.sections = DOMAIN all
    BY <1>0
  <2>2. HasAll(course, all)
    BY ONLY RequestsAssumption, table \in {OldCatalogue, NewCatalogue}, <1>0, course = courseFrom(table, meta),
            <2>1, AllSections, SMTT(60)
  <2>. QED BY <2>2 DEF HasAll
<1>6. OneSection(D, all)
  OBVIOUS
<1>. PICK L : L = Left(D, all)
  OBVIOUS
<1>7. ASSUME NEW k \in DOMAIN filtered.sections
      PROVE  Whole(filtered.sections[k]) /\ ids(filtered.sections[k]) = L
  <2>1. PICK kept : kept = filtered.sections[k]
    OBVIOUS
  <2>2. PICK m \in DOMAIN sections : /\ ids(sections[m]) \cap D # {}
                                     /\ kept = {c \in sections[m] : c.id \in D}
    BY <1>3, <2>1
  <2>3. PICK section \in ToSet(all) : sections[m] = parsed(section)
    BY <1>4
  <2>4. kept = {c \in parsed(section) : c.id \in D} /\ ids(parsed(section)) \cap D # {}
    BY <2>2, <2>3
  <2>5. PICK e \in section : e.id \in D
    BY <2>4 DEF ids, parsed
  <2>6. kept \subseteq section /\ \A c \in kept : c.id \in D
    BY <2>4 DEF parsed
  <2>7. kept # {}
    BY <2>4 DEF ids
  <2>8. IsFiniteSet(kept)
    BY <1>3, <2>1 DEF Numbered, Offered
  <2>9. \A c, d \in kept : c.type = d.type /\ c.type # "LEC" => c = d
    BY <1>6, <2>6 DEF OneSection
  <2>10. ids(kept) \subseteq L
    <3>1. kept \subseteq parsed(UNION ToSet(all))
      BY <2>4 DEF parsed
    <3>2. \A x \in ids(kept) : x \in D /\ x \in ids(parsed(UNION ToSet(all)))
      BY ONLY <2>6, <3>1 DEF ids
    <3>3. L = D \cap ids(parsed(UNION ToSet(all)))
      BY DEF Left
    <3>. QED BY ONLY <3>2, <3>3
  <2>11. ASSUME NEW x \in L PROVE x \in ids(kept)
    <3>1. x \in D /\ x \in ids(parsed(UNION ToSet(all)))
      BY DEF Left
    <3>2. PICK c \in parsed(UNION ToSet(all)) : c.id = x
      BY ONLY <3>1 DEF ids
    <3>3. PICK own \in ToSet(all) : c \in own /\ c.day # 0
      BY DEF parsed
    <3>4. own = section
      BY <1>6, <2>5, <3>1, <3>2, <3>3 DEF OneSection
    <3>5. c \in kept
      BY <2>4, <3>1, <3>2, <3>3, <3>4 DEF parsed
    <3>. QED BY <3>2, <3>5 DEF ids
  <2>. QED BY <2>1, <2>7, <2>8, <2>9, <2>10, <2>11 DEF Whole
<1>8. ASSUME DOMAIN filtered.sections = {}, NEW x \in L PROVE FALSE
  <2>1. x \in D /\ x \in ids(parsed(UNION ToSet(all)))
    BY DEF Left
  <2>2. PICK c \in parsed(UNION ToSet(all)) : c.id = x
    BY ONLY <2>1 DEF ids
  <2>3. PICK own \in ToSet(all) : c \in own /\ c.day # 0
    BY DEF parsed
  <2>4. PICK m \in DOMAIN sections : sections[m] = parsed(own)
    BY <1>5
  <2>5. x \in ids(sections[m])
    BY <2>2, <2>3, <2>4 DEF ids, parsed
  <2>. QED BY <1>3, <1>8, <2>1, <2>5
<1>. QED BY <1>0, <1>3, <1>7, <1>8 DEF WholeIn, Expands

\* There is something to choose, and all of it is the same.
AllOf(course, L) ==
    Options(course) # {} /\ \A cs \in Options(course) : ids(ToSet(cs)) = L

LEMMA CourseWhole ==
    ASSUME NEW filtered, NEW L, WholeIn(filtered, L),
           NEW course, course.combinations = First!getCombinations(filtered), course.mandatory = TRUE
    PROVE  AllOf(course, L)
<1> DEFINE of(i) == First!sectionCombinations(filtered, i)
<1>1. PICK n \in Nat : DOMAIN filtered.sections = 1..n
  BY DEF WholeIn, Numbered
<1>2. PICK list : list = [i \in 1..n |-> of(i)]
  OBVIOUS
<1>3. course.combinations = FlattenSeq(list)
  BY <1>1, <1>2, FirstFlatten DEF First!getCombinations
<1>4. \A i \in 1..n : IsFiniteSet(filtered.sections[i])
  BY <1>1 DEF WholeIn, Numbered, Offered
<1>5. \A i \in 1..n : \E P : of(i) \in Seq(Filled(P))
  BY <1>1, <1>4, SectionCombines
<1>6. \A i \in 1..n : of(i) # <<>> /\ \A cs \in ToSet(of(i)) : ids(ToSet(cs)) = L
  BY <1>1, SectionWhole DEF WholeIn
<1>. HIDE DEF of
<1>7. PICK Q : Q = UNION {ToSet(of(i)) : i \in 1..n}
  OBVIOUS
<1>8. \A i \in 1..n : of(i) \in Seq(Q)
  <2>1. ASSUME NEW i \in 1..n PROVE of(i) \in Seq(Q)
    <3>1. PICK P : of(i) \in Seq(P)
      BY <1>5
    <3>2. \A k \in DOMAIN of(i) : of(i)[k] \in Q
      BY <1>7 DEF ToSet
    <3>. QED BY <3>1, <3>2
  <2>. QED BY <2>1
<1>9. list \in Seq(Seq(Q)) /\ DOMAIN list = 1..n /\ \A i \in 1..n : list[i] = of(i)
  BY <1>2, <1>8
<1>10. ToSet(FlattenSeq(list)) = UNION {ToSet(list[i]) : i \in DOMAIN list}
  BY ONLY <1>9, FlattenMembers
<1>11. PICK flat : flat = FlattenSeq(list)
  OBVIOUS
<1>12. \A cs \in ToSet(flat) : ids(ToSet(cs)) = L
  BY <1>6, <1>9, <1>10, <1>11
<1>13. CASE n = 0
  <2>1. L = {}
    BY <1>1, <1>13 DEF WholeIn
  <2>2. ToSet(flat) = {}
    BY <1>9, <1>10, <1>11, <1>13
  <2>3. ids(ToSet(<<>>)) = {}
    BY DEF ids, ToSet
  <2>4. flat = <<>>
    <3>1. flat \in Seq(Q)
      <4>1. <<>> \in Seq(Q)
        OBVIOUS
      <4>. QED BY ONLY <1>9, <1>11, <4>1, FlattenAppend
    <3>2. DOMAIN flat = {}
      BY <2>2 DEF ToSet
    <3>. QED BY <3>1, <3>2
  <2>. QED BY <1>3, <1>11, <2>1, <2>2, <2>3, <2>4 DEF AllOf, Options
<1>14. CASE n # 0
  <2>1. 1 \in 1..n
    BY <1>14
  <2>2. PICK P : of(1) \in Seq(P)
    BY <1>5, <2>1
  <2>3. 1 \in DOMAIN of(1)
    BY <1>6, <2>1, <2>2
  <2>4. of(1)[1] \in ToSet(flat)
    <3>1. of(1)[1] \in ToSet(of(1))
      BY <2>3 DEF ToSet
    <3>2. ToSet(flat) = UNION {ToSet(of(i)) : i \in 1..n}
      BY <1>9, <1>10, <1>11
    <3>. QED BY <2>1, <3>1, <3>2
  <2>5. flat # <<>>
    BY <2>4 DEF ToSet
  <2>6. Options(course) = ToSet(flat)
    BY <1>3, <1>11, <2>5 DEF Options
  <2>. QED BY <1>12, <2>4, <2>6 DEF AllOf
<1>. QED BY <1>13, <1>14

\* The courses of the skeleton are asked for, and no others.
LEMMA WholeMetas ==
    ASSUME Stored(saved), NEW metas, metas = wholeCourses(saved)
    PROVE  /\ Metas(metas)
           /\ \A k \in DOMAIN metas : \E i \in DOMAIN saved : metas[k] = wholeMeta(i, catalogue[i])
           /\ \A i \in DOMAIN saved : \E k \in DOMAIN metas : metas[k] = wholeMeta(i, catalogue[i])
<1>1. PICK I : I = DOMAIN saved
  OBVIOUS
<1>2. IsFiniteSet(I) /\ I \subseteq DOMAIN OldCatalogue
  BY <1>1 DEF Stored
<1>3. PICK order \in Seq(I) : order = sequenceOf(I) /\ ToSet(order) = I
  BY <1>2, SequenceOfLists DEF Lists
<1> DEFINE list == [k \in DOMAIN order |-> wholeMeta(order[k], catalogue[order[k]])]
<1>4. evaluated(list) = list
  <2>1. list \in Seq({list[k] : k \in DOMAIN order})
    OBVIOUS
  <2>. QED BY <2>1, EvaluatedType
<1>5. metas = list
  BY <1>1, <1>3, <1>4 DEF wholeCourses, wholeMeta
<1>6. \A k \in DOMAIN list : order[k] \in I /\ list[k] = wholeMeta(order[k], catalogue[order[k]])
  BY <1>3
<1>7. \A i \in I : \E k \in DOMAIN list : order[k] = i
  BY <1>3 DEF ToSet
<1>8. DOMAIN list = 1..Len(list) /\ Len(list) \in Nat
  OBVIOUS
<1> HIDE DEF list
<1>9. \A i : wholeMeta(i, catalogue[i]).id = i
  BY DEF wholeMeta
<1>10. Metas(list)
  BY <1>2, <1>6, <1>8, <1>9 DEF Metas
<1>. QED BY <1>1, <1>5, <1>6, <1>7, <1>10

\* Of them those are found that can be fetched.
WholeCourses(found, I) ==
    /\ found \in Seq({c \in ToSet(found) : Numbered(c)})
    /\ \A k \in DOMAIN found : \E i \in I : found[k] = courseFrom(catalogue, wholeMeta(i, catalogue[i]))
    /\ \A i \in I : \E k \in DOMAIN found : found[k] = courseFrom(catalogue, wholeMeta(i, catalogue[i]))

LEMMA WholeFound ==
    ASSUME RequestsAssumption, catalogue \in {OldCatalogue, NewCatalogue}, Stored(saved), NEW gone,
           NEW found, found = firstGetCourses(wholeCourses(saved), gone)
    PROVE  WholeCourses(found, DOMAIN saved \ gone)
<1>1. PICK metas : metas = wholeCourses(saved)
  OBVIOUS
<1>2. /\ Metas(metas)
      /\ \A k \in DOMAIN metas : \E i \in DOMAIN saved : metas[k] = wholeMeta(i, catalogue[i])
      /\ \A i \in DOMAIN saved : \E k \in DOMAIN metas : metas[k] = wholeMeta(i, catalogue[i])
  BY <1>1, WholeMetas
<1>3. PICK few : few = byId(metas)
  OBVIOUS
<1>4. /\ Metas(few)
      /\ \A p \in DOMAIN few : \E k \in DOMAIN metas : few[p] = metas[k]
      /\ \A k \in DOMAIN metas : \E p \in DOMAIN few : few[p].id = metas[k].id
  <2>1. /\ Metas(byId(metas))
        /\ \A p \in DOMAIN byId(metas) : \E k \in DOMAIN metas : byId(metas)[p] = metas[k]
        /\ \A k \in DOMAIN metas : \E p \in DOMAIN byId(metas) : byId(metas)[p].id = metas[k].id
    BY ONLY <1>2, ByIdMetas
  <2>. QED BY ONLY <1>3, <2>1
<1>5. \A i : wholeMeta(i, catalogue[i]).id = i
  BY DEF wholeMeta
<1>6. \A p \in DOMAIN few : \E i \in DOMAIN saved : few[p] = wholeMeta(i, catalogue[i])
  BY <1>2, <1>4
<1>7. \A i \in DOMAIN saved : \E p \in DOMAIN few : few[p] = wholeMeta(i, catalogue[i])
  <2>1. ASSUME NEW i \in DOMAIN saved PROVE \E p \in DOMAIN few : few[p] = wholeMeta(i, catalogue[i])
    <3>1. PICK k \in DOMAIN metas : metas[k] = wholeMeta(i, catalogue[i])
      BY <1>2
    <3>2. PICK p \in DOMAIN few : few[p].id = metas[k].id
      BY <1>4
    <3>3. PICK j \in DOMAIN saved : few[p] = wholeMeta(j, catalogue[j])
      BY <1>6
    <3>. QED BY <1>5, <3>1, <3>2, <3>3
  <2>. QED BY <2>1
<1>8. found = getCourses(few, gone)
  BY <1>1, <1>3 DEF firstGetCourses
<1>9. /\ \A p \in DOMAIN few : few[p].id \notin gone => \E k \in DOMAIN found : found[k] = dataToCourse(few[p])
      /\ \A k \in DOMAIN found : \E p \in DOMAIN few : few[p].id \notin gone /\ found[k] = dataToCourse(few[p])
  BY <1>4, <1>8, CoursesDelivered
<1>10. ASSUME NEW k \in DOMAIN found
       PROVE  \E i \in DOMAIN saved \ gone : found[k] = courseFrom(catalogue, wholeMeta(i, catalogue[i]))
  <2>1. PICK p \in DOMAIN few : few[p].id \notin gone /\ found[k] = dataToCourse(few[p])
    BY <1>9
  <2>2. PICK i \in DOMAIN saved : few[p] = wholeMeta(i, catalogue[i])
    BY <1>6
  <2>. QED BY <1>5, <2>1, <2>2 DEF dataToCourse
<1>11. ASSUME NEW i \in DOMAIN saved \ gone
       PROVE  \E k \in DOMAIN found : found[k] = courseFrom(catalogue, wholeMeta(i, catalogue[i]))
  <2>1. PICK p \in DOMAIN few : few[p] = wholeMeta(i, catalogue[i])
    BY <1>7
  <2>2. few[p].id \notin gone
    BY <1>5, <2>1
  <2>. QED BY <1>9, <2>1, <2>2 DEF dataToCourse
<1>12. found \in Seq({c \in ToSet(found) : Numbered(c)})
  BY <1>4, <1>8, CoursesFetched
<1>. QED BY <1>10, <1>11, <1>12 DEF WholeCourses

\* The messages name those that cannot.
LEMMA WholeMissing ==
    ASSUME Stored(saved), NEW gone
    PROVE  missing(wholeCourses(saved), gone) = {<<"SCHED_3000", i>> : i \in DOMAIN saved \cap gone}
<1>1. PICK metas : metas = wholeCourses(saved)
  OBVIOUS
<1>2. /\ \A k \in DOMAIN metas : \E i \in DOMAIN saved : metas[k] = wholeMeta(i, catalogue[i])
      /\ \A i \in DOMAIN saved : \E k \in DOMAIN metas : metas[k] = wholeMeta(i, catalogue[i])
  BY <1>1, WholeMetas
<1>3. \A i : wholeMeta(i, catalogue[i]).id = i
  BY DEF wholeMeta
<1>4. ASSUME NEW x PROVE x \in missing(metas, gone) <=> \E i \in DOMAIN saved \cap gone : x = <<"SCHED_3000", i>>
  <2>1. ASSUME x \in missing(metas, gone) PROVE \E i \in DOMAIN saved \cap gone : x = <<"SCHED_3000", i>>
    <3>1. PICK k \in DOMAIN metas : metas[k].id \in gone /\ x = <<"SCHED_3000", metas[k].id>>
      BY <2>1 DEF missing, ToSet
    <3>2. PICK i \in DOMAIN saved : metas[k] = wholeMeta(i, catalogue[i])
      BY <1>2
    <3>. QED BY <1>3, <3>1, <3>2
  <2>2. ASSUME NEW i \in DOMAIN saved \cap gone, x = <<"SCHED_3000", i>> PROVE x \in missing(metas, gone)
    <3>1. PICK k \in DOMAIN metas : metas[k] = wholeMeta(i, catalogue[i])
      BY <1>2
    <3>2. metas[k].id = i /\ metas[k] \in ToSet(metas)
      BY <1>3, <3>1 DEF ToSet
    <3>. QED BY <2>2, <3>2 DEF missing
  <2>. QED BY <2>1, <2>2
<1>. QED BY <1>1, <1>4

\* The courses the first generator is given: each offers what is left of it ...
Shown(course, i, skeleton, timetable) ==
    course.id = i /\ AllOf(course, Left(skeleton[i], timetable[i]))

\* ... are those with an id in I.
Restores(list, skeleton, timetable, I) ==
    /\ \A p \in DOMAIN list : \E i \in I : Shown(list[p], i, skeleton, timetable)
    /\ \A i \in I : \E p \in DOMAIN list : Shown(list[p], i, skeleton, timetable)

LEMMA FirstOnto ==
    ASSUME NEW cs, DOMAIN cs = 1..Len(cs), Len(cs) \in Nat,
           NEW list, list \in First!sortedCourses(cs),
           \A i \in DOMAIN cs : Len(cs[i].combinations) \in Nat
    PROVE  /\ \A p \in DOMAIN list : \E i \in DOMAIN cs : list[p] = cs[i]
           /\ \A i \in DOMAIN cs : \E p \in DOMAIN list : list[p] = cs[i]
           /\ (\A i, k \in DOMAIN cs : cs[i].id = cs[k].id => i = k)
                => \A p, q \in DOMAIN list : list[p].id = list[q].id => p = q
<1> DEFINE count(i) == Len(cs[i].combinations)
<1>1. PICK order \in [DOMAIN cs -> DOMAIN cs] :
        /\ list = [p \in DOMAIN cs |-> cs[order[p]]]
        /\ \A p, q \in DOMAIN cs : p < q =>
              \/ count(order[p]) < count(order[q])
              \/ count(order[p]) = count(order[q]) /\ order[p] < order[q]
  BY DEF First!sortedCourses
<1>2. PICK n \in Nat : DOMAIN cs = 1..n
  OBVIOUS
<1>3. \A i \in 1..n : count(i) \in Nat
  BY <1>2
<1> HIDE DEF count
<1>4. ASSUME NEW p \in 1..n, NEW q \in 1..n, p < q PROVE order[p] # order[q]
  <2>1. order[p] \in 1..n /\ order[q] \in 1..n
    BY <1>1, <1>2
  <2>2. \/ count(order[p]) < count(order[q])
        \/ count(order[p]) = count(order[q]) /\ order[p] < order[q]
    BY <1>1, <1>2, <1>4
  <2>3. count(order[p]) \in Nat /\ count(order[q]) \in Nat
    BY <1>3, <2>1
  <2>. QED BY <2>1, <2>2, <2>3
<1>5. order \in Injection(1..n, 1..n)
  <2>1. \A p, q \in 1..n : p = q \/ p < q \/ q < p
    OBVIOUS
  <2>2. \A p, q \in 1..n : order[p] = order[q] => p = q
    BY <1>4, <2>1
  <2>. QED BY <1>1, <1>2, <2>2 DEF Injection, IsInjective
<1>6. order \in Surjection(1..n, 1..n)
  <2>1. IsFiniteSet(1..n)
    BY FS_Interval
  <2>. QED BY <1>5, <2>1, FS_Injection
<1>7. ASSUME \A i, k \in DOMAIN cs : cs[i].id = cs[k].id => i = k,
             NEW p \in DOMAIN list, NEW q \in DOMAIN list, list[p].id = list[q].id
      PROVE  p = q
  <2>1. p \in 1..n /\ q \in 1..n /\ order[p] \in 1..n /\ order[q] \in 1..n
    BY <1>1, <1>2
  <2>2. order[p] = order[q]
    BY <1>1, <1>2, <1>7, <2>1
  <2>. QED BY <1>5, <2>1, <2>2 DEF Injection, IsInjective
<1>. QED BY <1>1, <1>2, <1>6, <1>7 DEF Surjection

\* The courses found, of which only what was stored is kept.
givenCourses(found) ==
    evaluated([k \in DOMAIN found |-> filterContent(found[k], saved[found[k].id])])

LEMMA WholeBegins ==
    ASSUME RequestsAssumption, GuidsAssumption, catalogue \in {OldCatalogue, NewCatalogue}, Stored(saved),
           NEW gone, NEW found, found = firstGetCourses(wholeCourses(saved), gone),
           NEW list, list \in First!sortedCourses(First!withCombinations(givenCourses(found)))
    PROVE  Combined(list) /\ Restores(list, saved, catalogue, DOMAIN saved \ gone)
<1>. PICK table \in {OldCatalogue, NewCatalogue} : table = catalogue
  OBVIOUS
<1> DEFINE kept(k) == filterContent(found[k], saved[found[k].id])
           given == [k \in DOMAIN found |-> kept(k)]
           content(i) == filterContent(courseFrom(table, wholeMeta(i, table[i])), saved[i])
<1>1. /\ found \in Seq({c \in ToSet(found) : Numbered(c)})
      /\ \A k \in DOMAIN found : \E i \in DOMAIN saved \ gone : found[k] = courseFrom(table, wholeMeta(i, table[i]))
      /\ \A i \in DOMAIN saved \ gone : \E k \in DOMAIN found : found[k] = courseFrom(table, wholeMeta(i, table[i]))
  <2>1. WholeCourses(found, DOMAIN saved \ gone)
    BY WholeFound
  <2>. QED BY <2>1 DEF WholeCourses
<1>2. DOMAIN found = 1..Len(found) /\ Len(found) \in Nat
  BY <1>1
<1>4. ASSUME NEW i \in DOMAIN saved
      PROVE  Expands(content(i), i, Left(saved[i], table[i]))
  <2>1. PICK D, old, all : D = saved[i] /\ old = OldCatalogue[i] /\ all = table[i]
    OBVIOUS
  <2>2. i \in DOMAIN OldCatalogue /\ OneSection(D, old) /\ D \subseteq ids(UNION ToSet(old))
    BY <2>1 DEF Stored
  <2>3. OneSection(D, table[i])
    <3>1. OldCatalogue \in {OldCatalogue, NewCatalogue}
      OBVIOUS
    <3>2. OneSection(D, OldCatalogue[i])
      BY <2>1, <2>2
    <3>3. D \cap ids(UNION ToSet(table[i])) \subseteq ids(UNION ToSet(OldCatalogue[i]))
      BY <2>1, <2>2
    <3>. QED BY ONLY RequestsAssumption, GuidsAssumption, table \in {OldCatalogue, NewCatalogue},
                     <2>2, <3>1, <3>2, <3>3, SectionKept
  <2>4. PICK filtered : filtered = filterContent(courseFrom(table, wholeMeta(i, all)), D)
    OBVIOUS
  <2>5. OneSection(D, all)
    BY <2>1, <2>3
  <2>6. Expands(filtered, i, Left(D, all))
    BY ONLY RequestsAssumption, table \in {OldCatalogue, NewCatalogue}, <2>1, <2>2, <2>4, <2>5, ContentWhole
  <2>. QED BY <2>1, <2>4, <2>6
<1>5. \A i : wholeMeta(i, table[i]).id = i
  BY DEF wholeMeta
<1>6. ASSUME NEW k, NEW i, found[k] = courseFrom(table, wholeMeta(i, table[i]))
      PROVE  kept(k) = content(i)
  <2>1. PICK course, meta : course = found[k] /\ meta = wholeMeta(i, table[i])
    OBVIOUS
  <2>2. course = courseFrom(table, meta) /\ meta.id = i
    BY <1>5, <1>6, <2>1
  <2>3. course.id = i
    BY ONLY <2>2, CourseHasId
  <2>. QED BY <1>6, <2>1, <2>3
<1> HIDE DEF kept, content
<1>3. evaluated(given) = given
  <2>1. PICK n \in Nat : DOMAIN found = 1..n
    BY <1>2
  <2>2. PICK cs : cs = given
    OBVIOUS
  <2>3. DOMAIN cs = 1..n /\ cs = [k \in 1..n |-> cs[k]]
    BY <2>1, <2>2
  <2>4. cs \in Seq({cs[k] : k \in 1..n})
    BY ONLY n \in Nat, <2>3
  <2>. QED BY <2>2, <2>4, EvaluatedType
<1> DEFINE Given(x, i) == Expands(x, i, Left(saved[i], table[i]))
<1>8. /\ \A k \in DOMAIN found : \E i \in DOMAIN saved \ gone : Given(given[k], i)
      /\ \A i \in DOMAIN saved \ gone : \E k \in DOMAIN found : Given(given[k], i)
  <2>1. ASSUME NEW k \in DOMAIN found PROVE \E i \in DOMAIN saved \ gone : Given(given[k], i)
    <3>1. PICK i \in DOMAIN saved \ gone : found[k] = courseFrom(table, wholeMeta(i, table[i]))
      BY <1>1
    <3>. QED BY <1>4, <1>6, <3>1
  <2>2. ASSUME NEW i \in DOMAIN saved \ gone PROVE \E k \in DOMAIN found : Given(given[k], i)
    <3>1. PICK k \in DOMAIN found : found[k] = courseFrom(table, wholeMeta(i, table[i]))
      BY <1>1
    <3>. QED BY <1>4, <1>6, <3>1
  <2>. QED BY <2>1, <2>2
<1>9. PICK cs : cs = given
  OBVIOUS
<1>10. DOMAIN cs = 1..Len(found) /\ Len(cs) = Len(found)
  BY <1>2, <1>9
<1>11. /\ \A k \in DOMAIN cs : \E i \in DOMAIN saved \ gone : Given(cs[k], i)
       /\ \A i \in DOMAIN saved \ gone : \E k \in DOMAIN cs : Given(cs[k], i)
  BY <1>2, <1>8, <1>9, <1>10
<1>12. list \in First!sortedCourses(First!withCombinations(cs))
  BY <1>3, <1>9 DEF givenCourses, kept
<1> HIDE DEF given
<1>13. \A k \in DOMAIN cs : Numbered(cs[k])
  BY <1>11 DEF Expands, WholeIn
<1>14. cs \in Seq({c \in ToSet(cs) : Numbered(c)})
  <2>1. \A k \in DOMAIN cs : cs[k] \in ToSet(cs)
    BY DEF ToSet
  <2>2. cs = [k \in 1..Len(found) |-> cs[k]]
    BY <1>9, <1>10 DEF given
  <2>. QED BY <1>2, <1>10, <1>13, <2>1, <2>2
<1>15. Combined(list)
  BY <1>12, <1>14, Constructed
<1> DEFINE offered == [k \in DOMAIN cs |-> [id |-> cs[k].id, mandatory |-> cs[k].mandatory,
                                            combinations |-> First!getCombinations(cs[k])]]
<1>16. First!withCombinations(cs) = offered
  <2>1. offered \in Seq({offered[k] : k \in DOMAIN cs})
    BY <1>2, <1>10
  <2>2. First!evaluated(offered) = offered
    BY <2>1 DEF First!evaluated
  <2>. QED BY <2>2 DEF First!withCombinations
<1>17. /\ DOMAIN offered = DOMAIN cs /\ Len(offered) = Len(found)
       /\ \A k \in DOMAIN cs : /\ offered[k].id = cs[k].id /\ offered[k].mandatory = cs[k].mandatory
                               /\ offered[k].combinations = First!getCombinations(cs[k])
  BY <1>2, <1>10
<1> HIDE DEF offered
<1>18. \A k \in DOMAIN offered : Len(offered[k].combinations) \in Nat
  <2>1. ASSUME NEW k \in DOMAIN cs PROVE Len(First!getCombinations(cs[k])) \in Nat
    <3>1. PICK n \in Nat : DOMAIN cs[k].sections = 1..n
      BY <1>13 DEF Numbered
    <3>2. PICK P : First!getCombinations(cs[k]) \in Seq(Filled(P))
      BY <1>13, <3>1, CourseCombines DEF Numbered
    <3>. QED BY <3>2
  <2>. QED BY <1>17, <2>1
<1>19. /\ \A p \in DOMAIN list : \E k \in DOMAIN offered : list[p] = offered[k]
       /\ \A k \in DOMAIN offered : \E p \in DOMAIN list : list[p] = offered[k]
  <2>1. PICK others : others = offered
    OBVIOUS
  <2>2. /\ DOMAIN others = 1..Len(others) /\ Len(others) \in Nat
        /\ list \in First!sortedCourses(others) /\ \A k \in DOMAIN others : Len(others[k].combinations) \in Nat
    BY <1>2, <1>10, <1>12, <1>16, <1>17, <1>18, <2>1
  <2>3. /\ \A p \in DOMAIN list : \E k \in DOMAIN others : list[p] = others[k]
        /\ \A k \in DOMAIN others : \E p \in DOMAIN list : list[p] = others[k]
    BY ONLY <2>2, FirstOnto
  <2>. QED BY <2>1, <2>3
<1>20. ASSUME NEW k \in DOMAIN cs, NEW i, Given(cs[k], i) PROVE Shown(offered[k], i, saved, table)
  <2>1. PICK filtered, course, L : filtered = cs[k] /\ course = offered[k] /\ L = Left(saved[i], table[i])
    OBVIOUS
  <2>2. /\ WholeIn(filtered, L) /\ course.mandatory = TRUE /\ course.id = i
        /\ course.combinations = First!getCombinations(filtered)
    BY <1>17, <1>20, <2>1 DEF Expands
  <2>3. AllOf(course, L)
    BY ONLY <2>2, CourseWhole
  <2>. QED BY <2>1, <2>2, <2>3 DEF Shown
<1> HIDE DEF Given
<1>21. ASSUME NEW p \in DOMAIN list PROVE \E i \in DOMAIN saved \ gone : Shown(list[p], i, saved, table)
  <2>1. PICK k \in DOMAIN cs : list[p] = offered[k]
    BY <1>17, <1>19
  <2>2. PICK i \in DOMAIN saved \ gone : Given(cs[k], i)
    BY <1>11
  <2>. QED BY <1>20, <2>1, <2>2
<1>22. ASSUME NEW i \in DOMAIN saved \ gone PROVE \E p \in DOMAIN list : Shown(list[p], i, saved, table)
  <2>1. PICK k \in DOMAIN cs : Given(cs[k], i)
    BY <1>11
  <2>2. PICK p \in DOMAIN list : list[p] = offered[k]
    BY <1>17, <1>19
  <2>. QED BY <1>20, <2>1, <2>2
<1>. QED BY <1>15, <1>21, <1>22 DEF Restores

-----------------------------------------------------------------------------
(* What the first generator finds of them                                  *)

\* What is chosen of the courses, whatever it is, is what is left of them.
AllLeft(skeleton, timetable, I) == UNION {Left(skeleton[i], timetable[i]) : i \in I}

LEMMA ChoiceRestores ==
    ASSUME NEW list, NEW skeleton, NEW timetable, NEW I, Restores(list, skeleton, timetable, I),
           DOMAIN list = 1..Len(list), Len(list) \in Nat,
           NEW ch, Chosen(ch, list), Len(ch) = Len(list)
    PROVE  ids(ToSet(FlattenSeq(ch))) = AllLeft(skeleton, timetable, I)
<1>1. PICK P : P = Parts(list)
  OBVIOUS
<1>2. ch \in Seq(Seq(P)) /\ DOMAIN ch = DOMAIN list /\ \A p \in DOMAIN list : ch[p] \in Options(list[p])
  BY <1>1 DEF Chosen
<1>3. ToSet(FlattenSeq(ch)) = UNION {ToSet(ch[p]) : p \in DOMAIN ch}
  BY ONLY <1>2, FlattenMembers
<1>4. PICK S : S = ToSet(FlattenSeq(ch))
  OBVIOUS
<1>5. ASSUME NEW p \in DOMAIN list, NEW i, Shown(list[p], i, skeleton, timetable)
      PROVE  ids(ToSet(ch[p])) = Left(skeleton[i], timetable[i])
  BY <1>2, <1>5 DEF Shown, AllOf
<1>6. ASSUME NEW x \in ids(S) PROVE x \in AllLeft(skeleton, timetable, I)
  <2>1. PICK c \in S : c.id = x
    BY ONLY x \in ids(S) DEF ids
  <2>2. PICK p \in DOMAIN list : c \in ToSet(ch[p])
    BY <1>2, <1>3, <1>4
  <2>3. PICK i \in I : Shown(list[p], i, skeleton, timetable)
    BY DEF Restores
  <2>4. x \in ids(ToSet(ch[p]))
    BY ONLY <2>1, <2>2 DEF ids
  <2>. QED BY <1>5, <2>3, <2>4 DEF AllLeft
<1>7. ASSUME NEW x \in AllLeft(skeleton, timetable, I) PROVE x \in ids(S)
  <2>1. PICK i \in I : x \in Left(skeleton[i], timetable[i])
    BY DEF AllLeft
  <2>2. PICK p \in DOMAIN list : Shown(list[p], i, skeleton, timetable)
    BY DEF Restores
  <2>3. x \in ids(ToSet(ch[p]))
    BY <1>5, <2>1, <2>2
  <2>4. PICK c \in ToSet(ch[p]) : c.id = x
    BY ONLY <2>3 DEF ids
  <2>5. c \in S
    BY <1>2, <1>3, <1>4
  <2>. QED BY ONLY <2>4, <2>5 DEF ids
<1>. QED BY <1>4, <1>6, <1>7

\* There is a choice.
LEMMA ChoiceThereIs ==
    ASSUME NEW list, Combined(list), \A p \in DOMAIN list : Options(list[p]) # {}
    PROVE  \E ch : Chosen(ch, list) /\ Len(ch) = Len(list)
<1>1. PICK P : P = Parts(list)
  OBVIOUS
<1>2. PICK n \in Nat : n = Len(list) /\ DOMAIN list = 1..n
  BY DEF Combined
<1>3. \A p \in 1..n : Options(list[p]) \subseteq Seq(P)
  <2>1. ASSUME NEW p \in 1..n PROVE Options(list[p]) \subseteq Seq(P)
    <3>1. list[p].combinations \in Seq(Filled(P))
      BY <1>1, <1>2 DEF Combined
    <3>2. ToSet(list[p].combinations) \subseteq Seq(P)
      BY <3>1 DEF ToSet, Filled
    <3>3. <<>> \in Seq(P)
      OBVIOUS
    <3>. QED BY <3>2, <3>3 DEF Options
  <2>. QED BY <2>1
<1>4. PICK ch : /\ DOMAIN ch = 1..n /\ ch = [p \in 1..n |-> ch[p]]
                /\ \A p \in 1..n : ch[p] \in Options(list[p])
  <2> DEFINE any == [p \in 1..n |-> CHOOSE cs \in Options(list[p]) : TRUE]
  <2>1. \A p \in 1..n : any[p] \in Options(list[p])
    BY <1>2
  <2>2. DOMAIN any = 1..n /\ any = [p \in 1..n |-> any[p]]
    OBVIOUS
  <2>. QED BY <2>1, <2>2
<1>5. ch \in Seq(Seq(P)) /\ Len(ch) = n
  <2>1. \A p \in 1..n : ch[p] \in Seq(P)
    BY <1>3, <1>4
  <2>. QED BY <1>4, <2>1
<1>. QED BY <1>1, <1>2, <1>4, <1>5 DEF Chosen

\* The filters of an expansion admit everything, and find all as good.
LEMMA AllAreWanted ==
    ASSUME NEW list, NEW ch, Chosen(ch, list), Len(ch) = Len(list), FlattenSeq(ch) # <<>>
    PROVE  Wanted(ch, list, FILTERS)
<1>1. First!canAddCombination(<<>>, FlattenSeq(ch), FILTERS)
  BY DEF First!canAddCombination, First!canAddComponent, FILTERS
<1>2. First!checkFilters(FlattenSeq(ch), FILTERS)
  BY DEF First!checkFilters, FILTERS
<1>. QED BY <1>1, <1>2 DEF Wanted

LEMMA AllAreBest == ASSUME NEW list PROVE BestWanted(list, FILTERS) = AllWanted(list, FILTERS)
<1>1. \A cs : beforeStart(cs, FILTERS) = 0 /\ afterEnd(cs, FILTERS) = 0
  <2>1. ASSUME NEW cs PROVE beforeStart(cs, FILTERS) = 0 /\ afterEnd(cs, FILTERS) = 0
    <3>1. /\ {i \in DOMAIN cs : FILTERS.before # NoTime /\ FILTERS.before > cs[i].start} = {}
          /\ {i \in DOMAIN cs : FILTERS.after # NoTime /\ FILTERS.after < cs[i].end} = {}
      BY DEF FILTERS
    <3>. QED BY <3>1, FS_EmptySet DEF beforeStart, afterEnd
  <2>. QED BY <2>1
<1>. QED BY <1>1 DEF BestWanted

\* What the first generator found is what is left.
LEMMA FoundRestores ==
    ASSUME NEW list, Combined(list), NEW skeleton, NEW timetable, NEW I,
           Restores(list, skeleton, timetable, I), NEW kept, Finished(kept, list, FILTERS),
           NEW left, left = AllLeft(skeleton, timetable, I)
    PROVE  /\ kept.schedule_sets = <<>> => left = {}
           /\ kept.schedule_sets # <<>> => ids(ToSet(kept.schedule_sets[1][1].components)) = left
<1>1. DOMAIN list = 1..Len(list) /\ Len(list) \in Nat
  BY DEF Combined
<1>2. ASSUME NEW ch, Chosen(ch, list), Len(ch) = Len(list) PROVE ids(ToSet(FlattenSeq(ch))) = left
  BY <1>1, <1>2, ChoiceRestores
<1>3. PICK sets : sets = kept.schedule_sets
  OBVIOUS
<1>4. ASSUME sets = <<>>, left # {} PROVE FALSE
  <2>1. Within(sets) = {}
    BY <1>4 DEF Within, ToSet
  <2>2. AllWanted(list, FILTERS) = {}
    BY <1>3, <1>4, <2>1, AllAreBest DEF Finished
  <2>3. \A p \in DOMAIN list : Options(list[p]) # {}
    BY DEF Restores, Shown, AllOf
  <2>4. PICK ch : Chosen(ch, list) /\ Len(ch) = Len(list)
    BY <2>3, ChoiceThereIs
  <2>5. FlattenSeq(ch) # <<>>
    <3>1. ids(ToSet(<<>>)) = {}
      BY DEF ids, ToSet
    <3>. QED BY <1>2, <1>4, <2>4, <3>1
  <2>6. Wanted(ch, list, FILTERS)
    BY <2>4, <2>5, AllAreWanted
  <2>7. FlattenSeq(ch) \in Seq(Parts(list))
    BY <2>4, ChosenFlat
  <2>. QED BY <2>2, <2>6, <2>7 DEF AllWanted
<1>5. ASSUME sets # <<>> PROVE ids(ToSet(sets[1][1].components)) = left
  <2>1. sets \in Seq(Filled(Records(Parts(list))))
    BY <1>3 DEF Finished, Sets
  <2>2. PICK R : R = Records(Parts(list))
    OBVIOUS
  <2>3. 1 \in DOMAIN sets /\ sets[1] \in Seq(R) /\ sets[1] # <<>>
    BY <1>5, <2>1, <2>2 DEF Filled
  <2>4. sets[1] \in ToSet(sets) /\ sets[1][1] \in ToSet(sets[1])
    BY <2>3 DEF ToSet
  <2>5. sets[1][1] \in Within(sets)
    BY <2>4 DEF Within
  <2>6. PICK s : s = sets[1][1]
    OBVIOUS
  <2>7. PICK ch : Wanted(ch, list, FILTERS) /\ Reached(s, ch, list, FILTERS)
    BY <1>3, <2>5, <2>6 DEF Finished, MadeOfWanted
  <2>8. Chosen(ch, list) /\ Len(ch) = Len(list) /\ s.components = FlattenSeq(ch)
    BY <2>7 DEF Wanted, Reached
  <2>. QED BY <1>2, <2>6, <2>8
<1>. QED BY <1>3, <1>4, <1>5

-----------------------------------------------------------------------------
(* A saved schedule shown again                                            *)

\* The answer shows what is left of a skeleton in a timetable (SavedIsShownAgain).
ShownAgain(result, skeleton, timetable) ==
    result.error \in {"none", "SCHED_2000"} =>
        LET gone == IF <<"SCHED_2003", "">> \in result.messages THEN DOMAIN skeleton
                    ELSE {i \in DOMAIN skeleton : <<"SCHED_3000", i>> \in result.messages}
            left == AllLeft(skeleton, timetable, DOMAIN skeleton \ gone)
        IN  IF result.error = "SCHED_2000" THEN left = {} ELSE ids(UNION result.schedules) = left

\* The search of an expansion, and what it will answer.
Awaits(result, list, skeleton, timetable) ==
    \E gone \in SUBSET DOMAIN skeleton :
        /\ result = stub({<<"SCHED_3000", i>> : i \in gone})
        /\ Restores(list, skeleton, timetable, DOMAIN skeleton \ gone)

\* While an expansion runs it will show what is left, and when it is over it has.
RestoredInv ==
    /\ phase = "expanding" => /\ filters1 = FILTERS
                              /\ Searching(courses1, filters1, queue1, found1, status1)
                              /\ Awaits(outcome, courses1, saved, catalogue)
    /\ phase = "expanded" => ShownAgain(outcome, saved, catalogue)

LEMMA ExpansionBegins ==
    ASSUME RequestsAssumption, GuidsAssumption, SearchedInv, SavedInv, expandScheduleSkeleton
    PROVE  RestoredInv'
<1>1. /\ catalogue \in {OldCatalogue, NewCatalogue} /\ Stored(saved)
      /\ saved' = saved /\ catalogue' = catalogue
  BY DEF expandScheduleSkeleton, SearchedInv, SavedInv, request, client
<1>2. PICK gone \in SUBSET DOMAIN saved :
        LET found == firstGetCourses(wholeCourses(saved), gone)
        IN  IF found = <<>>
            THEN /\ phase' = "expanded"
                 /\ outcome' = stub(IF gone = {} THEN {} ELSE {<<"SCHED_2003", "">>})
                 /\ UNCHANGED firstVars
            ELSE /\ phase' = "expanding"
                 /\ outcome' = stub(missing(wholeCourses(saved), gone))
                 /\ First!construct(evaluated([i \in DOMAIN found |->
                        filterContent(found[i], saved[found[i].id])]), FILTERS)
  BY DEF expandScheduleSkeleton
<1>3. PICK found : found = firstGetCourses(wholeCourses(saved), gone)
  OBVIOUS
<1>4. CASE found = <<>>
  <2>1. phase' = "expanded" /\ outcome' = stub(IF gone = {} THEN {} ELSE {<<"SCHED_2003", "">>})
    BY <1>2, <1>3, <1>4
  <2>2. PICK result : result = outcome'
    OBVIOUS
  <2>3. /\ result.error = "none" /\ result.schedules = {{}}
        /\ result.messages = IF gone = {} THEN {} ELSE {<<"SCHED_2003", "">>}
    BY <2>1, <2>2 DEF stub
  <2>4. ids(UNION result.schedules) = {}
    <3>1. UNION result.schedules = {}
      BY <2>3
    <3>. QED BY <3>1 DEF ids
  <2>5. gone = {} => DOMAIN saved = {}
    <3>1. WholeCourses(found, DOMAIN saved \ gone)
      BY <1>1, <1>3, WholeFound
    <3>2. DOMAIN found = {}
      BY <1>4
    <3>3. ASSUME gone = {}, NEW i \in DOMAIN saved PROVE FALSE
      BY <3>1, <3>2, <3>3 DEF WholeCourses
    <3>. QED BY <3>3
  <2>6. AllLeft(saved, catalogue, {}) = {}
    BY DEF AllLeft
  <2>7. ShownAgain(result, saved, catalogue)
    <3>1. CASE gone = {}
      <4>1. DOMAIN saved \ {i \in DOMAIN saved : <<"SCHED_3000", i>> \in result.messages} = {}
        BY <2>5, <3>1
      <4>2. <<"SCHED_2003", "">> \notin result.messages
        BY <2>3, <3>1
      <4>. QED BY <2>3, <2>4, <2>6, <4>1, <4>2 DEF ShownAgain
    <3>2. CASE gone # {}
      <4>1. <<"SCHED_2003", "">> \in result.messages
        <5>1. result.messages = {<<"SCHED_2003", "">>}
          BY <2>3, <3>2
        <5>. QED BY ONLY <5>1
      <4>2. DOMAIN saved \ DOMAIN saved = {}
        OBVIOUS
      <4>. QED BY <2>3, <2>4, <2>6, <4>1, <4>2 DEF ShownAgain
    <3>. QED BY <3>1, <3>2
  <2>. QED BY <1>1, <2>1, <2>2, <2>7 DEF RestoredInv
<1>5. CASE found # <<>>
  <2>1. /\ phase' = "expanding" /\ outcome' = stub(missing(wholeCourses(saved), gone))
        /\ First!construct(evaluated([i \in DOMAIN found |->
               filterContent(found[i], saved[found[i].id])]), FILTERS)
    BY <1>2, <1>3, <1>5
  <2>2. PICK list : list = courses1'
    OBVIOUS
  <2>3. /\ list \in First!sortedCourses(First!withCombinations(givenCourses(found)))
        /\ filters1' = FILTERS /\ queue1' = <<First!EmptySchedule>>
        /\ found1' = First!NothingFound /\ status1' = "queue"
    BY <2>1, <2>2 DEF First!construct, givenCourses
  <2>4. Combined(list) /\ Restores(list, saved, catalogue, DOMAIN saved \ gone)
    BY ONLY RequestsAssumption, GuidsAssumption, <1>1, <1>3, <2>3, WholeBegins
  <2>5. Searching(list, FILTERS, <<First!EmptySchedule>>, First!NothingFound, "queue")
    BY <2>4, SearchBegins
  <2>6. DOMAIN saved \cap gone = gone
    OBVIOUS
  <2>7. outcome' = stub({<<"SCHED_3000", i>> : i \in gone})
    BY <1>1, <2>1, <2>6, WholeMissing
  <2>8. Awaits(outcome', list, saved, catalogue)
    BY <2>4, <2>7 DEF Awaits
  <2>. QED BY <1>1, <2>1, <2>2, <2>3, <2>5, <2>8 DEF RestoredInv
<1>. QED BY <1>4, <1>5

LEMMA ExpansionEnds ==
    ASSUME RestoredInv, expanded PROVE RestoredInv'
<1>1. /\ filters1 = FILTERS /\ Searching(courses1, FILTERS, queue1, found1, status1)
      /\ Awaits(outcome, courses1, saved, catalogue)
      /\ phase' = "expanded" /\ saved' = saved /\ catalogue' = catalogue
      /\ status1 \in {"done", "timed_out"}
      /\ outcome' = IF status1 = "timed_out" THEN [outcome EXCEPT !.error = "SCHED_2004"]
                    ELSE IF found1.schedule_sets = <<>> THEN [outcome EXCEPT !.error = "SCHED_2000"]
                    ELSE [outcome EXCEPT !.schedules = {First!ToSet(found1.schedule_sets[1][1].components)}]
  BY FirstToSet DEF RestoredInv, expanded, request, client
<1>2. PICK gone \in SUBSET DOMAIN saved :
        /\ outcome = stub({<<"SCHED_3000", i>> : i \in gone})
        /\ Restores(courses1, saved, catalogue, DOMAIN saved \ gone)
  BY <1>1 DEF Awaits
<1>3. PICK messages : messages = {<<"SCHED_3000", i>> : i \in gone}
  OBVIOUS
<1>4. outcome = [error |-> "none", messages |-> messages, schedules |-> {{}}]
  BY <1>2, <1>3 DEF stub
<1>5. /\ <<"SCHED_2003", "">> \notin messages
      /\ {i \in DOMAIN saved : <<"SCHED_3000", i>> \in messages} = gone
  BY <1>3
<1>6. PICK result : result = outcome'
  OBVIOUS
<1>7. PICK left : left = AllLeft(saved, catalogue, DOMAIN saved \ gone)
  OBVIOUS
<1>8. CASE status1 = "timed_out"
  <2>1. result.error = "SCHED_2004"
    BY <1>1, <1>4, <1>6, <1>8
  <2>. QED BY <1>1, <1>6, <2>1 DEF RestoredInv, ShownAgain
<1>9. CASE status1 = "done"
  <2>1. Combined(courses1) /\ Finished(found1, courses1, FILTERS)
    BY <1>1, <1>9 DEF Searching
  <2>2. PICK sets : sets = found1.schedule_sets
    OBVIOUS
  <2>3. /\ sets = <<>> => left = {}
        /\ sets # <<>> => ids(ToSet(sets[1][1].components)) = left
    BY <1>2, <1>7, <2>1, <2>2, FoundRestores
  <2>4. result.messages = messages
    BY <1>1, <1>4, <1>6, <1>9
  <2>5. CASE sets = <<>>
    <3>1. result.error = "SCHED_2000"
      BY <1>1, <1>4, <1>6, <1>9, <2>2, <2>5
    <3>2. ShownAgain(result, saved, catalogue)
      BY <1>5, <1>7, <2>3, <2>4, <2>5, <3>1 DEF ShownAgain
    <3>. QED BY <1>1, <1>6, <3>2 DEF RestoredInv
  <2>6. CASE sets # <<>>
    <3>1. result.error = "none" /\ result.schedules = {ToSet(sets[1][1].components)}
      BY <1>1, <1>4, <1>6, <1>9, <2>2, <2>6, FirstToSet
    <3>2. ids(UNION result.schedules) = left
      <4>1. UNION result.schedules = ToSet(sets[1][1].components)
        BY <3>1
      <4>. QED BY <2>3, <2>6, <4>1
    <3>3. ShownAgain(result, saved, catalogue)
      BY <1>5, <1>7, <2>4, <3>1, <3>2 DEF ShownAgain
    <3>. QED BY <1>1, <1>6, <3>3 DEF RestoredInv
  <2>. QED BY <2>5, <2>6
<1>. QED BY <1>1, <1>8, <1>9

LEMMA RestoredKept ==
    ASSUME RequestsAssumption, GuidsAssumption, SearchedInv, SavedInv, limit \in Nat \ {0}, RestoredInv,
           [RequestsNext]_allVars
    PROVE  RestoredInv'
<1>1. CASE expandScheduleSkeleton
  BY <1>1, ExpansionBegins
<1>2. CASE expanded
  BY <1>2, ExpansionEnds
<1>3. CASE firstGenerates /\ phase = "expanding"
  <2>1. /\ First!generate /\ phase' = phase /\ outcome' = outcome
        /\ saved' = saved /\ catalogue' = catalogue
    BY <1>3 DEF firstGenerates, request, client
  <2>2. Searching(courses1', filters1', queue1', found1', status1')
    BY <1>3, <2>1, GenerateKeeps DEF RestoredInv
  <2>3. filters1' = filters1 /\ courses1' = courses1
    BY <2>1 DEF First!generate, First!dequeue, First!timeOut, First!finish
  <2>. QED BY <1>3, <2>1, <2>2, <2>3 DEF RestoredInv
<1>4. CASE UNCHANGED allVars
  BY <1>4 DEF RestoredInv, allVars, request, client, firstVars
<1>5. CASE phase' \notin {"expanding", "expanded"}
  BY <1>5 DEF RestoredInv
<1>6. \/ expandScheduleSkeleton \/ expanded \/ (firstGenerates /\ phase = "expanding")
      \/ UNCHANGED allVars \/ phase' \notin {"expanding", "expanded"}
  BY DEF RequestsNext, generateSchedules, schedules_generate_v2, generateLocally, schedules_generate,
         firstGenerates, firstAnswers, draw, swapComponents, redraw, saveSchedule, timetableUpdated
<1>. QED BY <1>1, <1>2, <1>3, <1>4, <1>5, <1>6

LEMMA InvRestored == ASSUME RestoredInv PROVE SavedIsShownAgain
BY DEF RestoredInv, ShownAgain, AllLeft, Left, SavedIsShownAgain

\* What SavedIsShownAgain needs of the client.
ClientInv == AskedOnce => DrawnOnceInv /\ SavedInv /\ RestoredInv

\* If the page asked for every course once, a schedule that was drawn, changed by any number of
\* swaps, saved, and expanded after the timetable may have changed is shown again as it was
\* saved, less what the timetable no longer has or data access could not deliver; and the
\* expansion fails (SCHED_2000) only if nothing is left of it.
THEOREM SavedComesBack == RequestsSpec => [](AskedOnce => SavedIsShownAgain)
<1>1. RequestsInit => ClientInv
  BY DEF RequestsInit, ClientInv, DrawnOnceInv, SavedInv, RestoredInv
<1>2. AnsweredInv /\ limit \in Nat \ {0} /\ ClientInv /\ [RequestsNext]_allVars => ClientInv'
  <2> SUFFICES ASSUME AnsweredInv, limit \in Nat \ {0}, ClientInv, [RequestsNext]_allVars, AskedOnce'
               PROVE  (DrawnOnceInv /\ SavedInv /\ RestoredInv)'
    BY DEF ClientInv
  <2>1. AskedOnce
    <3>1. asked' = asked
      BY DEF RequestsNext, allVars, request, generateSchedules, schedules_generate_v2, generateLocally,
             schedules_generate, firstGenerates, firstAnswers, draw, swapComponents, redraw,
             saveSchedule, timetableUpdated, expandScheduleSkeleton, expanded
    <3>. QED BY <3>1 DEF AskedOnce
  <2>2. DrawnOnceInv /\ SavedInv /\ RestoredInv /\ SearchedInv
    BY <2>1 DEF ClientInv, AnsweredInv
  <2>3. DrawnOnceInv'
    BY <2>1, <2>2, RequestsAssumption, GuidsAssumption, DrawnOnceKept
  <2>4. SavedInv'
    BY <2>2, RequestsAssumption, GuidsAssumption, SavedKept
  <2>5. RestoredInv'
    BY <2>2, RequestsAssumption, GuidsAssumption, RestoredKept
  <2>. QED BY <2>3, <2>4, <2>5
<1>3. ClientInv => (AskedOnce => SavedIsShownAgain)
  BY InvRestored DEF ClientInv
<1>. QED BY <1>1, <1>2, <1>3, AnsweredAlways, LimitAlways, PTL DEF RequestsSpec

-----------------------------------------------------------------------------
(* Nothing twice                                                           *)

LEMMA SetToSeqOnce ==
    ASSUME NEW S, IsFiniteSet(S)
    PROVE  SetToSeq(S) \in Seq(S) /\ ToSet(SetToSeq(S)) = S /\ Once(SetToSeq(S))
<1>1. PICK n \in Nat : n = Cardinality(S)
  BY FS_CardinalityType
<1>2. PICK seq : seq = SetToSeq(S)
  OBVIOUS
<1>3. seq \in [1..n -> S] /\ IsInjective(seq)
  <2>1. ExistsBijection(1..n, S)
    BY <1>1, FS_CardinalityType
  <2>2. \E f \in [1..n -> S] : IsInjective(f)
    BY <2>1 DEF ExistsBijection, Bijection, Injection
  <2>. QED BY <1>1, <1>2, <2>2 DEF SetToSeq
<1>4. seq \in Injection(1..n, S)
  BY <1>3 DEF Injection
<1>5. seq \in Surjection(1..n, S)
  <2>1. IsFiniteSet(1..n) /\ Cardinality(1..n) = n
    BY FS_Interval
  <2>. QED BY <1>1, <1>4, <2>1, FS_Injection
<1>6. ToSet(seq) = S
  BY <1>3, <1>5 DEF Surjection, ToSet
<1>7. Once(seq)
  BY <1>3 DEF Once, IsInjective
<1>. QED BY <1>2, <1>3, <1>6, <1>7

LEMMA ConcatOnce ==
    ASSUME NEW P, NEW a \in Seq(P), NEW b \in Seq(P), Once(a), Once(b), ToSet(a) \cap ToSet(b) = {}
    PROVE  Once(a \o b)
<1>1. PICK c : c = a \o b
  OBVIOUS
<1>2. /\ DOMAIN a = 1..Len(a) /\ Len(a) \in Nat /\ DOMAIN b = 1..Len(b) /\ Len(b) \in Nat
      /\ DOMAIN c = 1..(Len(a) + Len(b))
      /\ \A i \in DOMAIN a : i \in DOMAIN c /\ c[i] = a[i]
      /\ \A i \in DOMAIN b : Len(a) + i \in DOMAIN c /\ c[Len(a) + i] = b[i]
      /\ \A i \in DOMAIN c : i \in DOMAIN a \/ i - Len(a) \in DOMAIN b
  BY <1>1, ConcatMembers
<1>3. ASSUME NEW i \in DOMAIN c, i - Len(a) \in DOMAIN b PROVE c[i] = b[i - Len(a)]
  <2>1. Len(a) + (i - Len(a)) = i
    BY <1>2
  <2>. QED BY <1>2, <1>3, <2>1
<1>4. ASSUME NEW i \in DOMAIN a, NEW k \in DOMAIN b PROVE a[i] # b[k]
  BY DEF ToSet
<1>5. ASSUME NEW i \in DOMAIN c, NEW k \in DOMAIN c, c[i] = c[k] PROVE i = k
  <2>1. CASE i \in DOMAIN a /\ k \in DOMAIN a
    BY <1>2, <1>5, <2>1 DEF Once
  <2>2. CASE i \in DOMAIN a /\ k - Len(a) \in DOMAIN b
    BY <1>2, <1>3, <1>4, <1>5, <2>2
  <2>3. CASE i - Len(a) \in DOMAIN b /\ k \in DOMAIN a
    BY <1>2, <1>3, <1>4, <1>5, <2>3
  <2>4. CASE i - Len(a) \in DOMAIN b /\ k - Len(a) \in DOMAIN b
    <3>1. i - Len(a) = k - Len(a)
      BY <1>3, <1>5, <2>4 DEF Once
    <3>. QED BY <1>2, <3>1
  <2>. QED BY <1>2, <2>1, <2>2, <2>3, <2>4
<1>. QED BY <1>1, <1>5 DEF Once

\* What is flattened has nothing twice if its parts do not and share nothing.
LEMMA FlattenOnce ==
    ASSUME NEW P, NEW ch \in Seq(Seq(P)), \A i \in DOMAIN ch : Once(ch[i]),
           \A i, k \in DOMAIN ch : i # k => ToSet(ch[i]) \cap ToSet(ch[k]) = {}
    PROVE  Once(FlattenSeq(ch))
<1>. PICK n \in Nat : n = Len(ch) /\ DOMAIN ch = 1..n
  OBVIOUS
<1>1. PICK f : Steps(f, n, P, ch) /\ FlattenSeq(ch) = f[n]
  BY FlattenSteps
<1> DEFINE I == {m \in Nat : m <= n => /\ Once(f[m])
                                       /\ ToSet(f[m]) = UNION {ToSet(ch[i]) : i \in 1..m}}
<1>2. 0 \in I
  <2>1. f[0] = <<>>
    BY <1>1 DEF Steps
  <2>2. ToSet(<<>>) = {} /\ Once(<<>>)
    BY DEF ToSet, Once
  <2>. QED BY <2>1, <2>2
<1>3. ASSUME NEW m \in Nat, m \in I PROVE m + 1 \in I
  <2> SUFFICES ASSUME m + 1 <= n
               PROVE  /\ Once(f[m + 1])
                      /\ ToSet(f[m + 1]) = UNION {ToSet(ch[i]) : i \in 1..(m + 1)}
    OBVIOUS
  <2>1. PICK a \in Seq(P), b \in Seq(P) : a = f[m] /\ b = ch[m + 1]
    <3>1. m \in 0..n /\ m + 1 \in DOMAIN ch
      OBVIOUS
    <3>2. f[m] \in Seq(P)
      BY <1>1, <3>1 DEF Steps
    <3>3. ch[m + 1] \in Seq(P)
      BY <3>1
    <3>. QED BY <3>2, <3>3
  <2>2. f[m + 1] = a \o b
    <3>1. m + 1 \in 1..n /\ (m + 1) - 1 = m
      OBVIOUS
    <3>. QED BY <1>1, <2>1, <3>1 DEF Steps
  <2>3. ToSet(f[m + 1]) = ToSet(a) \cup ToSet(b)
    BY <2>2, MembersOfConcat
  <2>4. Once(a) /\ ToSet(a) = UNION {ToSet(ch[i]) : i \in 1..m}
    BY <1>3, <2>1
  <2>5. 1..(m + 1) = 1..m \cup {m + 1}
    OBVIOUS
  <2>6. Once(b) /\ ToSet(a) \cap ToSet(b) = {}
    <3>1. m + 1 \in 1..n /\ \A i \in 1..m : i \in 1..n /\ i # m + 1
      OBVIOUS
    <3>2. \A i \in 1..m : ToSet(ch[i]) \cap ToSet(b) = {}
      BY <2>1, <3>1
    <3>3. Once(b)
      BY <2>1, <3>1
    <3>. QED BY <2>4, <3>2, <3>3
  <2>7. Once(f[m + 1])
    BY <2>2, <2>4, <2>6, ConcatOnce
  <2>. QED BY <2>1, <2>3, <2>4, <2>5, <2>7
<1> HIDE DEF I
<1>4. n \in I
  BY <1>2, <1>3, SetInduction
<1>. QED BY <1>1, <1>4 DEF I

\* Counting the places of a list without repetitions is counting its members.
LEMMA CountOnce ==
    ASSUME NEW P, NEW cs \in Seq(P), Once(cs), NEW E
    PROVE  /\ IsFiniteSet({x \in ToSet(cs) : x \in E})
           /\ Cardinality({i \in DOMAIN cs : cs[i] \in E}) = Cardinality({x \in ToSet(cs) : x \in E})
<1> DEFINE I == {i \in DOMAIN cs : cs[i] \in E}
           X == {x \in ToSet(cs) : x \in E}
           f == [i \in I |-> cs[i]]
<1>1. IsFiniteSet(I)
  <2>1. IsFiniteSet(1..Len(cs)) /\ I \subseteq 1..Len(cs)
    BY FS_Interval
  <2>. QED BY <2>1, FS_Subset
<1>2. f \in Bijection(I, X)
  <2>1. \A i \in I : cs[i] \in X
    BY DEF ToSet
  <2>2. \A x \in X : \E i \in I : cs[i] = x
    BY DEF ToSet
  <2>3. \A i, k \in I : f[i] = f[k] => i = k
    BY DEF Once
  <2>. QED BY <2>1, <2>2, <2>3 DEF Bijection, Injection, Surjection, IsInjective
<1>. QED BY <1>1, <1>2, FS_Bijection DEF ExistsBijection

-----------------------------------------------------------------------------
(* The two generators: slots, and components that fill them                *)

\* A component of the first generator is one of the alternates of a slot of the second.
Fills(c, slot) ==
    c.id \in slot.components /\ sameSlot(c, slot) /\ (slot.all_are_closed => c.closed)

\* Every slot has one component.
Attends(T, S) ==
    /\ \A c \in T : \E slot \in S : Fills(c, slot)
    /\ \A slot \in S : \E c \in T : Fills(c, slot)
    /\ \A c, d \in T : \A slot \in S : Fills(c, slot) /\ Fills(d, slot) => c = d
    /\ \A c \in T : \A s, t \in S : Fills(c, s) /\ Fills(c, t) => s = t

\* Closed ones are taken only where there is no other.
PrefersOpen(T, S) ==
    \A c \in T : \A slot \in S : Fills(c, slot) /\ c.closed => slot.all_are_closed

\* Those of a set with such times.
At(T, E, F) == {c \in T : c.start \in E /\ c.end \in F}

LEMMA AttendsEach ==
    ASSUME NEW T, NEW S, Attends(T, S), NEW E, NEW F, IsFiniteSet(At(S, E, F))
    PROVE  Cardinality(At(T, E, F)) = Cardinality(At(S, E, F))
<1> DEFINE X == {c \in T : c.start \in E /\ c.end \in F}
           Y == {slot \in S : slot.start \in E /\ slot.end \in F}
           f == [slot \in Y |-> CHOOSE c \in T : Fills(c, slot)]
<1>1. \A slot \in Y : f[slot] \in T /\ Fills(f[slot], slot)
  BY DEF Attends
<1>2. \A slot \in Y : f[slot] \in X
  BY <1>1 DEF Fills, sameSlot
<1>3. \A a, b \in Y : f[a] = f[b] => a = b
  BY <1>1 DEF Attends
<1>4. ASSUME NEW c \in X PROVE \E slot \in Y : f[slot] = c
  <2>1. PICK slot \in S : Fills(c, slot)
    BY DEF Attends
  <2>2. slot \in Y
    BY <2>1 DEF Fills, sameSlot
  <2>. QED BY <1>1, <2>1, <2>2 DEF Attends
<1>5. DOMAIN f = Y /\ f = [slot \in Y |-> f[slot]]
  OBVIOUS
<1> HIDE DEF f, X, Y
<1>6. f \in [Y -> X]
  BY <1>2, <1>5
<1>7. f \in Bijection(Y, X)
  BY <1>3, <1>4, <1>6 DEF Bijection, Injection, Surjection, IsInjective
<1>8. IsFiniteSet(Y)
  BY DEF Y, At
<1>9. Cardinality(X) = Cardinality(Y)
  BY <1>7, <1>8, FS_Bijection DEF ExistsBijection
<1>. QED BY <1>9 DEF X, Y, At

\* A list of components and one of slots that mean the same.
Corresponds(cs, sl) ==
    /\ cs \in Seq(ToSet(cs)) /\ Timed(ToSet(cs)) /\ Once(cs)
    /\ sl \in Seq(ToSet(sl)) /\ Timed(ToSet(sl)) /\ Once(sl)
    /\ Attends(ToSet(cs), ToSet(sl))

LEMMA SameCosts ==
    ASSUME NEW cs, NEW sl, Corresponds(cs, sl), NEW f
    PROVE  beforeStart(cs, f) = beforeStart(sl, f) /\ afterEnd(cs, f) = afterEnd(sl, f)
<1> DEFINE B == {n \in Nat : f.before # NoTime /\ f.before > n}
           A == {n \in Nat : f.after # NoTime /\ f.after < n}
<1>0. \A n \in Nat : (n \in B <=> f.before # NoTime /\ f.before > n) /\ (n \in A <=> f.after # NoTime /\ f.after < n)
  OBVIOUS
<1> HIDE DEF A, B
<1> DEFINE X(T) == At(T, B, Nat)
           Y(T) == At(T, Nat, A)
<1>1. ASSUME NEW list, list \in Seq(ToSet(list)), Timed(ToSet(list)), Once(list)
      PROVE  /\ IsFiniteSet(X(ToSet(list))) /\ beforeStart(list, f) = Cardinality(X(ToSet(list)))
             /\ IsFiniteSet(Y(ToSet(list))) /\ afterEnd(list, f) = Cardinality(Y(ToSet(list)))
  <2>. PICK P, E, F : P = ToSet(list) /\ E = X(P) /\ F = Y(P)
    OBVIOUS
  <2>1. \A i \in DOMAIN list : list[i] \in P /\ list[i].start \in Nat /\ list[i].end \in Nat
    BY <1>1 DEF Timed, ToSet
  <2>2. \A i \in DOMAIN list : list[i] \in E <=> f.before # NoTime /\ f.before > list[i].start
    BY <1>0, <2>1 DEF At
  <2>3. \A i \in DOMAIN list : list[i] \in F <=> f.after # NoTime /\ f.after < list[i].end
    BY <1>0, <2>1 DEF At
  <2>4. E \subseteq P /\ F \subseteq P
    BY DEF At
  <2> HIDE DEF X, Y
  <2>5. {x \in ToSet(list) : x \in E} = E /\ {x \in ToSet(list) : x \in F} = F
    BY <2>4
  <2>6. /\ {i \in DOMAIN list : f.before # NoTime /\ f.before > list[i].start} = {i \in DOMAIN list : list[i] \in E}
        /\ {i \in DOMAIN list : f.after # NoTime /\ f.after < list[i].end} = {i \in DOMAIN list : list[i] \in F}
    BY <2>2, <2>3
  <2>7. list \in Seq(P) /\ Once(list)
    BY <1>1
  <2>8. /\ IsFiniteSet({x \in ToSet(list) : x \in E})
        /\ Cardinality({i \in DOMAIN list : list[i] \in E}) = Cardinality({x \in ToSet(list) : x \in E})
    BY ONLY <2>7, CountOnce
  <2>9. /\ IsFiniteSet({x \in ToSet(list) : x \in F})
        /\ Cardinality({i \in DOMAIN list : list[i] \in F}) = Cardinality({x \in ToSet(list) : x \in F})
    BY ONLY <2>7, CountOnce
  <2>10. /\ IsFiniteSet(E) /\ beforeStart(list, f) = Cardinality(E)
         /\ IsFiniteSet(F) /\ afterEnd(list, f) = Cardinality(F)
    BY ONLY <2>5, <2>6, <2>8, <2>9 DEF beforeStart, afterEnd
  <2>. QED BY <2>10
<1>2. PICK T, S : T = ToSet(cs) /\ S = ToSet(sl)
  OBVIOUS
<1>3. /\ IsFiniteSet(X(S)) /\ IsFiniteSet(Y(S))
      /\ beforeStart(cs, f) = Cardinality(X(T)) /\ afterEnd(cs, f) = Cardinality(Y(T))
      /\ beforeStart(sl, f) = Cardinality(X(S)) /\ afterEnd(sl, f) = Cardinality(Y(S))
  BY <1>1, <1>2 DEF Corresponds
<1>4. Attends(T, S)
  BY <1>2 DEF Corresponds
<1>5. Cardinality(X(T)) = Cardinality(X(S)) /\ Cardinality(Y(T)) = Cardinality(Y(S))
  BY <1>3, <1>4, AttendsEach
<1>. QED BY <1>3, <1>5

LEMMA SameSlots ==
    ASSUME NEW T, NEW S, Attends(T, S) PROVE First!slots(T) = First!slots(S)
<1>1. \A c, slot : Fills(c, slot) => First!slot(c) = First!slot(slot)
  BY DEF Fills, sameSlot, First!slot
<1>2. \A c \in T : \E slot \in S : First!slot(c) = First!slot(slot)
  BY <1>1 DEF Attends
<1>3. \A slot \in S : \E c \in T : First!slot(c) = First!slot(slot)
  BY <1>1 DEF Attends
<1>. QED BY <1>2, <1>3 DEF First!slots

\* No two of a set are in conflict.
FreeSet(X, f) == \A x, y \in X : x # y => ~conflict(x, y, f)

LEMMA SameFree ==
    ASSUME NEW T, NEW S, Attends(T, S), NEW f PROVE FreeSet(T, f) <=> FreeSet(S, f)
<1>1. \A c, d, s, t : Fills(c, s) /\ Fills(d, t) => (conflict(c, d, f) <=> conflict(s, t, f))
  BY DEF Fills, sameSlot, conflict, hasTimeOverlap
<1>2. ASSUME FreeSet(S, f), NEW c \in T, NEW d \in T, c # d PROVE ~conflict(c, d, f)
  <2>1. PICK s \in S, t \in S : Fills(c, s) /\ Fills(d, t)
    BY DEF Attends
  <2>2. s # t
    BY <1>2, <2>1 DEF Attends
  <2>. QED BY <1>1, <1>2, <2>1, <2>2 DEF FreeSet
<1>3. ASSUME FreeSet(T, f), NEW s \in S, NEW t \in S, s # t PROVE ~conflict(s, t, f)
  <2>1. PICK c \in T, d \in T : Fills(c, s) /\ Fills(d, t)
    BY DEF Attends
  <2>2. c # d
    BY <1>3, <2>1 DEF Attends
  <2>. QED BY <1>1, <1>3, <2>1, <2>2 DEF FreeSet
<1>. QED BY <1>2, <1>3 DEF FreeSet

LEMMA FreeIsSet ==
    ASSUME NEW sl, Once(sl), NEW f PROVE Free(sl, f) <=> FreeSet(ToSet(sl), f)
BY DEF Free, FreeSet, Once, ToSet

\* canAddComponent for all of them, one after the other.
LEMMA AddableIsSet ==
    ASSUME NEW cs, cs \in Seq(ToSet(cs)), Timed(ToSet(cs)), Once(cs), NEW f,
           f.conflicts \in {"ALL", "NON_LEC", "NONE"}
    PROVE  First!canAddCombination(<<>>, cs, f)
              <=> /\ \A c \in ToSet(cs) : f.allow_closed \/ ~c.closed
                  /\ FreeSet(ToSet(cs), f)
<1> DEFINE before(i) == {cs[k] : k \in 1..(i - 1)}
<1>1. DOMAIN cs = 1..Len(cs) /\ Len(cs) \in Nat
  OBVIOUS
<1>2. First!ToSet(<<>>) = {}
  BY DEF First!ToSet
<1>3. First!canAddCombination(<<>>, cs, f)
        <=> \A i \in DOMAIN cs : First!canAddComponent(before(i), cs[i], f)
  <2>1. \A i : First!ToSet(<<>>) \cup before(i) = before(i)
    BY <1>2
  <2>2. First!canAddCombination(<<>>, cs, f)
          <=> \A i \in DOMAIN cs : First!canAddComponent(First!ToSet(<<>>) \cup before(i), cs[i], f)
    BY DEF First!canAddCombination
  <2> HIDE DEF before
  <2>. QED BY <2>1, <2>2
<1>4. \A i \in DOMAIN cs : First!canAddComponent(before(i), cs[i], f)
        <=> (f.allow_closed \/ ~cs[i].closed) /\ \A k \in 1..(i - 1) : ~conflict(cs[k], cs[i], f)
  <2> SUFFICES ASSUME NEW i \in DOMAIN cs
               PROVE  First!canAddComponent(before(i), cs[i], f)
                        <=> /\ f.allow_closed \/ ~cs[i].closed
                            /\ \A k \in 1..(i - 1) : ~conflict(cs[k], cs[i], f)
    OBVIOUS
  <2>1. ASSUME NEW d
        PROVE  (d.day = cs[i].day /\ First!hasTimeOverlap(d, cs[i]) =>
                   /\ f.conflicts # "NONE"
                   /\ f.conflicts = "NON_LEC" => d.type # "LEC" \/ cs[i].type # "LEC")
               <=> ~conflict(d, cs[i], f)
    BY DEF conflict, hasTimeOverlap, First!hasTimeOverlap
  <2>2. First!canAddComponent(before(i), cs[i], f)
          <=> (f.allow_closed \/ ~cs[i].closed) /\ \A d \in before(i) : ~conflict(d, cs[i], f)
    BY <2>1 DEF First!canAddComponent
  <2>. QED BY <2>2
<1> HIDE DEF before
<1>5. (\A i \in DOMAIN cs : \A k \in 1..(i - 1) : ~conflict(cs[k], cs[i], f)) <=> FreeSet(ToSet(cs), f)
  <2>1. ASSUME FreeSet(ToSet(cs), f), NEW i \in DOMAIN cs, NEW k \in 1..(i - 1)
        PROVE  ~conflict(cs[k], cs[i], f)
    <3>1. k \in DOMAIN cs /\ k # i
      BY <1>1
    <3>. QED BY <2>1, <3>1 DEF FreeSet, Once, ToSet
  <2>2. ASSUME \A i \in DOMAIN cs : \A k \in 1..(i - 1) : ~conflict(cs[k], cs[i], f),
               NEW x \in ToSet(cs), NEW y \in ToSet(cs), x # y
        PROVE  ~conflict(x, y, f)
    <3>1. PICK i \in DOMAIN cs, k \in DOMAIN cs : x = cs[i] /\ y = cs[k]
      BY DEF ToSet
    <3>2. i # k
      BY <2>2, <3>1
    <3>3. CASE k \in 1..(i - 1)
      BY <2>2, <3>1, <3>3, ConflictSymmetric
    <3>4. CASE i \in 1..(k - 1)
      BY <2>2, <3>1, <3>4
    <3>. QED BY <1>1, <3>2, <3>3, <3>4
  <2>. QED BY <2>1, <2>2 DEF FreeSet
<1>6. (\A c \in ToSet(cs) : f.allow_closed \/ ~c.closed) <=> \A i \in DOMAIN cs : f.allow_closed \/ ~cs[i].closed
  BY DEF ToSet
<1>. QED BY <1>3, <1>4, <1>5, <1>6

-----------------------------------------------------------------------------
(* The two generators: what the filters admit                              *)

\* hasBreak, of a set.
BreakIn(X, day, brk) ==
    \/ \A x \in X : ~(x.day = day /\ x.end > brk.start /\ x.start < brk.end)
    \/ \E t \in brk.start..(brk.end - brk.size) :
        \A x \in X : x.day = day => x.end <= t \/ x.start >= t + brk.size

LEMMA BreakIsIn ==
    ASSUME NEW cs, NEW day, NEW brk PROVE hasBreak(cs, day, brk) <=> BreakIn(ToSet(cs), day, brk)
<1>1. inRange(cs, day, brk) = {}
        <=> \A x \in ToSet(cs) : ~(x.day = day /\ x.end > brk.start /\ x.start < brk.end)
  BY DEF inRange, ToSet
<1>2. ASSUME NEW t
      PROVE  (\A i \in DOMAIN cs : cs[i].day = day => cs[i].end <= t \/ cs[i].start >= t + brk.size)
               <=> \A x \in ToSet(cs) : x.day = day => x.end <= t \/ x.start >= t + brk.size
  BY DEF ToSet
<1>. QED BY <1>1, <1>2 DEF hasBreak, BreakIn

LEMMA SameBreak ==
    ASSUME NEW T, NEW S, Attends(T, S), NEW day, NEW brk
    PROVE  BreakIn(T, day, brk) <=> BreakIn(S, day, brk)
<1>1. \A c \in T : \E slot \in S : c.day = slot.day /\ c.start = slot.start /\ c.end = slot.end
  BY DEF Attends, Fills, sameSlot
<1>2. \A slot \in S : \E c \in T : c.day = slot.day /\ c.start = slot.start /\ c.end = slot.end
  BY DEF Attends, Fills, sameSlot
<1>3. ASSUME NEW X, NEW Y, BreakIn(X, day, brk),
             \A y \in Y : \E x \in X : y.day = x.day /\ y.start = x.start /\ y.end = x.end
      PROVE  BreakIn(Y, day, brk)
  <2>1. CASE \A x \in X : ~(x.day = day /\ x.end > brk.start /\ x.start < brk.end)
    <3>1. \A y \in Y : ~(y.day = day /\ y.end > brk.start /\ y.start < brk.end)
      BY <1>3, <2>1
    <3>. QED BY <3>1 DEF BreakIn
  <2>2. ASSUME NEW t \in brk.start..(brk.end - brk.size),
               \A x \in X : x.day = day => x.end <= t \/ x.start >= t + brk.size
        PROVE  BreakIn(Y, day, brk)
    <3>1. \A y \in Y : y.day = day => y.end <= t \/ y.start >= t + brk.size
      BY <1>3, <2>2
    <3>. QED BY <3>1 DEF BreakIn
  <2>. QED BY <1>3, <2>1, <2>2 DEF BreakIn
<1>. QED BY <1>1, <1>2, <1>3

\* What either generator asks of all the components of a schedule.
FirstAdmits(cs, f) == First!canAddCombination(<<>>, cs, f) /\ First!checkFilters(cs, f)
Admits(sl, f) ==
    /\ Open(sl, f) /\ Free(sl, f)
    /\ \A brk \in f.breaks, i \in DOMAIN sl : hasBreak(sl, sl[i].day, brk)

\* Exact, for the slots of one schedule.
ExactFor(S, f) == f.breaks = {} \/ (f.conflicts = "NONE" /\ \A x \in S : x.start < x.end)

FilterOf(f) == IsFilter(f) /\ f.conflicts \in {"ALL", "NON_LEC", "NONE"}

LEMMA FirstBreak ==
    ASSUME NEW cs, NEW day, NEW brk PROVE First!breakOnDay(cs, day, brk) = breakOnDay(cs, day, brk)
BY DEF First!breakOnDay, breakOnDay, First!inRange, inRange, First!isLast, isLast,
       First!visitedBefore, visitedBefore

\* Both filters on breaks mean a free period.
LEMMA FirstBreaks ==
    ASSUME NEW cs, cs \in Seq(ToSet(cs)), Timed(ToSet(cs)), Once(cs), NEW f, FilterOf(f),
           ExactFor(ToSet(cs), f), FreeSet(ToSet(cs), f)
    PROVE  (\A brk \in f.breaks, day \in {c.day : c \in ToSet(cs)} : breakOnDay(cs, day, brk))
             <=> \A brk \in f.breaks, c \in ToSet(cs) : BreakIn(ToSet(cs), c.day, brk)
<1>1. CASE f.breaks = {}
  BY <1>1
<1>2. CASE f.conflicts = "NONE" /\ \A x \in ToSet(cs) : x.start < x.end
  <2>1. InARow(cs)
    <3>1. \A i \in DOMAIN cs : cs[i] \in ToSet(cs)
      BY DEF ToSet
    <3>2. ASSUME NEW i \in DOMAIN cs, NEW k \in DOMAIN cs, i # k, cs[i].day = cs[k].day
          PROVE  ~hasTimeOverlap(cs[i], cs[k])
      <4>1. cs[i] # cs[k]
        BY <3>2 DEF Once
      <4>2. ~conflict(cs[i], cs[k], f)
        BY <3>1, <4>1 DEF FreeSet
      <4>. QED BY <1>2, <3>2, <4>2 DEF conflict
    <3>. QED BY <1>2, <3>1, <3>2 DEF InARow
  <2>2. PICK P : P = ToSet(cs)
    OBVIOUS
  <2>3. \A brk \in f.breaks : IsBreak(brk)
    BY DEF FilterOf, IsFilter
  <2>4. ASSUME NEW brk \in f.breaks, NEW day PROVE breakOnDay(cs, day, brk) <=> hasBreak(cs, day, brk)
    <3>1. Timed(P) /\ cs \in Seq(P) /\ IsBreak(brk)
      BY <2>2, <2>3
    <3>. QED BY ONLY <2>1, <3>1, BreakFound, BreakMeant
  <2>5. ASSUME NEW brk \in f.breaks, NEW day PROVE breakOnDay(cs, day, brk) <=> BreakIn(P, day, brk)
    BY <2>2, <2>4, BreakIsIn
  <2>. QED BY <2>2, <2>5
<1>. QED BY <1>1, <1>2 DEF ExactFor

LEMMA FirstAdmitsSet ==
    ASSUME NEW cs, cs \in Seq(ToSet(cs)), Timed(ToSet(cs)), Once(cs), NEW f, FilterOf(f),
           ExactFor(ToSet(cs), f)
    PROVE  FirstAdmits(cs, f)
             <=> /\ \A c \in ToSet(cs) : f.allow_closed \/ ~c.closed
                 /\ FreeSet(ToSet(cs), f)
                 /\ \A brk \in f.breaks, c \in ToSet(cs) : BreakIn(ToSet(cs), c.day, brk)
<1>1. First!canAddCombination(<<>>, cs, f)
        <=> /\ \A c \in ToSet(cs) : f.allow_closed \/ ~c.closed
            /\ FreeSet(ToSet(cs), f)
  BY AddableIsSet DEF FilterOf
<1>2. First!checkFilters(cs, f)
        <=> /\ f.allow_closed \/ \A c \in ToSet(cs) : ~c.closed
            /\ \A brk \in f.breaks, day \in {c.day : c \in ToSet(cs)} : breakOnDay(cs, day, brk)
  BY FirstToSet, FirstBreak DEF First!checkFilters
<1>. QED BY <1>1, <1>2, FirstBreaks DEF FirstAdmits

LEMMA AdmitsSet ==
    ASSUME NEW sl, Once(sl), NEW f
    PROVE  Admits(sl, f)
             <=> /\ \A slot \in ToSet(sl) : f.allow_closed \/ ~slot.all_are_closed
                 /\ FreeSet(ToSet(sl), f)
                 /\ \A brk \in f.breaks, slot \in ToSet(sl) : BreakIn(ToSet(sl), slot.day, brk)
<1>1. Open(sl, f) <=> \A slot \in ToSet(sl) : f.allow_closed \/ ~slot.all_are_closed
  BY DEF Open, ToSet
<1>2. (\A brk \in f.breaks, i \in DOMAIN sl : hasBreak(sl, sl[i].day, brk))
        <=> \A brk \in f.breaks, slot \in ToSet(sl) : BreakIn(ToSet(sl), slot.day, brk)
  <2>1. \A brk, day : hasBreak(sl, day, brk) <=> BreakIn(ToSet(sl), day, brk)
    BY BreakIsIn
  <2>2. PICK S : S = ToSet(sl)
    OBVIOUS
  <2>3. S = {sl[i] : i \in DOMAIN sl}
    BY <2>2 DEF ToSet
  <2>. QED BY <2>1, <2>2, <2>3
<1>. QED BY <1>1, <1>2, FreeIsSet DEF Admits

\* What one generator admits the other does, if what is closed is only taken for want of
\* an alternate.
LEMMA SameAdmitted ==
    ASSUME NEW cs, NEW sl, Corresponds(cs, sl), NEW f, FilterOf(f), ExactFor(ToSet(sl), f)
    PROVE  /\ FirstAdmits(cs, f) => Admits(sl, f)
           /\ Admits(sl, f) /\ PrefersOpen(ToSet(cs), ToSet(sl)) => FirstAdmits(cs, f)
<1>. PICK T, S : T = ToSet(cs) /\ S = ToSet(sl)
  OBVIOUS
<1>1. Attends(T, S)
  BY DEF Corresponds
<1>2. ExactFor(T, f)
  <2>1. (\A x \in S : x.start < x.end) => \A x \in T : x.start < x.end
    BY <1>1 DEF Attends, Fills, sameSlot
  <2>. QED BY <2>1 DEF ExactFor
<1>3. FirstAdmits(cs, f)
        <=> /\ \A c \in T : f.allow_closed \/ ~c.closed
            /\ FreeSet(T, f)
            /\ \A brk \in f.breaks, c \in T : BreakIn(T, c.day, brk)
  BY <1>2, FirstAdmitsSet DEF Corresponds
<1>4. Admits(sl, f)
        <=> /\ \A slot \in S : f.allow_closed \/ ~slot.all_are_closed
            /\ FreeSet(S, f)
            /\ \A brk \in f.breaks, slot \in S : BreakIn(S, slot.day, brk)
  BY AdmitsSet DEF Corresponds
<1>5. FreeSet(T, f) <=> FreeSet(S, f)
  BY <1>1, SameFree
<1>6. \A day, brk : BreakIn(T, day, brk) <=> BreakIn(S, day, brk)
  BY <1>1, SameBreak
<1>7. /\ \A c \in T : \E slot \in S : Fills(c, slot) /\ c.day = slot.day
      /\ \A slot \in S : \E c \in T : Fills(c, slot) /\ c.day = slot.day
  BY <1>1 DEF Attends, Fills, sameSlot
<1>8. (\A brk \in f.breaks, c \in T : BreakIn(T, c.day, brk))
        <=> \A brk \in f.breaks, slot \in S : BreakIn(S, slot.day, brk)
  BY <1>6, <1>7
<1>9. (\A c \in T : f.allow_closed \/ ~c.closed) => \A slot \in S : f.allow_closed \/ ~slot.all_are_closed
  BY <1>7 DEF Fills
<1>10. PrefersOpen(T, S) /\ (\A slot \in S : f.allow_closed \/ ~slot.all_are_closed)
         => \A c \in T : f.allow_closed \/ ~c.closed
  BY <1>7 DEF PrefersOpen
<1>. QED BY <1>3, <1>4, <1>5, <1>8, <1>9, <1>10

-----------------------------------------------------------------------------
(* The two generators: ways to take a section                              *)

\* All the lectures and one of every other type.
IsPick(U, all) ==
    /\ U \subseteq all
    /\ \A c \in all : c.type = "LEC" => c \in U
    /\ \A c \in all : c.type # "LEC" => \E d \in U : d.type = c.type
    /\ \A c, d \in U : c.type = d.type /\ c.type # "LEC" => c = d

Lectures(all) == {c \in all : c.type = "LEC"}
OtherTypes(all) == {c.type : c \in all \ Lectures(all)}
PicksOf(all) == {p \in [OtherTypes(all) -> all] : \A t \in OtherTypes(all) : p[t].type = t}
PickedBy(p, all) == {p[t] : t \in OtherTypes(all)}

LEMMA PickedIs ==
    ASSUME NEW all, NEW p \in PicksOf(all)
    PROVE  /\ IsPick(PickedBy(p, all) \cup Lectures(all), all)
           /\ PickedBy(p, all) \cap Lectures(all) = {}
<1>1. \A t \in OtherTypes(all) : p[t] \in all /\ p[t].type = t /\ t # "LEC"
  BY DEF PicksOf, OtherTypes, Lectures
<1>2. PickedBy(p, all) \subseteq all /\ PickedBy(p, all) \cap Lectures(all) = {}
  BY <1>1 DEF PickedBy, Lectures
<1>3. \A c \in all : c.type # "LEC" => p[c.type] \in PickedBy(p, all) /\ p[c.type].type = c.type
  BY <1>1 DEF PickedBy, OtherTypes, Lectures
<1>4. \A c, d \in PickedBy(p, all) : c.type = d.type => c = d
  BY <1>1 DEF PickedBy
<1>5. \A c \in PickedBy(p, all) \cup Lectures(all) : c.type # "LEC" => c \in PickedBy(p, all)
  BY DEF Lectures
<1>6. Lectures(all) \subseteq all /\ \A c \in all : c.type = "LEC" => c \in Lectures(all)
  BY DEF Lectures
<1>. QED BY <1>2, <1>3, <1>4, <1>5, <1>6 DEF IsPick

LEMMA PickHas ==
    ASSUME NEW all, NEW U, IsPick(U, all)
    PROVE  \E p \in PicksOf(all) : U = PickedBy(p, all) \cup Lectures(all)
<1> DEFINE p == [t \in OtherTypes(all) |-> CHOOSE d \in U : d.type = t]
<1>1. \A t \in OtherTypes(all) : t # "LEC" /\ p[t] \in U /\ p[t].type = t
  BY DEF IsPick, OtherTypes, Lectures
<1>2. U \subseteq all
  BY DEF IsPick
<1>3. p \in PicksOf(all)
  BY <1>1, <1>2 DEF PicksOf
<1>4. ASSUME NEW c \in U, c.type # "LEC" PROVE c \in PickedBy(p, all)
  <2>1. c.type \in OtherTypes(all)
    BY <1>2, <1>4 DEF OtherTypes, Lectures
  <2>2. p[c.type] = c
    BY <1>1, <1>4, <2>1 DEF IsPick
  <2>. QED BY <2>1, <2>2 DEF PickedBy
<1>5. PickedBy(p, all) \subseteq U /\ Lectures(all) \subseteq U
  BY <1>1 DEF PickedBy, Lectures, IsPick
<1>6. \A c \in U : c.type = "LEC" => c \in Lectures(all)
  BY <1>2 DEF Lectures
<1> HIDE DEF p
<1>. QED BY <1>3, <1>4, <1>5, <1>6

LEMMA PicksFinite ==
    ASSUME NEW all, IsFiniteSet(all)
    PROVE  /\ IsFiniteSet(PicksOf(all)) /\ IsFiniteSet(Lectures(all))
           /\ \A p \in PicksOf(all) : IsFiniteSet(PickedBy(p, all))
<1>1. IsFiniteSet(Lectures(all)) /\ IsFiniteSet(all \ Lectures(all))
  BY FS_Subset DEF Lectures
<1>2. IsFiniteSet(OtherTypes(all))
  <2>1. [c \in all \ Lectures(all) |-> c.type] \in Surjection(all \ Lectures(all), OtherTypes(all))
    BY DEF Surjection, OtherTypes
  <2>. QED BY <1>1, <2>1, FS_Surjection
<1>3. IsFiniteSet(PicksOf(all))
  <2>1. PicksOf(all) \in SUBSET [OtherTypes(all) -> all]
    BY DEF PicksOf
  <2>. QED BY <1>2, <2>1, FunctionsFinite
<1>4. ASSUME NEW p \in PicksOf(all) PROVE IsFiniteSet(PickedBy(p, all))
  <2>1. PickedBy(p, all) \subseteq all
    BY DEF PickedBy, PicksOf
  <2>. QED BY <2>1, FS_Subset
<1>. QED BY <1>1, <1>3, <1>4

\* Two lists of what is picked, one after the other.
LEMMA PickLists ==
    ASSUME NEW all, NEW p \in PicksOf(all), NEW a, NEW b,
           Lists(a, PickedBy(p, all)), Lists(b, Lectures(all))
    PROVE  Lists(a \o b, PickedBy(p, all) \cup Lectures(all))
<1>. PICK A, B, P : A = PickedBy(p, all) /\ B = Lectures(all) /\ P = A \cup B
  OBVIOUS
<1>1. A \cap B = {}
  BY PickedIs
<1>2. a \in Seq(P) /\ b \in Seq(P) /\ ToSet(a) = A /\ ToSet(b) = B /\ Once(a) /\ Once(b)
  <2>1. a \in Seq(A) /\ b \in Seq(B)
    BY DEF Lists
  <2>. QED BY <2>1 DEF Lists
<1>3. a \o b \in Seq(P) /\ ToSet(a \o b) = P /\ Once(a \o b)
  BY ONLY <1>1, <1>2, P = A \cup B, Concat, MembersOfConcat, ConcatOnce
<1>. QED BY <1>3 DEF Lists

\* The configurations of a section list the ways to take its slots.
LEMMA SectionPicks ==
    ASSUME NEW section, IsFiniteSet(section), NEW all, all = getScheduleComponents(section)
    PROVE  /\ \A cs \in sectionConfigurations(section) : Lists(cs, ToSet(cs)) /\ IsPick(ToSet(cs), all)
           /\ \A U : IsPick(U, all) => \E cs \in sectionConfigurations(section) : ToSet(cs) = U
<1> DEFINE made(p) == SetToSeq(PickedBy(p, all)) \o SetToSeq(Lectures(all))
<1>1. IsFiniteSet(all)
  <2>1. [c \in section |-> scheduleComponent(section, c)] \in Surjection(section, getScheduleComponents(section))
    BY DEF getScheduleComponents, Surjection
  <2>. QED BY <2>1, FS_Surjection
<1>2. sectionConfigurations(section) = {made(p) : p \in PicksOf(all)}
  BY DEF sectionConfigurations, PicksOf, PickedBy, OtherTypes, Lectures
<1>3. ASSUME NEW p \in PicksOf(all) PROVE Lists(made(p), PickedBy(p, all) \cup Lectures(all))
  <2>1. \A S : IsFiniteSet(S) => Lists(SetToSeq(S), S)
    BY SetToSeqOnce DEF Lists
  <2>2. Lists(SetToSeq(PickedBy(p, all)), PickedBy(p, all)) /\ Lists(SetToSeq(Lectures(all)), Lectures(all))
    BY <1>1, <2>1, PicksFinite
  <2>. QED BY <2>2, PickLists
<1> HIDE DEF made
<1>4. ASSUME NEW cs \in sectionConfigurations(section) PROVE Lists(cs, ToSet(cs)) /\ IsPick(ToSet(cs), all)
  <2>1. PICK p \in PicksOf(all) : cs = made(p)
    BY <1>2
  <2>2. ToSet(cs) = PickedBy(p, all) \cup Lectures(all)
    BY <1>3, <2>1 DEF Lists
  <2>. QED BY <1>3, <2>1, <2>2, PickedIs
<1>5. ASSUME NEW U, IsPick(U, all) PROVE \E cs \in sectionConfigurations(section) : ToSet(cs) = U
  <2>1. PICK p \in PicksOf(all) : U = PickedBy(p, all) \cup Lectures(all)
    BY <1>5, PickHas
  <2>2. ToSet(made(p)) = U
    BY <1>3, <2>1 DEF Lists
  <2>. QED BY <1>2, <2>2
<1>. QED BY <1>4, <1>5

\* A component as the first generator knows it.
placed(c, course, i) ==
    [id |-> c.id, type |-> c.type, day |-> c.day, start |-> c.start, end |-> c.end,
     closed |-> c.closed, course |-> course.id, section |-> i]
placedOf(course, i) == {placed(c, course, i) : c \in course.sections[i]}

\* So do the combinations, of its components.
LEMMA SectionPlaces ==
    ASSUME NEW course, NEW i \in DOMAIN course.sections, IsFiniteSet(course.sections[i]),
           NEW all, all = placedOf(course, i), NEW offers, offers = ToSet(First!sectionCombinations(course, i))
    PROVE  /\ \A cs \in offers : course.sections[i] # {} /\ Lists(cs, ToSet(cs)) /\ IsPick(ToSet(cs), all)
           /\ course.sections[i] # {} => \A U : IsPick(U, all) => \E cs \in offers : ToSet(cs) = U
<1>0. all = {} <=> course.sections[i] = {}
  BY DEF placedOf
<1>1. CASE all = {}
  <2>1. First!sectionCombinations(course, i) = <<>>
    BY <1>1 DEF First!sectionCombinations, placedOf, placed
  <2>2. offers = {}
    BY <2>1 DEF ToSet
  <2>. QED BY <1>0, <1>1, <2>2
<1>2. CASE all # {}
  <2> DEFINE made(p) == sequenceOf(PickedBy(p, all)) \o sequenceOf(Lectures(all))
  <2>1. First!sectionCombinations(course, i) = sequenceOf({made(p) : p \in PicksOf(all)})
    <3> DEFINE other(p) == First!sequenceOf(PickedBy(p, all)) \o First!sequenceOf(Lectures(all))
    <3>1. First!sectionCombinations(course, i) = First!sequenceOf({other(p) : p \in PicksOf(all)})
      BY <1>2 DEF First!sectionCombinations, placedOf, placed, PicksOf, PickedBy, OtherTypes, Lectures
    <3>2. \A p \in PicksOf(all) : other(p) = made(p)
      BY FirstSequenceOf
    <3> HIDE DEF other, made
    <3>3. {other(p) : p \in PicksOf(all)} = {made(p) : p \in PicksOf(all)}
      BY <3>2
    <3>. QED BY <3>1, <3>3, FirstSequenceOf
  <2>2. IsFiniteSet(all)
    <3>1. [c \in course.sections[i] |-> placed(c, course, i)] \in Surjection(course.sections[i], placedOf(course, i))
      BY DEF placedOf, Surjection
    <3>. QED BY <3>1, FS_Surjection
  <2>3. ASSUME NEW p \in PicksOf(all) PROVE Lists(made(p), PickedBy(p, all) \cup Lectures(all))
    <3>1. \A S : IsFiniteSet(S) => Lists(sequenceOf(S), S)
      BY SequenceOfLists
    <3>2. Lists(sequenceOf(PickedBy(p, all)), PickedBy(p, all)) /\ Lists(sequenceOf(Lectures(all)), Lectures(all))
      BY <2>2, <3>1, PicksFinite
    <3>. QED BY <3>2, PickLists
  <2> HIDE DEF made
  <2>4. PICK M : M = {made(p) : p \in PicksOf(all)}
    OBVIOUS
  <2>5. IsFiniteSet(M)
    <3>1. [p \in PicksOf(all) |-> made(p)] \in Surjection(PicksOf(all), {made(p) : p \in PicksOf(all)})
      BY DEF Surjection
    <3>. QED BY <2>2, <2>4, <3>1, PicksFinite, FS_Surjection
  <2>6. offers = M
    BY <2>1, <2>4, <2>5, SequenceOfLists DEF Lists
  <2>7. ASSUME NEW cs \in offers PROVE Lists(cs, ToSet(cs)) /\ IsPick(ToSet(cs), all)
    <3>1. PICK p \in PicksOf(all) : cs = made(p)
      BY <2>4, <2>6
    <3>2. ToSet(cs) = PickedBy(p, all) \cup Lectures(all)
      BY <2>3, <3>1 DEF Lists
    <3>. QED BY <2>3, <3>1, <3>2, PickedIs
  <2>8. ASSUME NEW U, IsPick(U, all) PROVE \E cs \in offers : ToSet(cs) = U
    <3>1. PICK p \in PicksOf(all) : U = PickedBy(p, all) \cup Lectures(all)
      BY <2>8, PickHas
    <3>2. ToSet(made(p)) = U
      BY <2>3, <3>1 DEF Lists
    <3>. QED BY <2>4, <2>6, <3>2
  <2>. QED BY <1>0, <1>2, <2>7, <2>8
<1>. QED BY <1>1, <1>2

\* No two lectures at one time.
NoTwins(section) == \A c, d \in section : c.type = "LEC" /\ sameSlot(c, d) => c = d

\* A slot of a section is filled by its own alternates.
LEMMA FillsOwn ==
    ASSUME NEW course, NEW i, NEW d \in course.sections[i],
           NEW u \in getScheduleComponents(course.sections[i])
    PROVE  /\ Fills(placed(d, course, i), u) <=> u = scheduleComponent(course.sections[i], d)
           /\ u.type = d.type /\ u.day = d.day /\ u.start = d.start /\ u.end = d.end
                => u = scheduleComponent(course.sections[i], d)
<1> DEFINE section == course.sections[i]
<1>1. PICK e \in section : u = scheduleComponent(section, e)
  BY DEF getScheduleComponents
<1>2. ASSUME sameSlot(d, e) PROVE u = scheduleComponent(section, d)
  <2>1. \A a \in section : sameSlot(e, a) <=> sameSlot(d, a)
    BY <1>2 DEF sameSlot
  <2>2. PICK A : A = {a \in section : sameSlot(d, a)}
    OBVIOUS
  <2>3. A = {a \in section : sameSlot(e, a)}
    BY <2>1, <2>2
  <2>4. e.type = d.type /\ e.day = d.day /\ e.start = d.start /\ e.end = d.end
    BY <1>2 DEF sameSlot
  <2>5. /\ scheduleComponent(section, d) = [type |-> d.type, day |-> d.day, start |-> d.start, end |-> d.end,
              components |-> {a.id : a \in A}, all_are_closed |-> \A a \in A : a.closed]
        /\ scheduleComponent(section, e) = [type |-> e.type, day |-> e.day, start |-> e.start, end |-> e.end,
              components |-> {a.id : a \in A}, all_are_closed |-> \A a \in A : a.closed]
    BY <2>2, <2>3 DEF scheduleComponent
  <2>. QED BY <1>1, <2>4, <2>5
<1>3. u.type = e.type /\ u.day = e.day /\ u.start = e.start /\ u.end = e.end
  BY <1>1 DEF scheduleComponent
<1>4. u.type = d.type /\ u.day = d.day /\ u.start = d.start /\ u.end = d.end => sameSlot(d, e)
  BY <1>3 DEF sameSlot
<1>5. Fills(placed(d, course, i), u) => sameSlot(d, e)
  BY <1>3 DEF Fills, placed, sameSlot
<1>6. Fills(placed(d, course, i), scheduleComponent(section, d))
  <2>1. d \in {a \in section : sameSlot(d, a)}
    BY DEF sameSlot
  <2>. QED BY <2>1 DEF Fills, placed, sameSlot, scheduleComponent
<1>. QED BY <1>2, <1>4, <1>5, <1>6

\* Whatever is picked of the slots can be attended, and openly if there is a way.
LEMMA PickAttended ==
    ASSUME NEW course, NEW i, NoTwins(course.sections[i]),
           NEW U, IsPick(U, getScheduleComponents(course.sections[i]))
    PROVE  \E V : /\ IsPick(V, placedOf(course, i))
                  /\ Attends(V, U) /\ PrefersOpen(V, U)
<1> DEFINE section == course.sections[i]
           slotFor(d) == scheduleComponent(section, d)
           at(d) == placed(d, course, i)
           rep == [u \in U |-> CHOOSE d \in section : u = slotFor(d) /\ (u.all_are_closed \/ ~d.closed)]
           V == {at(rep[u]) : u \in U}
<1>1. \A d \in section : /\ slotFor(d) \in getScheduleComponents(section)
                         /\ slotFor(d).type = d.type /\ slotFor(d).day = d.day
                         /\ slotFor(d).start = d.start /\ slotFor(d).end = d.end
                         /\ at(d).type = d.type /\ at(d).closed = d.closed /\ at(d) \in placedOf(course, i)
  BY DEF getScheduleComponents, scheduleComponent, placed, placedOf
<1>2. \A d \in section : \A u \in U : Fills(at(d), u) <=> u = slotFor(d)
  BY FillsOwn DEF IsPick
<1>3. ASSUME NEW u \in U PROVE \E d \in section : u = slotFor(d) /\ (u.all_are_closed \/ ~d.closed)
  <2>1. PICK e \in section : u = slotFor(e)
    BY DEF IsPick, getScheduleComponents
  <2>2. CASE u.all_are_closed
    BY <2>1, <2>2
  <2>3. CASE ~u.all_are_closed
    <3>1. u.all_are_closed = \A a \in {a \in section : sameSlot(e, a)} : a.closed
      BY <2>1 DEF scheduleComponent
    <3>2. PICK a \in section : sameSlot(e, a) /\ ~a.closed
      BY <2>3, <3>1
    <3>3. u = slotFor(a)
      <4>1. u.type = a.type /\ u.day = a.day /\ u.start = a.start /\ u.end = a.end
        BY <1>1, <2>1, <3>2 DEF sameSlot
      <4>. QED BY <4>1, FillsOwn DEF IsPick
    <3>. QED BY <3>2, <3>3
  <2>. QED BY <2>2, <2>3
<1>4. \A u \in U : rep[u] \in section /\ u = slotFor(rep[u]) /\ (u.all_are_closed \/ ~rep[u].closed)
  BY <1>3
<1>5. \A c \in V : \E u \in U : c = at(rep[u])
  OBVIOUS
<1>6. \A u \in U : at(rep[u]) \in V
  OBVIOUS
<1>7. \A c \in placedOf(course, i) : \E d \in section : c = at(d)
  BY DEF placedOf
<1>8. \A c, d \in section : c.type = "LEC" /\ slotFor(c) = slotFor(d) => c = d
  BY <1>1 DEF NoTwins, sameSlot
<1>9. /\ U \subseteq getScheduleComponents(section)
      /\ \A u \in getScheduleComponents(section) : u.type = "LEC" => u \in U
      /\ \A u \in getScheduleComponents(section) : u.type # "LEC" => \E w \in U : w.type = u.type
      /\ \A u, w \in U : u.type = w.type /\ u.type # "LEC" => u = w
  BY DEF IsPick
<1> HIDE DEF rep, V, slotFor, at, section
<1>10. IsPick(V, placedOf(course, i))
  <2>1. V \subseteq placedOf(course, i)
    BY <1>1, <1>4, <1>5
  <2>2. ASSUME NEW c \in placedOf(course, i), c.type = "LEC" PROVE c \in V
    BY <1>1, <1>4, <1>6, <1>7, <1>8, <1>9, <2>2
  <2>3. ASSUME NEW c \in placedOf(course, i), c.type # "LEC" PROVE \E e \in V : e.type = c.type
    <3>1. PICK d \in section : c = at(d)
      BY <1>7
    <3>2. PICK u \in U : u.type = c.type
      BY <1>1, <1>9, <2>3, <3>1
    <3>3. at(rep[u]).type = c.type
      BY <1>1, <1>4, <3>2
    <3>. QED BY <1>6, <3>3
  <2>4. ASSUME NEW c \in V, NEW e \in V, c.type = e.type, c.type # "LEC" PROVE c = e
    <3>1. PICK u \in U, w \in U : c = at(rep[u]) /\ e = at(rep[w])
      BY <1>5
    <3>2. u.type = c.type /\ w.type = e.type
      BY <1>1, <1>4, <3>1
    <3>. QED BY <1>9, <2>4, <3>1, <3>2
  <2>. QED BY <2>1, <2>2, <2>3, <2>4 DEF IsPick
<1>11. \A u, w \in U : Fills(at(rep[u]), w) <=> w = u
  BY <1>2, <1>4
<1>12. Attends(V, U)
  <2>1. \A c \in V : \E w \in U : Fills(c, w)
    BY <1>5, <1>11
  <2>2. \A w \in U : \E c \in V : Fills(c, w)
    BY <1>6, <1>11
  <2>3. \A c, d \in V : \A w \in U : Fills(c, w) /\ Fills(d, w) => c = d
    BY <1>5, <1>11
  <2>4. \A c \in V : \A s, t \in U : Fills(c, s) /\ Fills(c, t) => s = t
    BY <1>5, <1>11
  <2>. QED BY <2>1, <2>2, <2>3, <2>4 DEF Attends
<1>13. PrefersOpen(V, U)
  <2>1. ASSUME NEW c \in V, NEW w \in U, Fills(c, w), c.closed PROVE w.all_are_closed
    <3>1. PICK u \in U : c = at(rep[u])
      BY <1>5
    <3>2. w = u /\ rep[u].closed
      BY <1>1, <1>4, <1>11, <2>1, <3>1
    <3>. QED BY <1>4, <3>2
  <2>. QED BY <2>1 DEF PrefersOpen
<1>. QED BY <1>10, <1>12, <1>13

\* Whatever is picked of the components attends slots that can be picked.
LEMMA PickAttends ==
    ASSUME NEW course, NEW i, NoTwins(course.sections[i]),
           NEW V, IsPick(V, placedOf(course, i))
    PROVE  \E U : IsPick(U, getScheduleComponents(course.sections[i])) /\ Attends(V, U)
<1> DEFINE section == course.sections[i]
           all == getScheduleComponents(section)
           slotFor(d) == scheduleComponent(section, d)
           at(d) == placed(d, course, i)
           U == {slotFor(d) : d \in {d \in section : at(d) \in V}}
<1>1. \A d \in section : /\ slotFor(d) \in all
                         /\ slotFor(d).type = d.type /\ slotFor(d).day = d.day
                         /\ slotFor(d).start = d.start /\ slotFor(d).end = d.end
                         /\ at(d).type = d.type /\ at(d).day = d.day /\ at(d).start = d.start
                         /\ at(d).end = d.end /\ at(d) \in placedOf(course, i)
  BY DEF getScheduleComponents, scheduleComponent, placed, placedOf
<1>2. \A d \in section : \A u \in all : Fills(at(d), u) <=> u = slotFor(d)
  BY FillsOwn
<1>3. \A c \in placedOf(course, i) : \E d \in section : c = at(d)
  BY DEF placedOf
<1>4. \A u \in all : \E d \in section : u = slotFor(d)
  BY DEF getScheduleComponents
<1>5. \A c, d \in section : sameSlot(c, d) => slotFor(c) = slotFor(d)
  <2> SUFFICES ASSUME NEW c \in section, NEW d \in section, sameSlot(c, d) PROVE slotFor(c) = slotFor(d)
    OBVIOUS
  <2>1. LET u == slotFor(c)
        IN u \in all /\ u.type = d.type /\ u.day = d.day /\ u.start = d.start /\ u.end = d.end
    BY <1>1 DEF sameSlot
  <2>. QED BY <2>1, FillsOwn
<1>6. \A c, d \in section : slotFor(c) = slotFor(d) => sameSlot(c, d)
  BY <1>1 DEF sameSlot
<1>7. \A c, d \in section : at(c) = at(d) => sameSlot(c, d)
  BY <1>1 DEF sameSlot
<1>8. \A u \in U : \E d \in section : u = slotFor(d) /\ at(d) \in V
  OBVIOUS
<1>9. \A d \in section : at(d) \in V => slotFor(d) \in U
  OBVIOUS
<1>10. \A c, d \in section : c.type = "LEC" /\ sameSlot(c, d) => c = d
  BY DEF NoTwins
<1>11. /\ V \subseteq placedOf(course, i)
       /\ \A c \in placedOf(course, i) : c.type = "LEC" => c \in V
       /\ \A c \in placedOf(course, i) : c.type # "LEC" => \E e \in V : e.type = c.type
       /\ \A c, e \in V : c.type = e.type /\ c.type # "LEC" => c = e
  BY DEF IsPick
<1> HIDE DEF U, slotFor, at, section, all
<1>12. U \subseteq all
  BY <1>1, <1>8
<1>13. IsPick(U, all)
  <2>1. ASSUME NEW u \in all, u.type = "LEC" PROVE u \in U
    <3>1. PICK d \in section : u = slotFor(d)
      BY <1>4
    <3>2. at(d) \in V
      BY <1>1, <1>11, <2>1, <3>1
    <3>. QED BY <1>9, <3>1, <3>2
  <2>2. ASSUME NEW u \in all, u.type # "LEC" PROVE \E w \in U : w.type = u.type
    <3>1. PICK d \in section : u = slotFor(d)
      BY <1>4
    <3>2. PICK e \in V : e.type = u.type
      BY <1>1, <1>11, <2>2, <3>1
    <3>3. PICK a \in section : e = at(a)
      BY <1>3, <1>11
    <3>. QED BY <1>1, <1>9, <3>2, <3>3
  <2>3. ASSUME NEW u \in U, NEW w \in U, u.type = w.type, u.type # "LEC" PROVE u = w
    <3>1. PICK c \in section, d \in section : /\ u = slotFor(c) /\ at(c) \in V
                                              /\ w = slotFor(d) /\ at(d) \in V
      BY <1>8
    <3>2. at(c) = at(d)
      BY <1>1, <1>11, <2>3, <3>1
    <3>. QED BY <1>5, <1>7, <3>1, <3>2
  <2>. QED BY <1>12, <2>1, <2>2, <2>3 DEF IsPick
<1>14. Attends(V, U)
  <2>1. ASSUME NEW c \in V PROVE \E d \in section : c = at(d) /\ slotFor(d) \in U /\ Fills(c, slotFor(d))
    BY <1>1, <1>2, <1>3, <1>9, <1>11
  <2>2. ASSUME NEW u \in U PROVE \E c \in V : Fills(c, u)
    BY <1>2, <1>8, <1>12
  <2>3. ASSUME NEW c \in V, NEW e \in V, NEW u \in U, Fills(c, u), Fills(e, u) PROVE c = e
    <3>1. PICK a \in section, b \in section : c = at(a) /\ e = at(b)
      BY <2>1
    <3>2. sameSlot(a, b)
      BY <1>2, <1>6, <1>12, <2>3, <3>1
    <3>3. c.type = a.type /\ e.type = b.type /\ a.type = b.type
      BY <1>1, <3>1, <3>2 DEF sameSlot
    <3>4. CASE a.type = "LEC"
      BY <1>10, <3>1, <3>2, <3>4
    <3>5. CASE a.type # "LEC"
      BY <1>11, <3>3, <3>5
    <3>. QED BY <3>4, <3>5
  <2>4. ASSUME NEW c \in V, NEW s \in U, NEW t \in U, Fills(c, s), Fills(c, t) PROVE s = t
    BY <1>2, <1>12, <2>1, <2>4
  <2>. QED BY <2>1, <2>2, <2>3, <2>4 DEF Attends
<1>. QED BY <1>13, <1>14 DEF all, section

-----------------------------------------------------------------------------
(* The two generators: what a course offers them                           *)

\* A course that both read alike: without sections only at the end.
Matchable(course) ==
    /\ Numbered(course)
    /\ \A k \in DOMAIN course.sections : course.sections[k] = {} => \A i \in DOMAIN course.sections : i <= k
    /\ \A k \in DOMAIN course.sections : NoTwins(course.sections[k])

LEMMA ConfigurationsOf ==
    ASSUME NEW course, Matchable(course), NEW sl
    PROVE  sl \in getConfigurations(course)
             <=> \E i \in DOMAIN course.sections :
                    course.sections[i] # {} /\ sl \in sectionConfigurations(course.sections[i])
<1> DEFINE empty == {e \in DOMAIN course.sections : course.sections[e] = {}}
<1>1. \A i \in DOMAIN course.sections : i \in Nat
  BY DEF Matchable, Numbered
<1>2. ASSUME NEW i \in DOMAIN course.sections PROVE (\A e \in empty : i < e) <=> course.sections[i] # {}
  BY <1>1 DEF Matchable
<1>3. sl \in getConfigurations(course)
        <=> \E i \in DOMAIN course.sections :
               (\A e \in empty : i < e) /\ sl \in sectionConfigurations(course.sections[i])
  BY DEF getConfigurations
<1>. QED BY <1>2, <1>3

LEMMA CombinationsOf ==
    ASSUME NEW course, Numbered(course)
    PROVE  /\ \A cs : cs \in ToSet(First!getCombinations(course))
                 <=> \E i \in DOMAIN course.sections : cs \in ToSet(First!sectionCombinations(course, i))
           /\ \E P : First!getCombinations(course) \in Seq(Filled(P))
<1> DEFINE of(i) == First!sectionCombinations(course, i)
<1>1. PICK n \in Nat : DOMAIN course.sections = 1..n
  BY DEF Numbered
<1>2. PICK list : list = [i \in 1..n |-> of(i)]
  OBVIOUS
<1>3. First!getCombinations(course) = FlattenSeq(list)
  BY <1>1, <1>2, FirstFlatten DEF First!getCombinations
<1>4. \A i \in 1..n : IsFiniteSet(course.sections[i])
  BY <1>1 DEF Numbered, Offered
<1>5. \A i \in 1..n : \E P : of(i) \in Seq(Filled(P))
  BY <1>1, <1>4, SectionCombines
<1>6. \E P : First!getCombinations(course) \in Seq(Filled(P))
  BY <1>1, CourseCombines DEF Numbered
<1>. HIDE DEF of
<1>7. PICK Q : Q = UNION {ToSet(of(i)) : i \in 1..n}
  OBVIOUS
<1>8. \A i \in 1..n : of(i) \in Seq(Q)
  <2>1. ASSUME NEW i \in 1..n PROVE of(i) \in Seq(Q)
    <3>1. PICK P : of(i) \in Seq(P)
      BY <1>5
    <3>2. \A k \in DOMAIN of(i) : of(i)[k] \in Q
      BY <1>7 DEF ToSet
    <3>. QED BY <3>1, <3>2
  <2>. QED BY <2>1
<1>9. list \in Seq(Seq(Q)) /\ DOMAIN list = 1..n /\ \A i \in 1..n : list[i] = of(i)
  BY <1>2, <1>8
<1>10. ToSet(FlattenSeq(list)) = UNION {ToSet(list[i]) : i \in DOMAIN list}
  BY ONLY <1>9, FlattenMembers
<1>11. ToSet(First!getCombinations(course)) = UNION {ToSet(of(i)) : i \in 1..n}
  BY <1>3, <1>9, <1>10
<1>. QED BY <1>1, <1>6, <1>11 DEF of

\* A combination or configuration of a course, and the components it is made of.
PlacedIn(c, course) ==
    \E i \in DOMAIN course.sections : \E d \in course.sections[i] : c = placed(d, course, i)
SlotIn(slot, course) ==
    \E i \in DOMAIN course.sections : slot \in getScheduleComponents(course.sections[i])

LEMMA CombinationPlaced ==
    ASSUME NEW course, Matchable(course), NEW cs \in ToSet(First!getCombinations(course))
    PROVE  /\ Lists(cs, ToSet(cs)) /\ cs # <<>>
           /\ \A c \in ToSet(cs) : PlacedIn(c, course)
           /\ \E sl \in getConfigurations(course) : Attends(ToSet(cs), ToSet(sl))
<1>1. PICK i \in DOMAIN course.sections : cs \in ToSet(First!sectionCombinations(course, i))
  BY CombinationsOf DEF Matchable
<1>2. PICK P : First!getCombinations(course) \in Seq(Filled(P))
  BY CombinationsOf DEF Matchable
<1>3. cs # <<>>
  BY <1>2 DEF ToSet, Filled
<1>4. IsFiniteSet(course.sections[i]) /\ NoTwins(course.sections[i])
  BY DEF Matchable, Numbered, Offered
<1>5. course.sections[i] # {} /\ Lists(cs, ToSet(cs)) /\ IsPick(ToSet(cs), placedOf(course, i))
  BY <1>1, <1>4, SectionPlaces
<1>6. PICK U : IsPick(U, getScheduleComponents(course.sections[i])) /\ Attends(ToSet(cs), U)
  BY <1>4, <1>5, PickAttends
<1>7. PICK sl \in sectionConfigurations(course.sections[i]) : ToSet(sl) = U
  BY <1>4, <1>6, SectionPicks
<1>8. sl \in getConfigurations(course)
  BY <1>5, ConfigurationsOf
<1>9. \A c \in ToSet(cs) : PlacedIn(c, course)
  BY <1>5 DEF IsPick, placedOf, PlacedIn
<1>. QED BY <1>3, <1>5, <1>6, <1>7, <1>8, <1>9

LEMMA ConfigurationAttended ==
    ASSUME NEW course, Matchable(course), NEW sl \in getConfigurations(course)
    PROVE  /\ Lists(sl, ToSet(sl)) /\ sl # <<>>
           /\ \A slot \in ToSet(sl) : SlotIn(slot, course)
           /\ \E cs \in ToSet(First!getCombinations(course)) :
                 Attends(ToSet(cs), ToSet(sl)) /\ PrefersOpen(ToSet(cs), ToSet(sl))
<1>1. PICK i \in DOMAIN course.sections :
        course.sections[i] # {} /\ sl \in sectionConfigurations(course.sections[i])
  BY ConfigurationsOf
<1>2. sl # <<>>
  BY CourseOffers DEF Matchable, Numbered
<1>3. IsFiniteSet(course.sections[i]) /\ NoTwins(course.sections[i])
  BY DEF Matchable, Numbered, Offered
<1>4. Lists(sl, ToSet(sl)) /\ IsPick(ToSet(sl), getScheduleComponents(course.sections[i]))
  BY <1>1, <1>3, SectionPicks
<1>5. PICK V : IsPick(V, placedOf(course, i)) /\ Attends(V, ToSet(sl)) /\ PrefersOpen(V, ToSet(sl))
  BY <1>3, <1>4, PickAttended
<1>6. PICK cs \in ToSet(First!sectionCombinations(course, i)) : ToSet(cs) = V
  BY <1>1, <1>3, <1>5, SectionPlaces
<1>7. cs \in ToSet(First!getCombinations(course))
  BY CombinationsOf DEF Matchable
<1>8. \A slot \in ToSet(sl) : SlotIn(slot, course)
  BY <1>4 DEF IsPick, SlotIn
<1>. QED BY <1>2, <1>4, <1>5, <1>6, <1>7, <1>8

-----------------------------------------------------------------------------
(* The two generators: a choice for every course                           *)

offeredIds(course) == UNION {ids(course.sections[i]) : i \in DOMAIN course.sections}

LEMMA PlacedHas ==
    ASSUME NEW course, Numbered(course), NEW c, PlacedIn(c, course)
    PROVE  c.course = course.id /\ c.id \in offeredIds(course) /\ c.start \in Nat /\ c.end \in Nat
<1>1. PICK i \in DOMAIN course.sections : \E d \in course.sections[i] : c = placed(d, course, i)
  BY DEF PlacedIn
<1>2. PICK d \in course.sections[i] : c = placed(d, course, i)
  BY <1>1
<1>3. c.course = course.id /\ c.id = d.id /\ c.start = d.start /\ c.end = d.end
  BY <1>2 DEF placed
<1>4. d.id \in offeredIds(course)
  BY DEF offeredIds, ids
<1>5. d.start \in Nat /\ d.end \in Nat
  BY DEF Numbered, Offered, Timed
<1>. QED BY <1>3, <1>4, <1>5

LEMMA SlotHas ==
    ASSUME NEW course, Numbered(course), NEW slot, SlotIn(slot, course)
    PROVE  /\ slot.components \subseteq offeredIds(course) /\ slot.components # {}
           /\ slot.start \in Nat /\ slot.end \in Nat
<1>1. PICK i \in DOMAIN course.sections : slot \in getScheduleComponents(course.sections[i])
  BY DEF SlotIn
<1>2. PICK section : section = course.sections[i]
  OBVIOUS
<1>3. PICK d \in section : slot = scheduleComponent(section, d)
  BY <1>1, <1>2 DEF getScheduleComponents
<1>4. /\ slot.components = {e.id : e \in {e \in section : sameSlot(d, e)}}
      /\ slot.start = d.start /\ slot.end = d.end
  BY <1>3 DEF scheduleComponent
<1>5. d.id \in slot.components
  BY <1>4 DEF sameSlot
<1>6. slot.components \subseteq offeredIds(course)
  BY <1>2, <1>4 DEF offeredIds, ids
<1>7. d.start \in Nat /\ d.end \in Nat
  BY <1>2 DEF Numbered, Offered, Timed
<1>. QED BY <1>4, <1>5, <1>6, <1>7

\* A course, as it is given to the one generator and to the other.
SameCourse(course, first) ==
    /\ first.id = course.id /\ first.mandatory = course.mandatory
    /\ first.combinations = First!getCombinations(course)

\* The courses of both: the second leaves out those with nothing to attend.
Paired(list, firsts) ==
    /\ DOMAIN list = 1..Len(list) /\ Len(list) \in Nat
    /\ Combined(firsts)
    /\ \A p \in DOMAIN list : Matchable(list[p]) /\ getConfigurations(list[p]) # {}
    /\ \A p \in DOMAIN list : \E q \in DOMAIN firsts : SameCourse(list[p], firsts[q])
    /\ \A q \in DOMAIN firsts : \/ firsts[q].combinations = <<>>
                                \/ \E p \in DOMAIN list : SameCourse(list[p], firsts[q])
    /\ \A q, k \in DOMAIN firsts : firsts[q].id = firsts[k].id => q = k
    /\ \A p, r \in DOMAIN list : list[p].id = list[r].id => p = r
    /\ \A p, r \in DOMAIN list : offeredIds(list[p]) \cap offeredIds(list[r]) # {} => p = r

\* A configuration of every course, or nothing of one that is not mandatory.
Taken(ch, list) ==
    /\ \E P : ch \in Seq(Seq(P))
    /\ DOMAIN ch = DOMAIN list
    /\ \A p \in DOMAIN list : \/ ch[p] \in getConfigurations(list[p])
                              \/ ch[p] = <<>> /\ ~list[p].mandatory

\* Two choices that mean the same, course by course.
Matched(ch, taken, list, firsts) ==
    \A p \in DOMAIN list, q \in DOMAIN firsts :
        SameCourse(list[p], firsts[q]) => Attends(ToSet(ch[q]), ToSet(taken[p]))

LEMMA FlatOfItself ==
    ASSUME NEW P, NEW ch \in Seq(Seq(P)) PROVE FlattenSeq(ch) \in Seq(ToSet(FlattenSeq(ch)))
<1>1. PICK n \in Nat : n = Len(ch)
  OBVIOUS
<1>2. PICK steps : Steps(steps, n, P, ch) /\ FlattenSeq(ch) = steps[n]
  BY <1>1, FlattenSteps
<1>3. PICK flat \in Seq(P) : flat = FlattenSeq(ch)
  BY <1>1, <1>2 DEF Steps
<1>4. \A i \in DOMAIN flat : flat[i] \in ToSet(flat)
  BY DEF ToSet
<1>5. flat \in Seq(ToSet(flat))
  BY <1>4
<1>. QED BY <1>3, <1>5

LEMMA MatchedFlat ==
    ASSUME NEW list, NEW firsts, Paired(list, firsts),
           NEW ch, Chosen(ch, firsts), Len(ch) = Len(firsts),
           NEW taken, Taken(taken, list), Matched(ch, taken, list, firsts)
    PROVE  /\ Corresponds(FlattenSeq(ch), FlattenSeq(taken))
           /\ (\A p \in DOMAIN list, q \in DOMAIN firsts :
                  SameCourse(list[p], firsts[q]) => PrefersOpen(ToSet(ch[q]), ToSet(taken[p])))
                => PrefersOpen(ToSet(FlattenSeq(ch)), ToSet(FlattenSeq(taken)))
<1>1. PICK P, cs : P = Parts(firsts) /\ cs = FlattenSeq(ch)
  OBVIOUS
<1>2. PICK Q, sl : taken \in Seq(Seq(Q)) /\ sl = FlattenSeq(taken)
  BY DEF Taken
<1>3. ch \in Seq(Seq(P)) /\ DOMAIN ch = DOMAIN firsts /\ \A q \in DOMAIN firsts : ch[q] \in Options(firsts[q])
  <2>1. DOMAIN firsts = 1..Len(firsts)
    BY DEF Paired, Combined
  <2>. QED BY <1>1, <2>1 DEF Chosen
<1>4. DOMAIN taken = DOMAIN list
  BY DEF Taken
<1>5. PICK T : T = ToSet(cs)
  OBVIOUS
<1>6. PICK S : S = ToSet(sl)
  OBVIOUS
<1>7. T = UNION {ToSet(ch[q]) : q \in DOMAIN firsts}
  BY <1>1, <1>3, <1>5, FlattenMembers
<1>8. S = UNION {ToSet(taken[p]) : p \in DOMAIN list}
  BY <1>2, <1>4, <1>6, FlattenMembers
<1>9. ASSUME NEW q \in DOMAIN firsts, ch[q] # <<>>
      PROVE  /\ Lists(ch[q], ToSet(ch[q]))
             /\ \E p \in DOMAIN list : /\ SameCourse(list[p], firsts[q])
                                       /\ \A c \in ToSet(ch[q]) : PlacedIn(c, list[p])
  <2>1. ch[q] \in ToSet(firsts[q].combinations)
    BY <1>3, <1>9 DEF Options
  <2>2. firsts[q].combinations # <<>>
    BY <2>1 DEF ToSet
  <2>3. PICK p \in DOMAIN list : SameCourse(list[p], firsts[q])
    BY <2>2 DEF Paired
  <2>4. Matchable(list[p]) /\ ch[q] \in ToSet(First!getCombinations(list[p]))
    BY <2>1, <2>3 DEF Paired, SameCourse
  <2>. QED BY <2>3, <2>4, CombinationPlaced
<1>10. ASSUME NEW p \in DOMAIN list, taken[p] # <<>>
       PROVE  Lists(taken[p], ToSet(taken[p])) /\ \A slot \in ToSet(taken[p]) : SlotIn(slot, list[p])
  <2>1. taken[p] \in getConfigurations(list[p]) /\ Matchable(list[p])
    BY <1>10 DEF Taken, Paired
  <2>. QED BY <2>1, ConfigurationAttended
<1>11. ToSet(<<>>) = {} /\ Once(<<>>)
  BY DEF ToSet, Once
<1>12. ASSUME NEW c \in T
       PROVE  \E p \in DOMAIN list, q \in DOMAIN firsts :
                 SameCourse(list[p], firsts[q]) /\ c \in ToSet(ch[q]) /\ PlacedIn(c, list[p])
  <2>1. PICK q \in DOMAIN firsts : c \in ToSet(ch[q])
    BY <1>7
  <2>2. ch[q] # <<>>
    BY <1>11, <2>1
  <2>. QED BY <1>9, <2>1, <2>2
<1>13. ASSUME NEW slot \in S
       PROVE  \E p \in DOMAIN list, q \in DOMAIN firsts :
                 SameCourse(list[p], firsts[q]) /\ slot \in ToSet(taken[p]) /\ SlotIn(slot, list[p])
  <2>1. PICK p \in DOMAIN list : slot \in ToSet(taken[p])
    BY <1>8
  <2>2. taken[p] # <<>>
    BY <1>11, <2>1
  <2>. QED BY <1>10, <2>1, <2>2 DEF Paired
<1>14. \A p \in DOMAIN list : Numbered(list[p])
  BY DEF Paired, Matchable
<1>15. ASSUME NEW c, NEW slot, NEW p \in DOMAIN list, NEW r \in DOMAIN list,
              PlacedIn(c, list[p]), SlotIn(slot, list[r]), Fills(c, slot)
       PROVE  p = r
  <2>1. c.id \in offeredIds(list[p]) /\ slot.components \subseteq offeredIds(list[r])
    BY <1>14, <1>15, PlacedHas, SlotHas
  <2>2. c.id \in slot.components
    BY <1>15 DEF Fills
  <2>. QED BY <2>1, <2>2 DEF Paired
<1>16. \A p \in DOMAIN list : \A q, k \in DOMAIN firsts :
          SameCourse(list[p], firsts[q]) /\ SameCourse(list[p], firsts[k]) => q = k
  BY DEF Paired, SameCourse
<1>17. \A p, r \in DOMAIN list : \A q \in DOMAIN firsts :
          SameCourse(list[p], firsts[q]) /\ SameCourse(list[r], firsts[q]) => p = r
  BY DEF Paired, SameCourse
<1>18. ASSUME NEW p \in DOMAIN list, NEW q \in DOMAIN firsts, SameCourse(list[p], firsts[q])
       PROVE  LET A == ToSet(ch[q]) B == ToSet(taken[p])
              IN  /\ A \subseteq T /\ B \subseteq S
                  /\ \A c \in A : \E slot \in B : Fills(c, slot)
                  /\ \A slot \in B : \E c \in A : Fills(c, slot)
                  /\ \A c, d \in A : \A slot \in B : Fills(c, slot) /\ Fills(d, slot) => c = d
                  /\ \A c \in A : \A s, t \in B : Fills(c, s) /\ Fills(c, t) => s = t
  <2>1. Attends(ToSet(ch[q]), ToSet(taken[p]))
    BY <1>18 DEF Matched
  <2>2. ToSet(ch[q]) \subseteq T /\ ToSet(taken[p]) \subseteq S
    BY <1>7, <1>8
  <2>. QED BY <2>1, <2>2 DEF Attends
<1>19. Attends(T, S)
  <2>1. ASSUME NEW c \in T PROVE \E slot \in S : Fills(c, slot)
    <3>1. PICK p \in DOMAIN list, q \in DOMAIN firsts : SameCourse(list[p], firsts[q]) /\ c \in ToSet(ch[q])
      BY <1>12
    <3>2. Attends(ToSet(ch[q]), ToSet(taken[p]))
      BY <3>1 DEF Matched
    <3>3. PICK slot \in ToSet(taken[p]) : Fills(c, slot)
      BY <3>1, <3>2 DEF Attends
    <3>. QED BY <1>8, <3>3
  <2>2. ASSUME NEW slot \in S PROVE \E c \in T : Fills(c, slot)
    <3>1. PICK p \in DOMAIN list, q \in DOMAIN firsts :
            SameCourse(list[p], firsts[q]) /\ slot \in ToSet(taken[p])
      BY <1>13
    <3>. QED BY <1>18, <3>1
  <2>3. ASSUME NEW c \in T, NEW d \in T, NEW slot \in S, Fills(c, slot), Fills(d, slot) PROVE c = d
    <3>1. PICK p \in DOMAIN list, q \in DOMAIN firsts :
            SameCourse(list[p], firsts[q]) /\ c \in ToSet(ch[q]) /\ PlacedIn(c, list[p])
      BY <1>12
    <3>2. PICK r \in DOMAIN list, k \in DOMAIN firsts :
            SameCourse(list[r], firsts[k]) /\ d \in ToSet(ch[k]) /\ PlacedIn(d, list[r])
      BY <1>12
    <3>3. PICK m \in DOMAIN list : slot \in ToSet(taken[m]) /\ SlotIn(slot, list[m])
      BY <1>13
    <3>4. p = m /\ r = m
      BY <1>15, <2>3, <3>1, <3>2, <3>3
    <3>5. q = k
      BY <1>16, <3>1, <3>2, <3>4
    <3>. QED BY <1>18, <2>3, <3>1, <3>2, <3>3, <3>4, <3>5
  <2>4. ASSUME NEW c \in T, NEW s \in S, NEW t \in S, Fills(c, s), Fills(c, t) PROVE s = t
    <3>1. PICK p \in DOMAIN list, q \in DOMAIN firsts :
            SameCourse(list[p], firsts[q]) /\ c \in ToSet(ch[q]) /\ PlacedIn(c, list[p])
      BY <1>12
    <3>2. PICK m \in DOMAIN list : s \in ToSet(taken[m]) /\ SlotIn(s, list[m])
      BY <1>13
    <3>3. PICK k \in DOMAIN list : t \in ToSet(taken[k]) /\ SlotIn(t, list[k])
      BY <1>13
    <3>4. p = m /\ p = k
      BY <1>15, <2>4, <3>1, <3>2, <3>3
    <3>. QED BY <1>18, <2>4, <3>1, <3>2, <3>3, <3>4
  <2>. QED BY <2>1, <2>2, <2>3, <2>4 DEF Attends
<1>20. Once(cs)
  <2>1. \A q \in DOMAIN ch : Once(ch[q])
    BY <1>3, <1>9, <1>11 DEF Lists
  <2>2. ASSUME NEW q \in DOMAIN ch, NEW k \in DOMAIN ch, q # k PROVE ToSet(ch[q]) \cap ToSet(ch[k]) = {}
    <3> SUFFICES ASSUME NEW c, c \in ToSet(ch[q]), c \in ToSet(ch[k]) PROVE FALSE
      OBVIOUS
    <3>1. ch[q] # <<>> /\ ch[k] # <<>>
      BY <1>11
    <3>2. PICK p \in DOMAIN list : SameCourse(list[p], firsts[q]) /\ PlacedIn(c, list[p])
      BY <1>3, <1>9, <3>1
    <3>3. PICK r \in DOMAIN list : SameCourse(list[r], firsts[k]) /\ PlacedIn(c, list[r])
      BY <1>3, <1>9, <3>1
    <3>4. c.course = list[p].id /\ c.course = list[r].id
      BY <1>14, <3>2, <3>3, PlacedHas
    <3>5. firsts[q].id = firsts[k].id
      BY <3>2, <3>3, <3>4 DEF SameCourse
    <3>. QED BY <1>3, <2>2, <3>5 DEF Paired
  <2>. QED BY ONLY <1>1, <1>3, <2>1, <2>2, FlattenOnce
<1>21. Once(sl)
  <2>1. \A p \in DOMAIN taken : Once(taken[p])
    BY <1>4, <1>10, <1>11 DEF Lists
  <2>2. ASSUME NEW p \in DOMAIN taken, NEW r \in DOMAIN taken, p # r
        PROVE  ToSet(taken[p]) \cap ToSet(taken[r]) = {}
    <3> SUFFICES ASSUME NEW slot, slot \in ToSet(taken[p]), slot \in ToSet(taken[r]) PROVE FALSE
      OBVIOUS
    <3>1. taken[p] # <<>> /\ taken[r] # <<>>
      BY <1>11
    <3>2. SlotIn(slot, list[p]) /\ SlotIn(slot, list[r])
      BY <1>4, <1>10, <3>1
    <3>3. /\ slot.components # {}
          /\ slot.components \subseteq offeredIds(list[p]) /\ slot.components \subseteq offeredIds(list[r])
      BY <1>4, <1>14, <3>2, SlotHas
    <3>. QED BY <1>4, <2>2, <3>3 DEF Paired
  <2>. QED BY ONLY <1>2, <2>1, <2>2, FlattenOnce
<1>22. Timed(T) /\ Timed(S)
  <2>1. \A c \in T : c.start \in Nat /\ c.end \in Nat
    BY <1>12, <1>14, PlacedHas
  <2>2. \A slot \in S : slot.start \in Nat /\ slot.end \in Nat
    BY <1>13, <1>14, SlotHas
  <2>. QED BY <2>1, <2>2 DEF Timed
<1>23. cs \in Seq(T) /\ sl \in Seq(S)
  <2>1. cs \in Seq(ToSet(cs))
    BY ONLY <1>1, <1>3, FlatOfItself
  <2>2. sl \in Seq(ToSet(sl))
    BY ONLY <1>2, FlatOfItself
  <2>. QED BY <1>5, <1>6, <2>1, <2>2
<1>24. Corresponds(cs, sl)
  BY <1>5, <1>6, <1>19, <1>20, <1>21, <1>22, <1>23 DEF Corresponds
<1>25. ASSUME \A p \in DOMAIN list, q \in DOMAIN firsts :
                 SameCourse(list[p], firsts[q]) => PrefersOpen(ToSet(ch[q]), ToSet(taken[p]))
       PROVE  PrefersOpen(T, S)
  <2>1. ASSUME NEW c \in T, NEW slot \in S, Fills(c, slot), c.closed PROVE slot.all_are_closed
    <3>1. PICK p \in DOMAIN list, q \in DOMAIN firsts :
            SameCourse(list[p], firsts[q]) /\ c \in ToSet(ch[q]) /\ PlacedIn(c, list[p])
      BY <1>12
    <3>2. PICK m \in DOMAIN list : slot \in ToSet(taken[m]) /\ SlotIn(slot, list[m])
      BY <1>13
    <3>3. p = m
      BY <1>15, <2>1, <3>1, <3>2
    <3>. QED BY <1>25, <2>1, <3>1, <3>2, <3>3 DEF PrefersOpen
  <2>. QED BY <2>1 DEF PrefersOpen
<1>. QED BY <1>1, <1>2, <1>5, <1>6, <1>24, <1>25

LEMMA AttendsNothing == Attends(ToSet(<<>>), ToSet(<<>>)) /\ PrefersOpen(ToSet(<<>>), ToSet(<<>>))
<1>1. ToSet(<<>>) = {}
  BY DEF ToSet
<1>. QED BY <1>1 DEF Attends, PrefersOpen

\* A choice for the first generator means one for the second.
LEMMA ChoiceTaken ==
    ASSUME NEW list, NEW firsts, Paired(list, firsts),
           NEW ch, Chosen(ch, firsts), Len(ch) = Len(firsts)
    PROVE  \E taken : Taken(taken, list) /\ Matched(ch, taken, list, firsts)
<1> DEFINE May(p, sl) == sl \in getConfigurations(list[p]) \/ (sl = <<>> /\ ~list[p].mandatory)
           Good(p, sl) == /\ May(p, sl)
                          /\ \A q \in DOMAIN firsts :
                                SameCourse(list[p], firsts[q]) => Attends(ToSet(ch[q]), ToSet(sl))
           taken == [p \in DOMAIN list |-> CHOOSE sl : Good(p, sl)]
<1>1. \A q \in DOMAIN firsts : ch[q] \in Options(firsts[q])
  BY DEF Chosen, Paired, Combined
<1>2. ASSUME NEW p \in DOMAIN list PROVE \E sl : Good(p, sl)
  <2>1. PICK q \in DOMAIN firsts : SameCourse(list[p], firsts[q])
    BY DEF Paired
  <2>2. \A k \in DOMAIN firsts : SameCourse(list[p], firsts[k]) => k = q
    BY <2>1 DEF SameCourse, Paired
  <2>3. Matchable(list[p]) /\ firsts[q].combinations = First!getCombinations(list[p])
    BY <2>1 DEF Paired, SameCourse
  <2>4. CASE ch[q] \in ToSet(firsts[q].combinations)
    <3>1. PICK sl \in getConfigurations(list[p]) : Attends(ToSet(ch[q]), ToSet(sl))
      BY <2>3, <2>4, CombinationPlaced
    <3>. QED BY <2>2, <3>1
  <2>5. CASE ch[q] \notin ToSet(firsts[q].combinations)
    <3>1. PICK sl \in getConfigurations(list[p]) : TRUE
      BY DEF Paired
    <3>2. \E cs : cs \in ToSet(firsts[q].combinations)
      BY <2>3, ConfigurationAttended
    <3>3. firsts[q].combinations # <<>>
      BY <3>2 DEF ToSet
    <3>4. ch[q] = <<>> /\ ~firsts[q].mandatory
      BY <1>1, <2>5, <3>3 DEF Options
    <3>5. ~list[p].mandatory
      BY <2>1, <3>4 DEF SameCourse
    <3>6. Good(p, <<>>)
      BY <2>2, <3>4, <3>5, AttendsNothing
    <3>. QED BY <3>6
  <2>. QED BY <2>4, <2>5
<1>3. \A p \in DOMAIN list : Good(p, taken[p])
  BY <1>2
<1>4. DOMAIN taken = DOMAIN list /\ DOMAIN list = 1..Len(list) /\ Len(list) \in Nat
  BY DEF Paired
<1>5. taken = [p \in DOMAIN list |-> taken[p]]
  OBVIOUS
<1> HIDE DEF taken
<1>6. PICK P : P = UNION {ToSet(taken[p]) : p \in DOMAIN list}
  OBVIOUS
<1>7. ASSUME NEW p \in DOMAIN list PROVE taken[p] \in Seq(P)
  <2>1. CASE taken[p] = <<>>
    BY <2>1
  <2>2. CASE taken[p] # <<>>
    <3>1. taken[p] \in getConfigurations(list[p]) /\ Matchable(list[p])
      BY <1>3, <2>2 DEF Paired
    <3>2. PICK sl : sl = taken[p] /\ sl \in Seq(ToSet(sl))
      BY <3>1, ConfigurationAttended DEF Lists
    <3>3. \A i \in DOMAIN sl : sl[i] \in P
      BY <1>6, <3>2 DEF ToSet
    <3>. QED BY <3>2, <3>3
  <2>. QED BY <2>1, <2>2
<1>8. taken \in Seq(Seq(P))
  BY <1>4, <1>5, <1>7
<1>9. Taken(taken, list)
  BY <1>3, <1>4, <1>8 DEF Taken
<1>10. Matched(ch, taken, list, firsts)
  BY <1>3 DEF Matched
<1>. QED BY <1>9, <1>10

\* And the other way round, with what is open where there is a way.
LEMMA TakenChoice ==
    ASSUME NEW list, NEW firsts, Paired(list, firsts), NEW taken, Taken(taken, list)
    PROVE  \E ch : /\ Chosen(ch, firsts) /\ Len(ch) = Len(firsts) /\ Matched(ch, taken, list, firsts)
                   /\ \A p \in DOMAIN list, q \in DOMAIN firsts :
                         SameCourse(list[p], firsts[q]) => PrefersOpen(ToSet(ch[q]), ToSet(taken[p]))
<1> DEFINE Good(q, cs) ==
              /\ cs \in Options(firsts[q])
              /\ \A p \in DOMAIN list : SameCourse(list[p], firsts[q]) =>
                    Attends(ToSet(cs), ToSet(taken[p])) /\ PrefersOpen(ToSet(cs), ToSet(taken[p]))
           ch == [q \in DOMAIN firsts |-> CHOOSE cs : Good(q, cs)]
<1>1. ASSUME NEW q \in DOMAIN firsts PROVE \E cs : Good(q, cs)
  <2>1. CASE ~\E p \in DOMAIN list : SameCourse(list[p], firsts[q])
    <3>1. firsts[q].combinations = <<>>
      BY <2>1 DEF Paired
    <3>2. <<>> \in Options(firsts[q])
      BY <3>1 DEF Options
    <3>. QED BY <2>1, <3>2
  <2>2. ASSUME NEW p \in DOMAIN list, SameCourse(list[p], firsts[q]) PROVE \E cs : Good(q, cs)
    <3>1. \A r \in DOMAIN list : SameCourse(list[r], firsts[q]) => r = p
      BY <2>2 DEF SameCourse, Paired
    <3>2. Matchable(list[p]) /\ firsts[q].combinations = First!getCombinations(list[p])
      BY <2>2 DEF Paired, SameCourse
    <3>3. CASE taken[p] \in getConfigurations(list[p])
      <4>1. PICK cs \in ToSet(firsts[q].combinations) :
              Attends(ToSet(cs), ToSet(taken[p])) /\ PrefersOpen(ToSet(cs), ToSet(taken[p]))
        BY <3>2, <3>3, ConfigurationAttended
      <4>2. cs \in Options(firsts[q])
        BY DEF Options
      <4>. QED BY <3>1, <4>1, <4>2
    <3>4. CASE taken[p] = <<>> /\ ~list[p].mandatory
      <4>1. <<>> \in Options(firsts[q])
        BY <2>2, <3>4 DEF SameCourse, Options
      <4>2. Good(q, <<>>)
        BY <3>1, <3>4, <4>1, AttendsNothing
      <4>. QED BY <4>2
    <3>. QED BY <3>3, <3>4 DEF Taken
  <2>. QED BY <2>1, <2>2
<1>2. \A q \in DOMAIN firsts : Good(q, ch[q])
  BY <1>1
<1>3. /\ DOMAIN ch = DOMAIN firsts /\ DOMAIN firsts = 1..Len(firsts) /\ Len(firsts) \in Nat
      /\ ch = [q \in DOMAIN firsts |-> ch[q]]
  BY DEF Paired, Combined
<1> HIDE DEF ch
<1>4. PICK P : P = Parts(firsts)
  OBVIOUS
<1>5. ASSUME NEW q \in DOMAIN firsts PROVE ch[q] \in Seq(P)
  <2>1. firsts[q].combinations \in Seq(Filled(P))
    BY <1>4 DEF Paired, Combined
  <2>2. ToSet(firsts[q].combinations) \subseteq Seq(P)
    BY <2>1 DEF ToSet, Filled
  <2>3. <<>> \in Seq(P)
    OBVIOUS
  <2>4. Options(firsts[q]) \subseteq Seq(P)
    BY <2>2, <2>3 DEF Options
  <2>. QED BY <1>2, <2>4
<1>6. ch \in Seq(Seq(P)) /\ Len(ch) = Len(firsts)
  BY <1>3, <1>5
<1>7. Chosen(ch, firsts)
  BY <1>2, <1>3, <1>4, <1>6 DEF Chosen
<1>8. Matched(ch, taken, list, firsts)
  BY <1>2 DEF Matched
<1>. QED BY <1>2, <1>6, <1>7, <1>8

-----------------------------------------------------------------------------
(* The two generators: the best of both                                    *)

LEMMA CandidateTaken ==
    ASSUME CoursesInv, NEW ch
    PROVE  ch \in Candidates
             <=> Taken(ch, courses) /\ FlattenSeq(ch) # <<>> /\ Admits(FlattenSeq(ch), filters)
<1>1. acceptable(ch)
        <=> /\ \A i \in DOMAIN courses : courses[i].mandatory => ch[i] # <<>>
            /\ FlattenSeq(ch) # <<>> /\ Admits(FlattenSeq(ch), filters)
  <2>1. PICK cs : cs = FlattenSeq(ch)
    OBVIOUS
  <2>2. acceptable(ch)
          <=> /\ \A i \in DOMAIN courses : courses[i].mandatory => ch[i] # <<>>
              /\ cs # <<>>
              /\ \A i \in DOMAIN cs : filters.allow_closed \/ ~cs[i].all_are_closed
              /\ \A i, k \in DOMAIN cs : i # k => ~conflict(cs[i], cs[k], filters)
              /\ \A brk \in filters.breaks, i \in DOMAIN cs : hasBreak(cs, cs[i].day, brk)
    BY <2>1 DEF acceptable
  <2>. QED BY <2>1, <2>2 DEF Admits, Open, Free
<1>2. ASSUME ch \in Candidates
      PROVE  Taken(ch, courses) /\ FlattenSeq(ch) # <<>> /\ Admits(FlattenSeq(ch), filters)
  <2>1. Picks(ch) /\ DOMAIN ch = DOMAIN courses /\ acceptable(ch)
    BY <1>2, CandidateType
  <2>2. Taken(ch, courses)
    BY <2>1 DEF Picks, Taken
  <2>. QED BY <1>1, <2>1, <2>2
<1>3. ASSUME Taken(ch, courses), FlattenSeq(ch) # <<>>, Admits(FlattenSeq(ch), filters)
      PROVE  ch \in Candidates
  <2>1. PICK P : ch \in Seq(Seq(P)) /\ DOMAIN ch = DOMAIN courses
    BY <1>3 DEF Taken
  <2>2. \A i \in DOMAIN courses : ch[i] \in {<<>>} \cup getConfigurations(courses[i])
    BY <1>3 DEF Taken
  <2>3. \A i \in DOMAIN courses : courses[i].mandatory => ch[i] # <<>>
    BY <1>3 DEF Taken, CoursesInv, Offers
  <2>4. acceptable(ch)
    BY <1>1, <1>3, <2>3
  <2>5. ch \in [DOMAIN courses -> {<<>>} \cup UNION {getConfigurations(courses[i]) : i \in DOMAIN courses}]
    <3>1. \A i \in DOMAIN courses : ch[i] \in {<<>>} \cup UNION {getConfigurations(courses[k]) : k \in DOMAIN courses}
      BY <2>2
    <3>2. ch = [i \in DOMAIN courses |-> ch[i]]
      BY <2>1
    <3>. QED BY <3>1, <3>2
  <2>. QED BY <2>2, <2>4, <2>5 DEF Candidates
<1>. QED BY <1>2, <1>3

LEMMA ExactTaken ==
    ASSUME Exact, NEW ch, Taken(ch, courses) PROVE ExactFor(ToSet(FlattenSeq(ch)), filters)
<1>1. CASE filters.breaks = {}
  BY <1>1 DEF ExactFor
<1>2. CASE /\ filters.conflicts = "NONE"
           /\ \A i \in DOMAIN courses : \A cs \in getConfigurations(courses[i]) :
                \A k \in DOMAIN cs : cs[k].start < cs[k].end
  <2>1. PICK P : ch \in Seq(Seq(P)) /\ DOMAIN ch = DOMAIN courses
    BY DEF Taken
  <2>2. ASSUME NEW x \in ToSet(FlattenSeq(ch)) PROVE x.start < x.end
    <3>1. PICK i \in DOMAIN courses : x \in ToSet(ch[i])
      BY <2>1, FlattenMembers
    <3>2. PICK cs : cs = ch[i]
      OBVIOUS
    <3>3. PICK k \in DOMAIN cs : x = cs[k]
      BY <3>1, <3>2 DEF ToSet
    <3>4. cs # <<>>
      BY <3>3
    <3>5. cs \in getConfigurations(courses[i])
      BY <3>2, <3>4 DEF Taken
    <3>. QED BY <1>2, <3>3, <3>5
  <2>. QED BY <1>2, <2>2 DEF ExactFor
<1>. QED BY <1>1, <1>2 DEF Exact

LEMMA NothingCorresponds ==
    ASSUME NEW cs, NEW sl, Corresponds(cs, sl) PROVE cs = <<>> <=> sl = <<>>
<1>1. PICK T, S : T = ToSet(cs) /\ S = ToSet(sl)
  OBVIOUS
<1>2. cs \in Seq(T) /\ sl \in Seq(S) /\ Attends(T, S)
  BY <1>1 DEF Corresponds
<1>3. T = {} <=> S = {}
  BY <1>2 DEF Attends
<1>4. (cs = <<>> <=> T = {}) /\ (sl = <<>> <=> S = {})
  BY <1>1, <1>2 DEF ToSet
<1>. QED BY <1>3, <1>4

\* What one admits of all there is, the other does.
LEMMA SameWanted ==
    ASSUME CoursesInv, Exact, FilterOf(filters), NEW firsts, Paired(courses, firsts)
    PROVE  /\ \A ch \in Candidates : \E cs \in AllWanted(firsts, filters) :
                 Corresponds(cs, FlattenSeq(ch))
           /\ \A cs \in AllWanted(firsts, filters) : \E ch \in Candidates :
                 Corresponds(cs, FlattenSeq(ch))
<1>1. ASSUME NEW taken \in Candidates
      PROVE  \E cs \in AllWanted(firsts, filters) : Corresponds(cs, FlattenSeq(taken))
  <2>1. Taken(taken, courses) /\ FlattenSeq(taken) # <<>> /\ Admits(FlattenSeq(taken), filters)
    BY CandidateTaken
  <2>2. PICK ch : /\ Chosen(ch, firsts) /\ Len(ch) = Len(firsts) /\ Matched(ch, taken, courses, firsts)
                  /\ \A p \in DOMAIN courses, q \in DOMAIN firsts :
                        SameCourse(courses[p], firsts[q]) => PrefersOpen(ToSet(ch[q]), ToSet(taken[p]))
    BY <2>1, TakenChoice
  <2>3. PICK cs, sl : cs = FlattenSeq(ch) /\ sl = FlattenSeq(taken)
    OBVIOUS
  <2>4. Corresponds(cs, sl) /\ PrefersOpen(ToSet(cs), ToSet(sl))
    BY <2>1, <2>2, <2>3, MatchedFlat
  <2>5. ExactFor(ToSet(sl), filters)
    BY <2>1, <2>3, ExactTaken
  <2>6. FirstAdmits(cs, filters)
    BY <2>1, <2>3, <2>4, <2>5, SameAdmitted
  <2>7. cs # <<>>
    BY <2>1, <2>3, <2>4, NothingCorresponds
  <2>8. Wanted(ch, firsts, filters)
    BY <2>2, <2>3, <2>6, <2>7 DEF Wanted, FirstAdmits
  <2>9. cs \in AllWanted(firsts, filters)
    BY <2>2, <2>3, <2>8, ChosenFlat DEF AllWanted
  <2>. QED BY <2>3, <2>4, <2>9
<1>2. ASSUME NEW cs \in AllWanted(firsts, filters)
      PROVE  \E ch \in Candidates : Corresponds(cs, FlattenSeq(ch))
  <2>1. PICK ch : Wanted(ch, firsts, filters) /\ cs = FlattenSeq(ch)
    BY DEF AllWanted
  <2>2. Chosen(ch, firsts) /\ Len(ch) = Len(firsts) /\ cs # <<>> /\ FirstAdmits(cs, filters)
    BY <2>1 DEF Wanted, FirstAdmits
  <2>3. PICK taken : Taken(taken, courses) /\ Matched(ch, taken, courses, firsts)
    BY <2>2, ChoiceTaken
  <2>4. PICK sl : sl = FlattenSeq(taken)
    OBVIOUS
  <2>5. Corresponds(cs, sl)
    BY <2>1, <2>2, <2>3, <2>4, MatchedFlat
  <2>6. ExactFor(ToSet(sl), filters)
    BY <2>3, <2>4, ExactTaken
  <2>7. Admits(sl, filters) /\ sl # <<>>
    BY <2>2, <2>5, <2>6, SameAdmitted, NothingCorresponds
  <2>8. taken \in Candidates
    BY <2>3, <2>4, <2>7, CandidateTaken
  <2>. QED BY <2>4, <2>5, <2>8
<1>. QED BY <1>1, <1>2

\* The weeks of a set of schedules: what is attended when.
weeksWanted(found) == {First!slots(ToSet(cs)) : cs \in found}
weeksTaken(found) == {First!slots(ToSet(FlattenSeq(ch))) : ch \in found}

LEMMA SameBest ==
    ASSUME CoursesInv, Exact, FilterOf(filters), NEW firsts, Paired(courses, firsts)
    PROVE  weeksWanted(BestWanted(firsts, filters)) = weeksTaken(BestCandidates)
<1> DEFINE B == AllWanted(firsts, filters)
           Same(cs, ch) == Corresponds(cs, FlattenSeq(ch))
           e1(cs) == beforeStart(cs, filters)
           l1(cs) == afterEnd(cs, filters)
           e2(ch) == beforeStart(FlattenSeq(ch), filters)
           l2(ch) == afterEnd(FlattenSeq(ch), filters)
           FB == {cs \in B : \A other \in B : e1(cs) <= e1(other)}
           FA == {ch \in Candidates : \A other \in Candidates : e2(ch) <= e2(other)}
           LB == {cs \in FB : \A other \in FB : l1(cs) <= l1(other)}
           LA == {ch \in FA : \A other \in FA : l2(ch) <= l2(other)}
<1>1. (\A ch \in Candidates : \E cs \in B : Same(cs, ch)) /\ (\A cs \in B : \E ch \in Candidates : Same(cs, ch))
  BY SameWanted
<1>2. ASSUME NEW cs, NEW ch, Same(cs, ch)
      PROVE  /\ e1(cs) = e2(ch) /\ l1(cs) = l2(ch)
             /\ First!slots(ToSet(cs)) = First!slots(ToSet(FlattenSeq(ch)))
  <2>1. Attends(ToSet(cs), ToSet(FlattenSeq(ch)))
    BY <1>2 DEF Corresponds
  <2>. QED BY <1>2, <2>1, SameCosts, SameSlots
<1>3. BestWanted(firsts, filters) = LB
  BY DEF BestWanted
<1>4. BestCandidates = LA
  BY DEF BestCandidates, least
<1> HIDE DEF B, Same, e1, l1, e2, l2
<1>5. (\A ch \in FA : \E cs \in FB : Same(cs, ch)) /\ (\A cs \in FB : \E ch \in FA : Same(cs, ch))
  <2>1. \A cs \in B, ch \in Candidates : Same(cs, ch) => (cs \in FB <=> ch \in FA)
    <3>1. ASSUME NEW cs \in B, NEW ch \in Candidates, Same(cs, ch), cs \in FB PROVE ch \in FA
      BY <1>1, <1>2, <3>1
    <3>2. ASSUME NEW cs \in B, NEW ch \in Candidates, Same(cs, ch), ch \in FA PROVE cs \in FB
      BY <1>1, <1>2, <3>2
    <3>. QED BY <3>1, <3>2
  <2>. QED BY <1>1, <2>1
<1>6. FA \subseteq Candidates /\ FB \subseteq B
  OBVIOUS
<1> HIDE DEF FA, FB
<1>7. (\A ch \in LA : \E cs \in LB : Same(cs, ch)) /\ (\A cs \in LB : \E ch \in LA : Same(cs, ch))
  <2>1. \A cs \in FB, ch \in FA : Same(cs, ch) => (cs \in LB <=> ch \in LA)
    <3>1. ASSUME NEW cs \in FB, NEW ch \in FA, Same(cs, ch), cs \in LB PROVE ch \in LA
      BY <1>2, <1>5, <3>1
    <3>2. ASSUME NEW cs \in FB, NEW ch \in FA, Same(cs, ch), ch \in LA PROVE cs \in LB
      BY <1>2, <1>5, <3>2
    <3>. QED BY <3>1, <3>2
  <2>. QED BY <1>5, <2>1
<1> HIDE DEF LA, LB
<1>8. weeksWanted(LB) = weeksTaken(LA)
  BY <1>2, <1>7 DEF weeksWanted, weeksTaken
<1>. QED BY <1>3, <1>4, <1>8

-----------------------------------------------------------------------------
(* The two generators: the courses of one request                          *)

\* Ids that are as many as the entries are one for every entry.
LEMMA AskedByCount ==
    ASSUME DOMAIN asked = 1..Len(asked), Len(asked) \in Nat,
           Cardinality({asked[i].id : i \in DOMAIN asked}) = Len(asked)
    PROVE  AskedOnce
<1> DEFINE T == {asked[i].id : i \in DOMAIN asked}
           f == [i \in DOMAIN asked |-> asked[i].id]
<1>1. PICK n \in Nat : n = Len(asked) /\ DOMAIN asked = 1..n
  OBVIOUS
<1>2. IsFiniteSet(1..n) /\ Cardinality(1..n) = n
  BY ONLY n \in Nat, FS_Interval
<1>3. f \in [1..n -> T] /\ \A x \in T : \E i \in 1..n : f[i] = x
  <2>1. \A i \in DOMAIN asked : asked[i].id \in T
    OBVIOUS
  <2>2. \A x \in T : \E i \in DOMAIN asked : x = asked[i].id
    OBVIOUS
  <2> HIDE DEF T
  <2>. QED BY <1>1, <2>1, <2>2
<1>4. Cardinality(T) = n
  BY <1>1
<1>5. \A i \in DOMAIN asked : f[i] = asked[i].id
  OBVIOUS
<1> HIDE DEF f, T
<1>6. f \in Surjection(1..n, T)
  BY <1>3 DEF Surjection
<1>7. f \in Injection(1..n, T)
  BY <1>2, <1>4, <1>6, FS_Surjection
<1>8. \A i, k \in 1..n : f[i] = f[k] => i = k
  BY <1>7 DEF Injection, IsInjective
<1>. QED BY <1>1, <1>5, <1>8 DEF AskedOnce

IdsOnce(list) == \A i, k \in DOMAIN list : list[i].id = list[k].id => i = k

LEMMA DeliveredOnce ==
    ASSUME NEW metas, Metas(metas), IdsOnce(metas), NEW gone
    PROVE  IdsOnce(getCourses(metas, gone))
<1> DEFINE here == {i \in DOMAIN metas : metas[i].id \notin gone}
           kept == ordered(here)
           list == [k \in DOMAIN kept |-> dataToCourse(metas[kept[k]])]
<1>1. DOMAIN metas = 1..Len(metas) /\ Len(metas) \in Nat
  BY DEF Metas
<1>2. kept \in Seq(here)
  BY <1>1, OrderedType
<1>3. \A i, k \in DOMAIN kept : kept[i] = kept[k] => i = k
  BY <1>1, OrderedOnce
<1> HIDE DEF kept
<1>4. DOMAIN list = DOMAIN kept /\ DOMAIN kept = 1..Len(kept) /\ Len(kept) \in Nat
  BY <1>2
<1>5. evaluated(list) = list
  <2>1. list \in Seq({list[k] : k \in DOMAIN kept})
    BY <1>4
  <2>. QED BY <2>1, EvaluatedType
<1>6. getCourses(metas, gone) = list
  BY <1>5 DEF getCourses, kept
<1>7. \A k \in DOMAIN list : kept[k] \in DOMAIN metas /\ list[k].id = metas[kept[k]].id
  BY <1>2, CourseHasId DEF dataToCourse
<1> HIDE DEF list
<1>. QED BY <1>3, <1>4, <1>6, <1>7 DEF IdsOnce

LEMMA ByIdOnce ==
    ASSUME NEW metas, Metas(metas) PROVE IdsOnce(byId(metas))
<1> DEFINE first == {i \in DOMAIN metas : \A k \in 1..(i - 1) : metas[k].id # metas[i].id}
           places == ordered(first)
           at(id) == SelectLastInSeq(metas, LAMBDA m : m.id = id)
           list == [p \in DOMAIN places |-> metas[at(metas[places[p]].id)]]
<1>1. DOMAIN metas = 1..Len(metas) /\ Len(metas) \in Nat
  BY DEF Metas
<1>2. places \in Seq(first)
  BY <1>1, OrderedType
<1>3. \A i, k \in DOMAIN places : places[i] = places[k] => i = k
  <2>1. first \in SUBSET (1..Len(metas))
    BY <1>1
  <2> HIDE DEF first
  <2>. QED BY <1>1, <2>1, OrderedOnce
<1> HIDE DEF places
<1>4. DOMAIN list = 1..Len(places) /\ DOMAIN list = DOMAIN places /\ Len(places) \in Nat
  BY <1>2
<1>5. ASSUME NEW i \in DOMAIN metas PROVE metas[at(metas[i].id)].id = metas[i].id
  <2> DEFINE I == {k \in 1..Len(metas) : metas[k].id = metas[i].id}
  <2>1. I # {} /\ I \in SUBSET (1..Len(metas))
    BY <1>1
  <2>2. Max(I) \in I
    <3>1. PICK n \in Nat : n = Len(metas)
      BY <1>1
    <3> HIDE DEF I
    <3>. QED BY <2>1, <3>1, GreatestNumber
  <2>3. at(metas[i].id) = Max(I)
    BY <2>1 DEF SelectLastInSeq
  <2>. QED BY <1>1, <2>2, <2>3
<1> HIDE DEF at
<1>6. evaluated(list) = list
  <2>1. list \in Seq({list[p] : p \in DOMAIN places})
    BY <1>4
  <2>. QED BY <2>1, EvaluatedType
<1>7. byId(metas) = list
  BY <1>6 DEF byId, places, at
<1>8. \A p \in DOMAIN list : places[p] \in first /\ list[p].id = metas[places[p]].id
  BY <1>2, <1>4, <1>5
<1> HIDE DEF list
<1>9. \A i, k \in first : metas[i].id = metas[k].id => i = k
  <2>1. ASSUME NEW i \in first, NEW k \in first, metas[i].id = metas[k].id, i < k PROVE FALSE
    <3>1. i \in 1..(k - 1)
      BY <1>1, <2>1
    <3>. QED BY <2>1, <3>1
  <2>2. \A i, k \in first : i < k \/ k < i \/ i = k
    BY <1>1
  <2>. QED BY <2>1, <2>2
<1> HIDE DEF first
<1>. QED BY <1>3, <1>4, <1>7, <1>8, <1>9 DEF IdsOnce

\* The constructor of the first generator keeps all courses, with their combinations.
LEMMA ConstructedOf ==
    ASSUME NEW cs, cs \in Seq({c \in ToSet(cs) : Numbered(c)}), IdsOnce(cs),
           NEW list, list \in First!sortedCourses(First!withCombinations(cs))
    PROVE  /\ Combined(list) /\ IdsOnce(list)
           /\ \A q \in DOMAIN list : \E k \in DOMAIN cs : SameCourse(cs[k], list[q])
           /\ \A k \in DOMAIN cs : \E q \in DOMAIN list : SameCourse(cs[k], list[q])
<1> DEFINE offered == [i \in DOMAIN cs |-> [id |-> cs[i].id, mandatory |-> cs[i].mandatory,
                                            combinations |-> First!getCombinations(cs[i])]]
<1>1. DOMAIN cs = 1..Len(cs) /\ Len(cs) \in Nat /\ \A i \in DOMAIN cs : Numbered(cs[i])
  OBVIOUS
<1>2. First!withCombinations(cs) = offered
  <2>1. offered \in Seq({offered[i] : i \in DOMAIN cs})
    BY <1>1
  <2>2. First!evaluated(offered) = offered
    BY <2>1 DEF First!evaluated
  <2>. QED BY <2>2 DEF First!withCombinations
<1>3. Combined(list)
  BY Constructed
<1>4. ASSUME NEW i \in DOMAIN cs PROVE Len(offered[i].combinations) \in Nat
  <2>1. PICK P : First!getCombinations(cs[i]) \in Seq(Filled(P))
    BY <1>1, CombinationsOf
  <2>. QED BY <2>1
<1>5. \A i \in DOMAIN cs : SameCourse(cs[i], offered[i])
  BY DEF SameCourse
<1>6. DOMAIN offered = DOMAIN cs /\ Len(offered) = Len(cs) /\ \A i \in DOMAIN cs : offered[i].id = cs[i].id
  BY <1>1
<1> HIDE DEF offered
<1>7. /\ DOMAIN offered = 1..Len(offered) /\ Len(offered) \in Nat
      /\ list \in First!sortedCourses(offered)
      /\ \A i \in DOMAIN offered : Len(offered[i].combinations) \in Nat
  BY <1>1, <1>2, <1>4, <1>6
<1>8. /\ \A p \in DOMAIN list : \E i \in DOMAIN offered : list[p] = offered[i]
      /\ \A i \in DOMAIN offered : \E p \in DOMAIN list : list[p] = offered[i]
      /\ (\A i, k \in DOMAIN offered : offered[i].id = offered[k].id => i = k)
           => \A p, q \in DOMAIN list : list[p].id = list[q].id => p = q
  BY ONLY <1>7, FirstOnto
<1>9. IdsOnce(list)
  BY <1>6, <1>8 DEF IdsOnce
<1>. QED BY <1>3, <1>5, <1>6, <1>8, <1>9

\* What Comparable asks of a course.
Tidy(course) ==
    /\ \A k \in DOMAIN course.sections : course.sections[k] = {} => k = Len(course.sections)
    /\ \A k \in DOMAIN course.sections : NoTwins(course.sections[k])

LEMMA TidyMatches == ASSUME NEW course, Numbered(course), Tidy(course) PROVE Matchable(course)
<1>1. PICK sections : sections = course.sections
  OBVIOUS
<1>2. PICK n \in Nat : DOMAIN sections = 1..n
  BY <1>1 DEF Numbered
<1>3. Len(sections) = n
  BY <1>2
<1>. QED BY <1>1, <1>2, <1>3 DEF Tidy, Matchable

LEMMA SortedHave ==
    ASSUME NEW cs, courses \in sortedCourses(cs), NEW p \in DOMAIN courses
    PROVE  getConfigurations(courses[p]) # {}
<1> DEFINE count(i) == getConfigurationCount(cs[i])
           kept == {i \in DOMAIN cs : count(i) # 0}
<1>1. PICK order \in [1..Cardinality(kept) -> kept] : courses = [k \in DOMAIN order |-> cs[order[k]]]
  BY DEF sortedCourses
<1>2. order[p] \in kept /\ courses[p] = cs[order[p]]
  BY <1>1
<1>3. Cardinality(getConfigurations(courses[p])) # 0
  BY <1>2 DEF getConfigurationCount
<1>. QED BY <1>3, FS_EmptySet

\* The courses of one request, as either generator is given them.
LEMMA RequestPaired ==
    ASSUME RequestsAssumption, GuidsAssumption, CoursesInv, asked \in Requests, AskedOnce,
           catalogue \in {OldCatalogue, NewCatalogue},
           requested = getCourses(asked, lost), courses \in sortedCourses(requested),
           \A i \in DOMAIN requested : Tidy(requested[i]),
           NEW firsts, firsts \in First!sortedCourses(First!withCombinations(firstGetCourses(asked, lost)))
    PROVE  Paired(courses, firsts)
<1>1. PICK cs, metas : metas = byId(asked) /\ cs = getCourses(metas, lost)
  OBVIOUS
<1>2. Metas(asked) /\ IdsOnce(asked)
  BY DEF RequestsAssumption, Metas, AskedOnce, IdsOnce
<1>3. /\ Metas(metas) /\ IdsOnce(metas)
      /\ \A p \in DOMAIN metas : \E i \in DOMAIN asked : metas[p] = asked[i]
      /\ \A i \in DOMAIN asked : \E p \in DOMAIN metas : metas[p].id = asked[i].id
  <2>1. /\ Metas(byId(asked))
        /\ \A p \in DOMAIN byId(asked) : \E i \in DOMAIN asked : byId(asked)[p] = asked[i]
        /\ \A i \in DOMAIN asked : \E p \in DOMAIN byId(asked) : byId(asked)[p].id = asked[i].id
    BY <1>2, ByIdMetas
  <2>2. IdsOnce(byId(asked))
    BY <1>2, ByIdOnce
  <2>. QED BY <1>1, <2>1, <2>2
<1>4. \A i \in DOMAIN asked : \E p \in DOMAIN metas : metas[p] = asked[i]
  BY <1>2, <1>3 DEF IdsOnce
<1>5. /\ \A i \in DOMAIN asked : asked[i].id \notin lost =>
            \E k \in DOMAIN requested : requested[k] = dataToCourse(asked[i])
      /\ \A k \in DOMAIN requested : \E i \in DOMAIN asked :
            asked[i].id \notin lost /\ requested[k] = dataToCourse(asked[i])
      /\ requested \in Seq({c \in ToSet(requested) : Numbered(c)}) /\ IdsOnce(requested)
  <2>1. /\ \A i \in DOMAIN asked : asked[i].id \notin lost =>
              \E k \in DOMAIN getCourses(asked, lost) : getCourses(asked, lost)[k] = dataToCourse(asked[i])
        /\ \A k \in DOMAIN getCourses(asked, lost) : \E i \in DOMAIN asked :
              asked[i].id \notin lost /\ getCourses(asked, lost)[k] = dataToCourse(asked[i])
    BY <1>2, CoursesDelivered
  <2>2. requested \in Seq({c \in ToSet(requested) : Numbered(c)})
    BY <1>2, CoursesFetched
  <2>3. IdsOnce(requested)
    BY <1>2, DeliveredOnce
  <2>. QED BY <2>1, <2>2, <2>3
<1>6. /\ \A i \in DOMAIN metas : metas[i].id \notin lost =>
            \E k \in DOMAIN cs : cs[k] = dataToCourse(metas[i])
      /\ \A k \in DOMAIN cs : \E i \in DOMAIN metas :
            metas[i].id \notin lost /\ cs[k] = dataToCourse(metas[i])
      /\ cs \in Seq({c \in ToSet(cs) : Numbered(c)}) /\ IdsOnce(cs)
  <2>1. /\ \A i \in DOMAIN metas : metas[i].id \notin lost =>
              \E k \in DOMAIN cs : cs[k] = dataToCourse(metas[i])
        /\ \A k \in DOMAIN cs : \E i \in DOMAIN metas :
              metas[i].id \notin lost /\ cs[k] = dataToCourse(metas[i])
    <3>1. Metas(metas)
      BY <1>3
    <3>2. cs = getCourses(metas, lost)
      BY <1>1
    <3>. QED BY ONLY <3>1, <3>2, CoursesDelivered
  <2>2. cs \in Seq({c \in ToSet(cs) : Numbered(c)})
    BY <1>1, <1>3, CoursesFetched
  <2>3. IdsOnce(cs)
    BY <1>1, <1>3, DeliveredOnce
  <2>. QED BY <1>1, <2>1, <2>2, <2>3
<1>7. \A k \in DOMAIN requested : \E i \in DOMAIN cs : cs[i] = requested[k]
  <2> SUFFICES ASSUME NEW k \in DOMAIN requested PROVE \E i \in DOMAIN cs : cs[i] = requested[k]
    OBVIOUS
  <2>1. PICK i \in DOMAIN asked : asked[i].id \notin lost /\ requested[k] = dataToCourse(asked[i])
    BY <1>5
  <2>2. PICK p \in DOMAIN metas : metas[p] = asked[i]
    BY <1>4
  <2>3. PICK c \in DOMAIN cs : cs[c] = dataToCourse(metas[p])
    BY <1>6, <2>1, <2>2
  <2>. QED BY <2>1, <2>2, <2>3
<1>8. \A i \in DOMAIN cs : \E k \in DOMAIN requested : requested[k] = cs[i]
  <2> SUFFICES ASSUME NEW i \in DOMAIN cs PROVE \E k \in DOMAIN requested : requested[k] = cs[i]
    OBVIOUS
  <2>1. PICK p \in DOMAIN metas : metas[p].id \notin lost /\ cs[i] = dataToCourse(metas[p])
    BY <1>6
  <2>2. PICK a \in DOMAIN asked : metas[p] = asked[a]
    BY <1>3
  <2>. QED BY <1>5, <2>1, <2>2
<1>9. \A k \in DOMAIN requested : Matchable(requested[k])
  BY <1>5, TidyMatches
<1>10. /\ Combined(firsts) /\ IdsOnce(firsts)
       /\ \A q \in DOMAIN firsts : \E k \in DOMAIN cs : SameCourse(cs[k], firsts[q])
       /\ \A k \in DOMAIN cs : \E q \in DOMAIN firsts : SameCourse(cs[k], firsts[q])
  <2>1. firsts \in First!sortedCourses(First!withCombinations(cs))
    BY <1>1 DEF firstGetCourses
  <2>2. cs \in Seq({c \in ToSet(cs) : Numbered(c)}) /\ IdsOnce(cs)
    BY <1>6
  <2>. QED BY ONLY <2>1, <2>2, ConstructedOf
<1>11. requested \in Seq({c \in ToSet(requested) : Offered(c)})
  BY RequestedOffers
<1>12. /\ \A k \in DOMAIN requested : getConfigurations(requested[k]) # {} =>
             \E p \in DOMAIN courses : courses[p] = requested[k]
       /\ \A p \in DOMAIN courses : \E k \in DOMAIN requested : courses[p] = requested[k]
  <2>1. courses \in sortedCourses(requested)
    OBVIOUS
  <2>. QED BY ONLY <1>11, <2>1, SortedHasAll
<1>13. \A p, r \in DOMAIN courses : courses[p].id = courses[r].id => p = r
  <2>1. courses \in sortedCourses(requested)
    OBVIOUS
  <2>2. \A i, k \in DOMAIN requested : requested[i].id = requested[k].id => i = k
    BY <1>5 DEF IdsOnce
  <2>. QED BY ONLY <1>11, <2>1, <2>2, SortedOnce
<1>14. \A p \in DOMAIN courses : Matchable(courses[p]) /\ getConfigurations(courses[p]) # {}
  BY <1>9, <1>12, SortedHave
<1>15. \A p \in DOMAIN courses : \E q \in DOMAIN firsts : SameCourse(courses[p], firsts[q])
  BY <1>7, <1>10, <1>12
<1>16. ASSUME NEW q \in DOMAIN firsts, firsts[q].combinations # <<>>
       PROVE  \E p \in DOMAIN courses : SameCourse(courses[p], firsts[q])
  <2>1. PICK k \in DOMAIN requested : SameCourse(requested[k], firsts[q])
    BY <1>8, <1>10
  <2>2. PICK course : course = requested[k] /\ Matchable(course)
    BY <1>9
  <2>3. firsts[q].combinations = First!getCombinations(course)
    BY <2>1, <2>2 DEF SameCourse
  <2>4. PICK P : First!getCombinations(course) \in Seq(Filled(P))
    BY <2>2, CombinationsOf DEF Matchable
  <2>5. \E c : c \in ToSet(First!getCombinations(course))
    <3>1. PICK combinations : combinations = firsts[q].combinations
      OBVIOUS
    <3>2. combinations \in Seq(Filled(P)) /\ combinations # <<>>
      BY <1>16, <2>3, <2>4, <3>1
    <3>3. combinations[1] \in ToSet(combinations)
      BY <3>2 DEF ToSet
    <3>. QED BY <2>3, <3>1, <3>3
  <2>6. getConfigurations(course) # {}
    BY <2>2, <2>5, CombinationPlaced
  <2>. QED BY <1>12, <2>1, <2>2, <2>6
<1>17. ASSUME NEW p \in DOMAIN courses, NEW r \in DOMAIN courses, NEW x \in offeredIds(courses[p]),
              x \in offeredIds(courses[r])
       PROVE  p = r
  <2>1. ASSUME NEW m \in DOMAIN courses, x \in offeredIds(courses[m])
        PROVE  \E i \in DOMAIN catalogue : /\ courses[m].id = i
                  /\ \E section \in ToSet(catalogue[i]) : \E c \in section : c.id = x
    <3>1. PICK i \in DOMAIN asked : courses[m] = dataToCourse(asked[i])
      BY <1>5, <1>12
    <3>2. PICK meta, course : meta = asked[i] /\ course = courses[m]
      OBVIOUS
    <3>3. meta.id \in DOMAIN OldCatalogue /\ course = courseFrom(catalogue, meta)
      BY <1>2, <3>1, <3>2 DEF Metas, dataToCourse
    <3>4. meta.id \in DOMAIN catalogue
      BY <3>3 DEF RequestsAssumption
    <3>5. PICK k \in DOMAIN course.sections : x \in ids(course.sections[k])
      BY <2>1, <3>2 DEF offeredIds
    <3>6. PICK section \in ToSet(catalogue[meta.id]) : course.sections[k] = parsed(section)
      BY <3>3, SectionFrom
    <3>7. PICK c \in parsed(section) : c.id = x
      BY <3>5, <3>6 DEF ids
    <3>8. c \in section
      BY DEF parsed
    <3>9. course.id = meta.id
      BY <3>3, CourseHasId
    <3>. QED BY <3>2, <3>4, <3>6, <3>7, <3>8, <3>9
  <2>2. PICK i \in DOMAIN catalogue : /\ courses[p].id = i
                  /\ \E section \in ToSet(catalogue[i]) : \E c \in section : c.id = x
    BY <1>17, <2>1
  <2>3. PICK k \in DOMAIN catalogue : /\ courses[r].id = k
                  /\ \E section \in ToSet(catalogue[k]) : \E c \in section : c.id = x
    BY <1>17, <2>1
  <2>4. i = k
    BY <2>2, <2>3, GuidsTell
  <2>. QED BY <1>13, <2>2, <2>3, <2>4
<1>18. DOMAIN courses = 1..Len(courses) /\ Len(courses) \in Nat
  BY DEF CoursesInv
<1>19. \A p, r \in DOMAIN courses : offeredIds(courses[p]) \cap offeredIds(courses[r]) # {} => p = r
  BY <1>17
<1>20. \A q, k \in DOMAIN firsts : firsts[q].id = firsts[k].id => q = k
  BY <1>10 DEF IdsOnce
<1>. QED BY <1>10, <1>13, <1>14, <1>15, <1>16, <1>18, <1>19, <1>20 DEF Paired

-----------------------------------------------------------------------------
(* The two generators: their answers                                       *)

\* An answer of version 1 that has not timed out is an error when it has no schedules.
Settled(result, kept) ==
    /\ result.error = "none" <=> result.schedules # {}
    /\ result.error \in {"none", "SCHED_2001"}
    /\ ~kept.did_reach_limit => result.messages = {}

LEMMA AnswerSettled ==
    ASSUME Searching(courses1, filters1, queue1, found1, status1), status1 = "done"
    PROVE  Settled(First!getResult, found1)
<1>1. PICK result, sets : result = First!getResult /\ sets = found1.schedule_sets
  OBVIOUS
<1>2. PICK R : sets \in Seq(Filled(R))
  BY <1>1 DEF Searching, Finished, Sets
<1>3. First!results = Within(sets)
  BY <1>1, FirstToSet DEF First!results, Within
<1>4. CASE sets = <<>>
  <2>1. result = [error |-> "SCHED_2001", messages |-> {}, schedules |-> {}]
    BY <1>1, <1>4 DEF First!getResult
  <2>. QED BY <1>1, <2>1 DEF Settled
<1>5. CASE sets # <<>>
  <2>1. result = [error |-> "none",
                  messages |-> IF found1.did_reach_limit THEN {"SCHED_2002"} ELSE {},
                  schedules |-> {First!ToSet(s.components) : s \in Within(sets)}]
    BY <1>1, <1>3, <1>5 DEF First!getResult
  <2>2. \E s : s \in Within(sets)
    <3>1. PICK set : set = sets[1] /\ set \in Seq(R) /\ set # <<>>
      BY <1>2, <1>5 DEF Filled
    <3>2. set \in ToSet(sets)
      BY <1>2, <1>5, <3>1 DEF ToSet
    <3>3. set[1] \in ToSet(set)
      BY <3>1 DEF ToSet
    <3>. QED BY <3>2, <3>3 DEF Within
  <2>3. result.schedules # {}
    BY <2>1, <2>2
  <2>. QED BY <1>1, <2>1, <2>3 DEF Settled
<1>. QED BY <1>4, <1>5

\* The courses that version 1 searches.
firstCourses == First!sortedCourses(First!withCombinations(firstGetCourses(asked, lost)))

\* Both versions search the courses of one request, and what version 2 answers is what its
\* search has found.
BothInv ==
    /\ filters \in FilterChoices
    /\ phase \in {"generating", "answered", "comparing", "compared"} =>
          requested = getCourses(asked, lost) /\ courses \in sortedCourses(requested)
    /\ phase \in {"answered", "comparing", "compared"} =>
          status = "done" /\ (answer.error = "none" <=> schedules # {})
    /\ phase \in {"comparing", "compared"} => courses1 \in firstCourses
    /\ phase = "compared" /\ status1 = "done" => Settled(outcome, found1)

LEMMA BothInitially == RequestsInit => BothInv
<1> SUFFICES ASSUME RequestsInit PROVE BothInv
  OBVIOUS
<1>1. phase = "generating"
  BY DEF RequestsInit
<1>2. PICK f \in FilterChoices, l \in Limits : construct(getCourses(asked, lost), f, l)
  BY DEF RequestsInit
<1>3. requested = getCourses(asked, lost) /\ courses \in sortedCourses(requested) /\ filters = f
  BY <1>2 DEF construct
<1>. QED BY <1>1, <1>3 DEF BothInv

\* Nothing is found without courses.
LEMMA NothingWithoutCourses ==
    ASSUME SearchInv, requested = <<>>, courses \in sortedCourses(requested) PROVE schedules = {}
<1>1. PICK order : courses = [p \in DOMAIN order |-> requested[order[p]]]
                   /\ order \in [1..Cardinality({i \in DOMAIN requested : getConfigurationCount(requested[i]) # 0})
                                   -> {i \in DOMAIN requested : getConfigurationCount(requested[i]) # 0}]
  BY DEF sortedCourses
<1>2. {i \in DOMAIN requested : getConfigurationCount(requested[i]) # 0} = {}
  OBVIOUS
<1>3. DOMAIN courses = {}
  BY <1>1, <1>2
<1>4. ASSUME NEW s \in schedules PROVE FALSE
  <2>1. Kept(s, best)
    BY DEF SearchInv, KeptInv
  <2>2. PICK ch : ch = s.chosen
    OBVIOUS
  <2>3. ch \in Seq(Seq(Pieces)) /\ Len(ch) = Len(courses) /\ num_courses(s) # 0
    BY <2>1, <2>2 DEF Kept, Sound, Picks
  <2>4. DOMAIN ch = {}
    <3>1. DOMAIN courses = 1..Len(courses)
      BY DEF SearchInv, CoursesInv
    <3>2. DOMAIN ch = 1..Len(ch)
      BY <2>3
    <3>. QED BY ONLY <1>3, <2>3, <3>1, <3>2
  <2>5. {i \in DOMAIN s.chosen : s.chosen[i] # <<>>} = {}
    BY <2>2, <2>4
  <2>. QED BY <2>3, <2>5, FS_EmptySet DEF num_courses
<1>. QED BY <1>4

LEMMA AnsweredWithWhatIsFound ==
    ASSUME SearchInv, BothInv, schedules_generate_v2 \/ generateLocally
    PROVE  answer'.error = "none" <=> schedules # {}
<1>1. CASE schedules_generate_v2
  <2>1. answer' = respondV2 /\ phase = "generating"
    BY <1>1 DEF schedules_generate_v2
  <2>2. requested = <<>> => schedules = {}
    BY <2>1, NothingWithoutCourses DEF BothInv
  <2>3. \A code \in {"SCHED_2003", "SCHED_2001"} : failure(code).error # "none"
    BY DEF failure, NoAnswer
  <2>4. CASE schedules = {}
    BY <2>1, <2>3, <2>4 DEF respondV2
  <2>5. CASE schedules # {}
    BY <2>1, <2>2, <2>5 DEF respondV2
  <2>. QED BY <2>4, <2>5
<1>2. CASE generateLocally
  <2>1. answer' = localResult
    BY <1>2 DEF generateLocally
  <2>2. failure("SCHED_2001").error # "none"
    BY DEF failure, NoAnswer
  <2>3. CASE schedules = {}
    BY <2>1, <2>2, <2>3 DEF localResult
  <2>4. CASE schedules # {}
    BY <2>1, <2>4 DEF localResult, NoAnswer
  <2>. QED BY <2>3, <2>4
<1>. QED BY <1>1, <1>2

LEMMA BothKept == ASSUME SearchInv, FirstInv, BothInv, [RequestsNext]_allVars PROVE BothInv'
<1> DEFINE both == {"generating", "answered", "comparing", "compared"}
<1>1. filters' = filters /\ requested' = requested /\ courses' = courses
  BY DEF RequestsNext, allVars, vars, config, generateSchedules, Next, start, pop, tryConfiguration,
         finish, schedules_generate_v2, generateLocally, schedules_generate, firstGenerates,
         firstAnswers, draw, swapComponents, redraw, saveSchedule, timetableUpdated,
         expandScheduleSkeleton, expanded
<1>2. phase' \in both => phase \in both /\ asked' = asked /\ lost' = lost /\ catalogue' = catalogue
  BY DEF RequestsNext, allVars, request, generateSchedules, schedules_generate_v2, generateLocally,
         schedules_generate, firstGenerates, firstAnswers, draw, swapComponents, redraw,
         saveSchedule, timetableUpdated, expandScheduleSkeleton, expanded
<1>3. phase' \in both => requested' = getCourses(asked, lost)' /\ courses' \in sortedCourses(requested')
  BY <1>1, <1>2, SameRequest DEF BothInv
<1>4. phase' \in both => firstCourses' = firstCourses
  BY <1>2 DEF firstCourses, firstGetCourses, getCourses, dataToCourse
<1>5. CASE generateSchedules
  BY <1>1, <1>3, <1>5 DEF generateSchedules, BothInv
<1>6. CASE schedules_generate_v2 \/ generateLocally
  <2>1. phase' = "answered" /\ status' = "done" /\ schedules' = schedules
    BY <1>6 DEF schedules_generate_v2, generateLocally, vars
  <2>2. answer'.error = "none" <=> schedules' # {}
    BY <1>6, <2>1, AnsweredWithWhatIsFound
  <2>. QED BY <1>1, <1>3, <2>1, <2>2 DEF BothInv
<1>7. CASE schedules_generate
  <2>1. /\ phase = "answered" /\ phase' = "comparing" /\ status' = status
        /\ schedules' = schedules /\ answer' = answer
        /\ First!construct(firstGetCourses(asked, lost), filters)
    BY <1>7 DEF schedules_generate, vars
  <2>2. courses1' \in firstCourses
    BY <2>1 DEF First!construct, firstCourses
  <2>. QED BY <1>1, <1>3, <1>4, <2>1, <2>2 DEF BothInv
<1>8. CASE firstGenerates
  <2>1. /\ First!generate /\ phase' = phase /\ phase \in {"comparing", "expanding"}
        /\ status' = status /\ schedules' = schedules /\ answer' = answer
    BY <1>8 DEF firstGenerates, vars
  <2>2. courses1' = courses1
    BY <2>1 DEF First!generate, First!dequeue, First!timeOut, First!finish
  <2>. QED BY <1>1, <1>3, <1>4, <2>1, <2>2 DEF BothInv
<1>9. CASE firstAnswers
  <2>1. /\ phase = "comparing" /\ phase' = "compared" /\ outcome' = First!getResult
        /\ courses1' = courses1 /\ found1' = found1 /\ status1' = status1
        /\ status' = status /\ schedules' = schedules /\ answer' = answer
    BY <1>9 DEF firstAnswers, vars, firstVars
  <2>2. status1' = "done" => Settled(outcome', found1')
    BY <2>1, AnswerSettled DEF FirstInv
  <2>. QED BY <1>1, <1>3, <1>4, <2>1, <2>2 DEF BothInv
<1>10. CASE UNCHANGED allVars
  <2>1. /\ phase' = phase /\ status' = status /\ schedules' = schedules /\ answer' = answer
        /\ courses1' = courses1 /\ found1' = found1 /\ status1' = status1 /\ outcome' = outcome
    BY <1>10 DEF allVars, vars, firstVars
  <2>. QED BY <1>1, <1>3, <1>4, <2>1 DEF BothInv
<1>11. CASE phase' \notin both
  BY <1>1, <1>11 DEF BothInv
<1>12. \/ generateSchedules \/ (schedules_generate_v2 \/ generateLocally) \/ schedules_generate
       \/ firstGenerates \/ firstAnswers \/ UNCHANGED allVars \/ phase' \notin both
  BY DEF RequestsNext, draw, swapComponents, redraw, saveSchedule, timetableUpdated,
         expandScheduleSkeleton, expanded
<1>. QED BY <1>5, <1>6, <1>7, <1>8, <1>9, <1>10, <1>11, <1>12

LEMMA InvBoth ==
    ASSUME RequestsAssumption, GuidsAssumption, SearchInv, SearchedInv, FirstInv, BothInv
    PROVE  SameAnswer
<1> SUFFICES ASSUME phase = "compared", Comparable
             PROVE  /\ (answer.error = "none") = (outcome.error = "none")
                    /\ {First!slots(s) : s \in outcome.schedules}
                       = {First!slots(ToSet(s.components)) : s \in schedules}
  BY DEF SameAnswer
<1>1. /\ Exact /\ ~stopped /\ ~found1.did_reach_limit /\ status1 = "done"
      /\ \A i \in DOMAIN requested : Tidy(requested[i])
  BY DEF Comparable, Tidy, NoTwins
<1>2. AskedOnce
  <2>1. Cardinality({asked[i].id : i \in DOMAIN asked}) = Len(asked)
    BY DEF Comparable
  <2>2. DOMAIN asked = 1..Len(asked) /\ Len(asked) \in Nat
    BY DEF SearchedInv, RequestsAssumption
  <2>. QED BY ONLY <2>1, <2>2, AskedByCount
<1>3. FilterOf(filters)
  BY GeneratorAssumption DEF SearchInv, BothInv, FilterOf
<1>4. Paired(courses, courses1)
  BY <1>1, <1>2, RequestPaired DEF SearchInv, SearchedInv, BothInv, firstCourses
<1>5. PICK A, B : A = BestCandidates /\ B = BestWanted(courses1, filters)
  OBVIOUS
<1>6. weeksWanted(B) = weeksTaken(A)
  BY <1>1, <1>3, <1>4, <1>5, SameBest DEF SearchInv
<1>7. outcome.schedules = {ToSet(cs) : cs \in B}
  <2>1. outcome.error \in {"none", "SCHED_2001"} /\ outcome.messages = {}
    BY <1>1 DEF BothInv, Settled
  <2>. QED BY <1>5, <2>1 DEF FirstInv, Claimed
<1>8. {First!slots(s) : s \in outcome.schedules} = weeksWanted(B)
  BY <1>7 DEF weeksWanted
<1>9. {s.chosen : s \in schedules} = A
  BY <1>1, <1>5 DEF SearchInv, ResultIsComplete, BothInv
<1>10. \A s \in schedules : s.components = FlattenSeq(s.chosen)
  BY DEF SearchInv, KeptInv, Kept, Sound, scheduleOf
<1>11. {First!slots(ToSet(s.components)) : s \in schedules} = weeksTaken(A)
  BY <1>9, <1>10 DEF weeksTaken
<1>12. schedules # {} <=> outcome.schedules # {}
  <2>1. schedules # {} <=> A # {}
    BY ONLY <1>9
  <2>3. outcome.schedules # {} <=> B # {}
    BY ONLY <1>7
  <2>2. (A # {} <=> weeksTaken(A) # {}) /\ (B # {} <=> weeksWanted(B) # {})
    BY DEF weeksTaken, weeksWanted
  <2>. QED BY <1>6, <2>1, <2>2, <2>3
<1>13. answer.error = "none" <=> outcome.error = "none"
  BY <1>1, <1>12 DEF BothInv, Settled
<1>. QED BY <1>6, <1>8, <1>11, <1>13

\* Where Comparable says that the two versions mean the same, they offer the same weeks, and
\* one fails where the other does: the depth-first search of ScheduleGenerator over slots with
\* their alternates finds what the breadth-first search of Generator finds over single
\* components, however many courses, sections and alternates there are.
THEOREM SameWeeks == RequestsSpec => []SameAnswer
<1>1. RequestsInit => FirstInv /\ BothInv
  BY BothInitially DEF RequestsInit, FirstInv
<1>2. AnsweredInv /\ limit \in Nat \ {0} /\ FirstInv /\ BothInv /\ [RequestsNext]_allVars
        => FirstInv' /\ BothInv'
  BY FirstKept, BothKept, RequestsAssumption DEF AnsweredInv
<1>3. AnsweredInv /\ FirstInv /\ BothInv => SameAnswer
  BY InvBoth, RequestsAssumption, GuidsAssumption DEF AnsweredInv
<1>. QED BY <1>1, <1>2, <1>3, AnsweredAlways, LimitAlways, PTL DEF RequestsSpec

====
