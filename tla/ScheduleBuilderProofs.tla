---- MODULE ScheduleBuilderProofs ----
(***************************************************************************)
(* What the schedule builder shows, for any number of courses, terms,      *)
(* visits and changes: courses stay in their term, schedules with          *)
(* conflicts are marked, and what is shown was generated from the input    *)
(* as it is set now.                                                       *)
(***************************************************************************)
EXTENDS ScheduleBuilder, TLAPS, FiniteSetTheorems

Switch == {"optional", "partial", "unloaded"}
Configured == UNION {[S -> SUBSET Switch] : S \in SUBSET Course}
Found == [filters : Filter, courses : Configured, conflicts : BOOLEAN, filter_overrides : BOOLEAN]
Call == [term : Term, visit : Nat, filters : Filter, remote : BOOLEAN, override : BOOLEAN,
         sent : Configured, courses : [Term -> SUBSET Course]]

TypeInv ==
    /\ term \in Term \cup {NoTerm}
    /\ lookup \in SUBSET [course : Course, term : Term]
    /\ coursesByTerm \in [Term -> SUBSET Course]
    /\ config \in [Course -> SUBSET Switch]
    /\ removing \in SUBSET Course
    /\ filters \in Filter
    /\ remote \in BOOLEAN
    /\ tab \in {"courses", "options", "schedule"}
    /\ visit \in Nat
    /\ scheduleSets \in [Term -> Found \cup {NoSet}]
    /\ shown \in [Term -> [status : {"off", "pending", "success", "error"},
                           value : Found \cup {NoSet}]]
    /\ calls \in Seq(Call)
    /\ disturbed \in BOOLEAN

\* A course that is listed has been looked up, in its own term.
CourseInv == \A t \in Term : \A c \in coursesByTerm[t] : termOf[c] = t /\ "unloaded" \notin config[c]

Marked(set) == set # NoSet /\ set.conflicts => set.filter_overrides

MarkInv == \A t \in Term : Marked(scheduleSets[t]) /\ Marked(shown[t].value)

configured(t) == [c \in coursesByTerm[t] |-> config[c]]

\* A generation that is still wanted: its term waits for it, and nothing it was made from
\* has changed.
Wanted(call) ==
    /\ call.visit = visit
    /\ call.filters = filters
    /\ call.courses = coursesByTerm
    /\ call.sent = configured(call.term)
    /\ ~call.override
    /\ coursesByTerm[call.term] # {}
    /\ shown[call.term].status = "pending"

CallInv ==
    /\ tab # "courses" => lookup = {}
    /\ alert => tab = "schedule"
    /\ tab # "schedule" => calls = <<>> /\ shown = [t \in Term |-> Off]
    /\ \A i \in DOMAIN calls : Wanted(calls[i])
    /\ \A i, k \in DOMAIN calls : calls[i].term = calls[k].term => i = k

\* Whatever is not being asked for again is in the store as it is shown, and current.
ShownInv ==
    \A t \in Term :
        /\ shown[t].status # "error"
        /\ tab = "schedule" => (coursesByTerm[t] = {} <=> shown[t].status = "off")
        /\ shown[t].status = "success" =>
                /\ shown[t].value = scheduleSets[t]
                /\ shown[t].value # NoSet
                /\ isCurrent(shown[t].value, t)

\* What the memoized state says of a term is what its set was generated from, unless the
\* term is being asked for again.
CacheInv ==
    \A p \in previousState, t \in Term :
        t \in DOMAIN p.termMeta /\ shown[t].status # "pending" =>
            \/ scheduleSets[t] = NoSet
            \/ scheduleSets[t].filters = p.filters /\ scheduleSets[t].courses = p.termMeta[t]

BuilderInv == TypeInv /\ CourseInv /\ MarkInv /\ (~disturbed => CallInv /\ ShownInv /\ CacheInv)

-----------------------------------------------------------------------------
(* Lemmas                                                                  *)

\* A set of schedules is not mistaken for none.
LEMMA FoundIsSomething == \A set \in Found : set # NoSet
    BY DEF Found, NoSet

\* Each of the terms that are asked for is asked for once.
LEMMA InOrderOnce ==
    ASSUME NEW set, IsFiniteSet(set)
    PROVE  /\ Cardinality(set) \in Nat
           /\ inOrder(set) \in [1..Cardinality(set) -> set]
           /\ \A i, k \in 1..Cardinality(set) : inOrder(set)[i] = inOrder(set)[k] => i = k
<1> DEFINE n == Cardinality(set)
           onto(s) == \A t \in set : \E i \in DOMAIN s : s[i] = t
<1>1. n \in Nat /\ \E s : s \in Bijection(1..n, set)
    BY FS_CardinalityType DEF ExistsBijection
<1>2. \E s \in [1..n -> set] : onto(s)
    BY <1>1 DEF Bijection, Injection, Surjection
<1>3. inOrder(set) \in [1..n -> set] /\ onto(inOrder(set))
    BY <1>2 DEF inOrder
<1>4. inOrder(set) \in Surjection(1..n, set)
    BY <1>3 DEF Surjection
<1>5. IsFiniteSet(1..n) /\ Cardinality(1..n) = n
    BY <1>1, FS_Interval
<1>6. inOrder(set) \in Injection(1..n, set)
    BY <1>4, <1>5, FS_SurjSameCardinalityImpliesInj
<1> QED
    BY <1>1, <1>3, <1>6 DEF Injection, IsInjective

\* What is left of a sequence without one element.
LEMMA WithoutOne ==
    ASSUME NEW S, NEW seq \in Seq(S), NEW i \in DOMAIN seq
    PROVE  /\ without(seq, i) \in Seq(S)
           /\ Len(without(seq, i)) = Len(seq) - 1
           /\ \A k \in 1..Len(seq) - 1 : without(seq, i)[k] = IF k < i THEN seq[k] ELSE seq[k + 1]
<1> DEFINE n == Len(seq)
           left == SubSeq(seq, 1, i - 1)
           right == SubSeq(seq, i + 1, n)
<1>1. i \in 1..n /\ n \in Nat
    OBVIOUS
<1>2. left \in Seq(S) /\ Len(left) = i - 1 /\ \A k \in 1..i - 1 : left[k] = seq[k]
    BY <1>1
<1>3. right \in Seq(S) /\ Len(right) = n - i /\ \A k \in 1..n - i : right[k] = seq[k + i]
    BY <1>1
<1>4. without(seq, i) = left \o right
    BY DEF without
<1> HIDE DEF n, left, right
<1>5. /\ left \o right \in Seq(S)
      /\ Len(left \o right) = n - 1
      /\ \A k \in 1..n - 1 : (left \o right)[k] = IF k < i THEN left[k] ELSE right[k - (i - 1)]
    BY SMTT(30), <1>1, <1>2, <1>3
<1>6. ASSUME NEW k \in 1..n - 1
      PROVE  (left \o right)[k] = IF k < i THEN seq[k] ELSE seq[k + 1]
    <2>1. CASE k < i
        BY <1>1, <1>2, <1>5, <2>1
    <2>2. CASE ~(k < i)
        <3>1. k - (i - 1) \in 1..n - i /\ (k - (i - 1)) + i = k + 1
            BY <1>1, <2>2
        <3>2. right[k - (i - 1)] = seq[k + 1]
            BY <1>3, <3>1
        <3> QED
            BY <1>5, <2>2, <3>2
    <2> QED
        BY <2>1, <2>2
<1> QED
    BY <1>4, <1>5, <1>6 DEF n

\* The generations a visit of the tab, or a change of the setting, asks for.
ordinary(t, r) == generation(t, r, FALSE)
newCalls(fresh, r) == [i \in 1..Cardinality(fresh) |-> ordinary(inOrder(fresh)[i], r)]

\* Each of them for one of the terms, each term once.
onceEach(more, fresh, r) ==
    /\ more \in Seq(Call)
    /\ \A i \in DOMAIN more : \E t \in fresh : more[i] = ordinary(t, r)
    /\ \A i, k \in DOMAIN more : more[i].term = more[k].term => i = k

LEMMA GenerationIsCall ==
    ASSUME TypeInv, visit' \in Nat, NEW t \in Term, NEW r \in BOOLEAN, NEW o \in BOOLEAN
    PROVE  generation(t, r, o) \in Call
<1>1. [c \in coursesByTerm[t] |-> config[c]] \in [coursesByTerm[t] -> SUBSET Switch]
    BY DEF TypeInv
<1>2. [c \in coursesByTerm[t] |-> config[c]] \in Configured
    BY <1>1 DEF TypeInv, Configured
<1> QED
    BY <1>2 DEF TypeInv, generation, Call

LEMMA NewCallsOnce ==
    ASSUME TypeInv, visit' \in Nat, NEW fresh \in SUBSET Term, NEW r \in BOOLEAN
    PROVE  onceEach(newCalls(fresh, r), fresh, r)
<1> DEFINE n == Cardinality(fresh)
           s == inOrder(fresh)
<1>1. IsFiniteSet(fresh)
    BY BuilderAssumption, FS_Subset DEF BuilderAssumption
<1>2. /\ n \in Nat
      /\ s \in [1..n -> fresh]
      /\ \A i, k \in 1..n : s[i] = s[k] => i = k
    BY <1>1, InOrderOnce
<1> HIDE DEF n, s
<1>3. newCalls(fresh, r) = [i \in 1..n |-> ordinary(s[i], r)]
    BY DEF newCalls, n, s
<1>4. \A i \in 1..n : ordinary(s[i], r) \in Call
    BY <1>2, GenerationIsCall DEF ordinary
<1>5. newCalls(fresh, r) \in Seq(Call) /\ DOMAIN newCalls(fresh, r) = 1..n
    <2>1. newCalls(fresh, r) \in [1..n -> Call]
        BY <1>3, <1>4
    <2>2. \A f \in [1..n -> Call] : f \in Seq(Call) /\ DOMAIN f = 1..n
        BY <1>2
    <2> QED
        BY <2>1, <2>2
<1>6. \A i \in 1..n : newCalls(fresh, r)[i] = ordinary(s[i], r)
    BY <1>3
<1>7. \A i \in 1..n : newCalls(fresh, r)[i].term = s[i]
    <2>1. \A t : ordinary(t, r).term = t
        BY DEF ordinary, generation
    <2> QED
        BY <1>6, <2>1
<1> QED
    BY <1>2, <1>5, <1>6, <1>7 DEF onceEach

\* What a generation makes is schedules with the mark they should have.
LEMMA FinalIsFound ==
    ASSUME NEW call \in Call, NEW set, NEW final,
           set = [filters |-> call.filters, courses |-> call.sent, conflicts |-> call.override,
                  filter_overrides |-> FALSE],
           final = IF call.override THEN marked(set) ELSE set
    PROVE  /\ final \in Found
           /\ final # NoSet
           /\ Marked(final)
           /\ final.filters = call.filters
           /\ final.courses = call.sent
<1>1. set \in Found
    BY DEF Found, Call
<1>2. final \in Found /\ final.filters = set.filters /\ final.courses = set.courses
    BY <1>1 DEF Found, marked
<1>3. Marked(final)
    BY <1>1 DEF Found, marked, Marked, Call
<1> QED
    BY <1>1, <1>2, <1>3, FoundIsSomething

LEMMA MarkedIsFound ==
    ASSUME NEW set \in Found
    PROVE  marked(set) \in Found /\ Marked(marked(set))
    BY DEF marked, Marked, Found

LEMMA CallsTyped ==
    ASSUME TypeInv
    PROVE  /\ calls \in Seq(Call)
           /\ Len(calls) \in Nat
           /\ DOMAIN calls = 1..Len(calls)
           /\ \A i \in DOMAIN calls : calls[i] \in Call /\ calls[i].term \in Term
<1>1. calls \in Seq(Call)
    BY DEF TypeInv
<1>2. \A i \in DOMAIN calls : calls[i] \in Call
    BY <1>1
<1>3. \A call \in Call : call.term \in Term
    BY DEF Call
<1> QED
    BY <1>1, <1>2, <1>3

\* An element of two sequences in one is an element of one of them.
LEMMA FromOneOfTwo ==
    ASSUME NEW S, NEW a \in Seq(S), NEW b \in Seq(S)
    PROVE  /\ DOMAIN (a \o b) \subseteq Nat
           /\ \A i \in DOMAIN (a \o b) :
                \/ i \in DOMAIN a /\ (a \o b)[i] = a[i]
                \/ i - Len(a) \in DOMAIN b /\ (a \o b)[i] = b[i - Len(a)]
    OBVIOUS

\* What the memoized state lets be reused is in the store.
LEMMA CacheIsStored ==
    ASSUME NEW t \in Term, NEW l, NEW f, NEW r, NEW p
    PROVE  getTermScheduleDataCache(t, l, f, r, p) \in {scheduleSets[t], NoSet}
    BY DEF getTermScheduleDataCache

-----------------------------------------------------------------------------
(* Types                                                                   *)

LEMMA TypeStep ==
    ASSUME TypeInv, [Next]_vars
    PROVE  TypeInv'
<1> USE DEF TypeInv
<1>1. CASE getAvailableTerms \/ updateTerm
    BY <1>1 DEF getAvailableTerms, updateTerm, settingVars, pageVars, setVars, termVars
<1>2. ASSUME NEW c \in Course, addCourse(c)
      PROVE  TypeInv'
    BY <1>2 DEF addCourse, settingVars, pageVars, setVars, termVars
<1>3. CASE lookUpCourse
    <2>1. ASSUME NEW l \in lookup
          PROVE  /\ addCourseData(l.course, l.term) \in [Term -> SUBSET Course]
                 /\ [config EXCEPT ![l.course] = {}] \in [Course -> SUBSET Switch]
        BY DEF addCourseData
    <2> QED
        BY <1>3, <2>1 DEF lookUpCourse, settingVars, pageVars, setVars, termVars
<1>4. CASE deleteCourse
    <2>1. ASSUME NEW c \in removing, NEW left \in SUBSET Course
          PROVE  /\ [coursesByTerm EXCEPT ![termOf[c]] = left] \in [Term -> SUBSET Course]
                 /\ unmount(termOf[c]) \in
                        [Term -> [status : {"off", "pending", "success", "error"},
                                  value : Found \cup {NoSet}]]
        BY DEF unmount, Off
    <2>2. \A c \in removing : coursesByTerm[termOf[c]] \ {c} \in SUBSET Course
        BY BuilderAssumption DEF BuilderAssumption
    <2>3. disturbed' \in BOOLEAN
        BY <1>4 DEF deleteCourse
    <2> QED
        BY <1>4, <2>1, <2>2, <2>3 DEF deleteCourse, settingVars, pageVars, setVars, termVars
<1>5. ASSUME NEW c \in Course, changeMandatory(c) \/ updateSections(c)
      PROVE  TypeInv'
    BY <1>5 DEF changeMandatory, updateSections, configure, Switch, settingVars, pageVars, setVars,
                termVars
<1>6. ASSUME NEW c \in Course, handleRemoveClicked(c)
      PROVE  TypeInv'
    BY <1>6 DEF handleRemoveClicked, settingVars, pageVars, setVars, termVars
<1>7. CASE handleFilterChange \/ handleSettingChange
    BY <1>7 DEF handleFilterChange, handleSettingChange, courseVars, pageVars, setVars
<1>8. CASE moveToSchedulesTab
    <2> PICK fresh : fresh = {t \in mounted : cached(t) = NoSet}
        OBVIOUS
    <2>1. fresh \in SUBSET Term
        BY DEF mounted
    <2>2. calls' = calls \o newCalls(fresh, remote) /\ visit' = visit + 1 /\ tab' = "schedule"
        BY <1>8 DEF moveToSchedulesTab, newCalls, ordinary
    <2>3. visit' \in Nat
        BY <2>2
    <2>4. newCalls(fresh, remote) \in Seq(Call)
        BY <2>1, <2>3, NewCallsOnce DEF onceEach
    <2>5. calls' \in Seq(Call)
        BY <2>2, <2>4
    <2>6. \A t \in Term : cached(t) \in Found \cup {NoSet}
        BY CacheIsStored DEF cached
    <2>7. shown' \in [Term -> [status : {"off", "pending", "success", "error"},
                               value : Found \cup {NoSet}]]
        BY <1>8, <2>6 DEF moveToSchedulesTab, Off
    <2> QED
        BY <1>8, <2>2, <2>3, <2>5, <2>7 DEF moveToSchedulesTab, courseVars, settingVars, setVars
<1>9. CASE handleTabSelect \/ enableRemoteSchedulerAlert
    <2>1. CASE handleTabSelect
        <3>1. shown' \in [Term -> [status : {"off", "pending", "success", "error"},
                                   value : Found \cup {NoSet}]]
            BY <2>1 DEF handleTabSelect, Off
        <3>2. disturbed' \in BOOLEAN
            BY <2>1 DEF handleTabSelect
        <3> QED
            BY <2>1, <3>1, <3>2 DEF handleTabSelect, courseVars, settingVars, setVars
    <2>2. CASE enableRemoteSchedulerAlert
        BY <2>2 DEF enableRemoteSchedulerAlert, courseVars, settingVars, setVars
    <2> QED
        BY <1>9, <2>1, <2>2
<1>10. CASE setRemoteSchedulerSetting
    <2> DEFINE hit(t) == getTermScheduleDataCache(t, coursesByTerm, filters, TRUE, previousState)
               ready == {t \in mounted : shown[t].status # "pending"}
    <2> PICK fresh : fresh = {t \in ready : hit(t) = NoSet}
        OBVIOUS
    <2>1. fresh \in SUBSET Term
        BY DEF mounted
    <2> PICK more : more = newCalls(fresh, TRUE)
        OBVIOUS
    <2>2. calls' = calls \o more /\ visit' = visit /\ remote' = TRUE
        BY <1>10 DEF setRemoteSchedulerSetting, newCalls, ordinary
    <2>3. more \in Seq(Call)
        BY <2>1, <2>2, NewCallsOnce DEF onceEach
    <2>4. calls' \in Seq(Call)
        <3>1. calls \in Seq(Call)
            OBVIOUS
        <3> QED
            BY ONLY <2>2, <2>3, <3>1
    <2>5. \A t \in Term : hit(t) \in Found \cup {NoSet}
        BY ZenonT(60), CacheIsStored
    <2>6. shown' = [t \in Term |->
                        IF t \in fresh THEN [shown[t] EXCEPT !.status = "pending"]
                        ELSE IF t \in ready THEN [status |-> "success", value |-> hit(t)]
                        ELSE shown[t]]
        BY <1>10 DEF setRemoteSchedulerSetting
    <2> HIDE DEF hit, ready
    <2>7. shown' \in [Term -> [status : {"off", "pending", "success", "error"},
                               value : Found \cup {NoSet}]]
        BY <2>5, <2>6
    <2> QED
        BY <1>10, <2>2, <2>4, <2>7 DEF setRemoteSchedulerSetting, courseVars, setVars
<1>11. ASSUME NEW t \in Term, generateWithConflicts(t)
       PROVE  TypeInv'
    <2>1. CASE cached(t) # NoSet
        <3>1. cached(t) \in Found
            BY <2>1, CacheIsStored DEF cached
        <3>2. marked(cached(t)) \in Found
            BY <3>1, MarkedIsFound
        <3>3. /\ scheduleSets' \in [Term -> Found \cup {NoSet}]
              /\ shown' \in [Term -> [status : {"off", "pending", "success", "error"},
                                      value : Found \cup {NoSet}]]
            <4>1. /\ scheduleSets' = [scheduleSets EXCEPT ![t] = marked(cached(t))]
                  /\ shown' = [shown EXCEPT ![t].value = marked(cached(t))]
                BY <1>11, <2>1 DEF generateWithConflicts
            <4> QED
                BY <3>2, <4>1
        <3> QED
            BY <1>11, <2>1, <3>3 DEF generateWithConflicts, courseVars, settingVars
    <2>2. CASE cached(t) = NoSet
        <3> PICK call : call = generation(t, remote, TRUE)
            OBVIOUS
        <3>1. call \in Call
            BY <1>11, GenerationIsCall DEF generateWithConflicts
        <3>2. calls' \in Seq(Call)
            <4>1. calls' = Append(calls, call)
                BY <1>11, <2>2 DEF generateWithConflicts
            <4>2. calls \in Seq(Call)
                OBVIOUS
            <4> QED
                BY ONLY <3>1, <4>1, <4>2
        <3> QED
            BY <1>11, <2>2, <3>2 DEF generateWithConflicts, courseVars, settingVars
    <2> QED
        BY <2>1, <2>2
<1>12. ASSUME NEW i \in DOMAIN calls, answer(i)
       PROVE  TypeInv'
    <2>1. calls' \in Seq(Call) /\ calls[i] \in Call
        BY <1>12, WithoutOne DEF answer
    <2>2. ASSUME NEW status \in {"success", "error"}, NEW value \in Found \cup {NoSet},
                 shown' = received(calls[i], status, value)
          PROVE  shown' \in [Term -> [status : {"off", "pending", "success", "error"},
                                      value : Found \cup {NoSet}]]
        BY <2>1, <2>2 DEF received, Call
    <2>3. CASE generated(i)
        <3>1. PICK set, final :
                /\ set = [filters |-> calls[i].filters, courses |-> calls[i].sent,
                          conflicts |-> calls[i].override, filter_overrides |-> FALSE]
                /\ final = IF calls[i].override THEN marked(set) ELSE set
                /\ scheduleSets' = [scheduleSets EXCEPT ![calls[i].term] = final]
                /\ shown' = received(calls[i], "success", final)
                /\ UNCHANGED disturbed
            BY <2>3 DEF generated
        <3>2. final \in Found
            BY <2>1, <3>1, FinalIsFound
        <3> QED
            BY <1>12, <2>1, <2>2, <3>1, <3>2 DEF answer, courseVars, settingVars, pageVars
    <2>4. CASE noneFound(i) \/ generationFails(i)
        BY <1>12, <2>1, <2>2, <2>4 DEF answer, noneFound, generationFails, courseVars, settingVars,
                                       pageVars, setVars
    <2> QED
        BY <1>12, <2>3, <2>4 DEF answer
<1>13. CASE UNCHANGED vars
    BY <1>13 DEF vars, courseVars, settingVars, pageVars, setVars
<1> QED
    BY <1>1, <1>2, <1>3, <1>4, <1>5, <1>6, <1>7, <1>8, <1>9, <1>10, <1>11, <1>12, <1>13 DEF Next

-----------------------------------------------------------------------------
(* Courses and marks                                                       *)

LEMMA CourseStep ==
    ASSUME TypeInv, CourseInv, [Next]_vars
    PROVE  CourseInv'
<1>1. CASE lookUpCourse
    <2>1. CASE UNCHANGED <<coursesByTerm, config>>
        BY <2>1 DEF CourseInv
    <2>2. ASSUME NEW l \in lookup, l.term = termOf[l.course],
                 coursesByTerm' = addCourseData(l.course, l.term),
                 config' = [config EXCEPT ![l.course] = {}]
          PROVE  CourseInv'
        <3>1. \A t \in Term : \A c \in coursesByTerm'[t] :
                c \in Course /\ (c \in coursesByTerm[t] \/ (c = l.course /\ t = l.term))
            BY <2>2 DEF TypeInv, addCourseData
        <3>2. ASSUME NEW c \in Course
              PROVE  config'[c] = IF c = l.course THEN {} ELSE config[c]
            BY <2>2 DEF TypeInv
        <3>3. "unloaded" \notin {}
            OBVIOUS
        <3> QED
            BY <2>2, <3>1, <3>2, <3>3 DEF CourseInv
    <2> QED
        BY <1>1, <2>1, <2>2 DEF lookUpCourse
<1>2. ASSUME NEW c \in Course, changeMandatory(c) \/ updateSections(c)
      PROVE  CourseInv'
    <2>1. PICK switch \in {"optional", "partial"} : configure(c, switch)
        BY <1>2 DEF changeMandatory, updateSections
    <2>2. /\ UNCHANGED coursesByTerm
          /\ config' \in [Course -> SUBSET Switch]
          /\ \A d \in Course : "unloaded" \in config'[d] => "unloaded" \in config[d]
        BY <2>1 DEF configure, TypeInv, Switch
    <2> QED
        BY <2>2 DEF CourseInv, TypeInv
<1>3. CASE deleteCourse
    <2>1. UNCHANGED config /\ \A t \in Term : coursesByTerm'[t] \subseteq coursesByTerm[t]
        BY <1>3 DEF deleteCourse, TypeInv
    <2> QED
        BY <2>1 DEF CourseInv
<1>4. CASE UNCHANGED <<coursesByTerm, config>>
    BY <1>4 DEF CourseInv
<1>5. ASSUME NEW c \in Course, addCourse(c) \/ handleRemoveClicked(c)
      PROVE  UNCHANGED <<coursesByTerm, config>>
    BY <1>5 DEF addCourse, handleRemoveClicked
<1>6. ASSUME NEW t \in Term, generateWithConflicts(t)
      PROVE  UNCHANGED <<coursesByTerm, config>>
    BY <1>6 DEF generateWithConflicts, courseVars
<1>7. ASSUME NEW i \in DOMAIN calls, answer(i)
      PROVE  UNCHANGED <<coursesByTerm, config>>
    BY <1>7 DEF answer, courseVars
<1> QED
    BY <1>1, <1>2, <1>3, <1>4, <1>5, <1>6, <1>7
    DEF Next, getAvailableTerms, updateTerm, handleFilterChange, handleSettingChange,
        moveToSchedulesTab, handleTabSelect, enableRemoteSchedulerAlert,
        setRemoteSchedulerSetting, vars, courseVars

\* What is received is shown as it is.
LEMMA ReceivedMarked ==
    ASSUME TypeInv, MarkInv, NEW call \in Call, NEW status \in {"success", "error"},
           NEW value \in Found \cup {NoSet}, Marked(value), shown' = received(call, status, value)
    PROVE  \A t \in Term : Marked(shown'[t].value)
    BY DEF TypeInv, MarkInv, received, Call

LEMMA MarkStep ==
    ASSUME TypeInv, MarkInv, [Next]_vars
    PROVE  MarkInv'
<1>1. Marked(NoSet)
    BY DEF Marked
<1>2. CASE UNCHANGED <<scheduleSets, shown>>
    BY <1>2 DEF MarkInv
<1>3. CASE deleteCourse \/ handleTabSelect
    BY <1>1, <1>3 DEF deleteCourse, unmount, handleTabSelect, Off, MarkInv, TypeInv, setVars
<1>4. CASE moveToSchedulesTab
    <2>1. \A t \in Term : Marked(cached(t))
        BY <1>1, CacheIsStored DEF cached, MarkInv
    <2> QED
        BY <1>1, <1>4, <2>1 DEF moveToSchedulesTab, Off, MarkInv, TypeInv, setVars
<1>5. CASE setRemoteSchedulerSetting
    <2> DEFINE hit(t) == getTermScheduleDataCache(t, coursesByTerm, filters, TRUE, previousState)
               ready == {t \in mounted : shown[t].status # "pending"}
    <2>1. \A t \in Term : Marked(hit(t))
        BY <1>1, CacheIsStored DEF MarkInv
    <2>2. PICK fresh : shown' = [t \in Term |->
                        IF t \in fresh THEN [shown[t] EXCEPT !.status = "pending"]
                        ELSE IF t \in ready THEN [status |-> "success", value |-> hit(t)]
                        ELSE shown[t]]
        BY <1>5 DEF setRemoteSchedulerSetting
    <2> HIDE DEF hit, ready
    <2>3. \A t \in Term : Marked(shown'[t].value)
        BY <2>1, <2>2 DEF MarkInv, TypeInv
    <2> QED
        BY <1>5, <2>3 DEF setRemoteSchedulerSetting, MarkInv, setVars
<1>6. ASSUME NEW t \in Term, generateWithConflicts(t)
      PROVE  MarkInv'
    <2>1. CASE cached(t) # NoSet
        <3>1. cached(t) \in Found
            BY <2>1, CacheIsStored DEF cached, TypeInv
        <3>2. Marked(marked(cached(t)))
            BY <3>1, MarkedIsFound
        <3>3. /\ scheduleSets' = [scheduleSets EXCEPT ![t] = marked(cached(t))]
              /\ shown' = [shown EXCEPT ![t].value = marked(cached(t))]
            BY <1>6, <2>1 DEF generateWithConflicts
        <3> QED
            BY <3>2, <3>3 DEF MarkInv, TypeInv
    <2>2. CASE cached(t) = NoSet
        BY <1>2, <1>6, <2>2 DEF generateWithConflicts
    <2> QED
        BY <2>1, <2>2
<1>7. ASSUME NEW i \in DOMAIN calls, answer(i)
      PROVE  MarkInv'
    <2>1. calls[i] \in Call
        BY DEF TypeInv
    <2>2. CASE generated(i)
        <3>1. PICK set, final :
                /\ set = [filters |-> calls[i].filters, courses |-> calls[i].sent,
                          conflicts |-> calls[i].override, filter_overrides |-> FALSE]
                /\ final = IF calls[i].override THEN marked(set) ELSE set
                /\ scheduleSets' = [scheduleSets EXCEPT ![calls[i].term] = final]
                /\ shown' = received(calls[i], "success", final)
            BY <2>2 DEF generated
        <3>2. final \in Found /\ Marked(final)
            BY <2>1, <3>1, FinalIsFound
        <3>3. \A t \in Term : Marked(shown'[t].value)
            BY <2>1, <3>1, <3>2, ReceivedMarked
        <3>4. \A t \in Term : Marked(scheduleSets'[t])
            BY <3>1, <3>2 DEF MarkInv, TypeInv
        <3> QED
            BY <3>3, <3>4 DEF MarkInv
    <2>3. CASE noneFound(i) \/ generationFails(i)
        <3>1. \A t \in Term : Marked(shown'[t].value)
            BY <1>1, <2>1, <2>3, ReceivedMarked DEF noneFound, generationFails
        <3> QED
            BY <2>3, <3>1 DEF noneFound, generationFails, MarkInv, setVars
    <2> QED
        BY <1>7, <2>2, <2>3 DEF answer
<1>8. ASSUME NEW c \in Course,
             addCourse(c) \/ changeMandatory(c) \/ updateSections(c) \/ handleRemoveClicked(c)
      PROVE  UNCHANGED <<scheduleSets, shown>>
    BY <1>8 DEF addCourse, changeMandatory, updateSections, configure, handleRemoveClicked, setVars
<1> QED
    BY <1>2, <1>3, <1>4, <1>5, <1>6, <1>7, <1>8
    DEF Next, getAvailableTerms, updateTerm, lookUpCourse, handleFilterChange,
        handleSettingChange, enableRemoteSchedulerAlert, vars, setVars

-----------------------------------------------------------------------------
(* What is shown                                                           *)

\* A set that counts as up to date is the stored one and was generated from the input as
\* it is set now.
LEMMA CacheHit ==
    ASSUME TypeInv, CacheInv, NEW t \in Term, coursesByTerm[t] # {},
           shown[t].status # "pending", NEW r, NEW set,
           set = getTermScheduleDataCache(t, coursesByTerm, filters, r, previousState),
           set # NoSet
    PROVE  set = scheduleSets[t] /\ isCurrent(set, t)
<1>1. PICK p \in previousState :
        /\ filters = p.filters
        /\ t \in DOMAIN p.termMeta
        /\ getTermMeta(coursesByTerm)[t] = p.termMeta[t]
        /\ set = scheduleSets[t]
    BY DEF getTermScheduleDataCache
<1>2. getTermMeta(coursesByTerm)[t] = configured(t)
    BY DEF getTermMeta, configured
<1>3. set.filters = filters /\ set.courses = configured(t)
    BY <1>1, <1>2 DEF CacheInv
<1> QED
    BY <1>1, <1>3 DEF isCurrent, configured

\* A generation that will be wanted after the step.
WantedNow(call) ==
    /\ call.visit = visit'
    /\ call.filters = filters'
    /\ call.courses = coursesByTerm'
    /\ call.sent = [c \in coursesByTerm'[call.term] |-> config'[c]]
    /\ ~call.override
    /\ coursesByTerm'[call.term] # {}
    /\ shown'[call.term].status = "pending"

\* Nothing that counts changes.
LEMMA SameStep ==
    ASSUME CallInv, ShownInv, CacheInv,
           UNCHANGED <<lookup, coursesByTerm, config, filters, tab, visit, scheduleSets,
                       previousState, shown, calls>>,
           alert' => tab = "schedule"
    PROVE  CallInv' /\ ShownInv' /\ CacheInv'
    BY DEF CallInv, ShownInv, CacheInv, Wanted, configured, isCurrent

\* While no schedules are shown, courses and filters may change.
LEMMA AwayStep ==
    ASSUME CallInv, ShownInv, CacheInv, tab # "schedule",
           UNCHANGED <<tab, alert, scheduleSets, previousState, shown, calls>>,
           tab = "options" => lookup' = {}, tab \in {"courses", "options", "schedule"}
    PROVE  CallInv' /\ ShownInv' /\ CacheInv'
<1>1. calls = <<>> /\ shown = [t \in Term |-> Off]
    BY DEF CallInv
<1>2. \A t \in Term : shown[t].status = "off"
    BY <1>1 DEF Off
<1>3. DOMAIN calls = {}
    BY <1>1
<1>4. CallInv'
    BY <1>1, <1>3 DEF CallInv
<1>5. ShownInv'
    BY <1>2 DEF ShownInv
<1>6. CacheInv'
    BY DEF CacheInv
<1> QED
    BY <1>4, <1>5, <1>6

\* The tab with the schedules is opened: what is asked for is wanted, the rest is current.
LEMMA OpenStep ==
    ASSUME TypeInv, CallInv, ShownInv, CacheInv, moveToSchedulesTab
    PROVE  CallInv' /\ ShownInv' /\ CacheInv'
<1> PICK fresh : fresh = {t \in mounted : cached(t) = NoSet}
    OBVIOUS
<1>1. fresh \in SUBSET Term /\ \A t \in fresh : coursesByTerm[t] # {}
    BY DEF mounted
<1>2. /\ tab # "schedule"
      /\ tab' = "schedule"
      /\ visit' = visit + 1
      /\ lookup' = {}
      /\ UNCHANGED <<coursesByTerm, config, filters, scheduleSets, previousState>>
      /\ calls' = calls \o newCalls(fresh, remote)
    BY DEF moveToSchedulesTab, newCalls, ordinary, courseVars, settingVars, setVars
<1>3. shown' = [t \in Term |->
                    IF t \notin mounted THEN Off
                    ELSE IF t \in fresh THEN [status |-> "pending", value |-> NoSet]
                    ELSE [status |-> "success", value |-> cached(t)]]
    BY DEF moveToSchedulesTab
<1>4. visit' \in Nat /\ remote \in BOOLEAN
    BY <1>2 DEF TypeInv
<1> PICK more : more = newCalls(fresh, remote)
    OBVIOUS
<1>5. onceEach(more, fresh, remote)
    BY <1>1, <1>4, NewCallsOnce
<1>6. calls' = more
    <2>1. calls = <<>> /\ calls' = calls \o more
        BY <1>2 DEF CallInv
    <2> QED
        BY ONLY <1>5, <2>1 DEF onceEach
<1>7. ASSUME NEW t \in fresh, NEW call, call = ordinary(t, remote)
      PROVE  WantedNow(call)
    <2>1. /\ call.visit = visit'
          /\ call.filters = filters
          /\ call.courses = coursesByTerm
          /\ call.sent = configured(t)
          /\ ~call.override
          /\ call.term = t
        BY <1>7 DEF ordinary, generation, configured
    <2>2. t \in Term /\ t \in mounted /\ coursesByTerm[t] # {}
        BY <1>1 DEF mounted
    <2>3. shown'[t].status = "pending"
        BY <1>3, <2>2
    <2> QED
        BY <1>2, <2>1, <2>2, <2>3 DEF WantedNow, configured
<1>8. CallInv'
    <2>1. \A i \in DOMAIN calls' : WantedNow(calls'[i])
        BY <1>5, <1>6, <1>7 DEF onceEach
    <2>2. (\A i \in DOMAIN calls : Wanted(calls[i]))'
        BY <2>1 DEF WantedNow, Wanted, configured
    <2>3. \A i, k \in DOMAIN calls' : calls'[i].term = calls'[k].term => i = k
        BY <1>5, <1>6 DEF onceEach
    <2> QED
        BY <1>2, <2>2, <2>3 DEF CallInv
<1>9. \A t \in Term : shown[t].status # "pending"
    BY <1>2 DEF CallInv, Off
<1>10. ASSUME NEW t \in Term, t \in mounted, t \notin fresh
       PROVE  cached(t) # NoSet /\ cached(t) = scheduleSets[t] /\ isCurrent(cached(t), t)
    <2>1. cached(t) # NoSet /\ coursesByTerm[t] # {}
        BY <1>10 DEF mounted
    <2> QED
        BY <1>9, <2>1, CacheHit DEF cached
<1>11. ASSUME NEW t \in Term
       PROVE  /\ shown'[t].status = (IF t \notin mounted THEN "off"
                                     ELSE IF t \in fresh THEN "pending" ELSE "success")
              /\ t \in mounted /\ t \notin fresh => shown'[t].value = cached(t)
              /\ t \in mounted <=> coursesByTerm[t] # {}
    BY <1>3 DEF Off, mounted
<1>12. \A t \in Term : \A set : isCurrent(set, t)' <=> isCurrent(set, t)
    BY <1>2 DEF isCurrent
<1>13. ShownInv'
    BY <1>2, <1>10, <1>11, <1>12 DEF ShownInv
<1>14. CacheInv'
    BY <1>2, <1>9 DEF CacheInv
<1> QED
    BY <1>8, <1>13, <1>14

\* The tab is left when nothing is asked for any more, or the generations are left alone.
LEMMA LeaveStep ==
    ASSUME TypeInv, CallInv, ShownInv, CacheInv, handleTabSelect, ~disturbed'
    PROVE  CallInv' /\ ShownInv' /\ CacheInv'
<1>1. /\ tab' # "schedule"
      /\ tab' = "options" => lookup = {}
      /\ tab' \in {"courses", "options"}
      /\ alert' = FALSE
      /\ shown' = [t \in Term |-> Off]
      /\ pending = {}
      /\ UNCHANGED <<lookup, scheduleSets, previousState, calls>>
    BY DEF handleTabSelect, courseVars, setVars
<1>2. \A t \in Term : shown[t].status # "pending" /\ shown'[t].status = "off"
    BY <1>1 DEF pending, Off
<1>3. calls = <<>>
    <2>1. calls \in Seq(Call)
        BY DEF TypeInv
    <2>2. \A i \in DOMAIN calls : calls[i].term \in Term /\ shown[calls[i].term].status = "pending"
        BY CallsTyped DEF CallInv, Wanted
    <2>3. DOMAIN calls = {}
        BY <1>2, <2>2
    <2> QED
        BY <2>1, <2>3
<1>4. CallInv'
    <2>1. calls' = <<>> /\ DOMAIN calls' = {}
        BY <1>1, <1>3
    <2>2. (\A i \in DOMAIN calls : Wanted(calls[i]))'
        BY <2>1
    <2> QED
        BY <1>1, <2>1, <2>2 DEF CallInv
<1>5. ShownInv'
    BY <1>1, <1>2 DEF ShownInv
<1>6. CacheInv'
    BY <1>1, <1>2 DEF CacheInv
<1> QED
    BY <1>4, <1>5, <1>6

\* The setting changes while schedules are shown: what is pending stays, the rest is asked
\* for again or is current.
LEMMA SettingStep ==
    ASSUME TypeInv, CallInv, ShownInv, CacheInv, setRemoteSchedulerSetting
    PROVE  CallInv' /\ ShownInv' /\ CacheInv'
<1> DEFINE hit(t) == getTermScheduleDataCache(t, coursesByTerm, filters, TRUE, previousState)
           ready == {t \in mounted : shown[t].status # "pending"}
<1> PICK fresh : fresh = {t \in ready : hit(t) = NoSet}
    OBVIOUS
<1>1. /\ fresh \in SUBSET Term
      /\ fresh \subseteq ready
      /\ \A t \in fresh : coursesByTerm[t] # {} /\ shown[t].status # "pending"
      /\ \A t \in Term : t \in ready <=> coursesByTerm[t] # {} /\ shown[t].status # "pending"
    BY DEF mounted
<1> PICK on : on = TRUE
    OBVIOUS
<1> PICK more : more = newCalls(fresh, on)
    OBVIOUS
<1>2. /\ tab = "schedule"
      /\ lookup = {}
      /\ UNCHANGED <<tab, alert, visit, lookup, coursesByTerm, config, filters, scheduleSets,
                     previousState>>
      /\ calls' = calls \o more
    BY DEF setRemoteSchedulerSetting, newCalls, ordinary, courseVars, setVars, CallInv
<1>3. shown' = [t \in Term |->
                    IF t \in fresh THEN [shown[t] EXCEPT !.status = "pending"]
                    ELSE IF t \in ready THEN [status |-> "success", value |-> hit(t)]
                    ELSE shown[t]]
    BY DEF setRemoteSchedulerSetting
<1>4. onceEach(more, fresh, on)
    <2>1. visit' \in Nat
        BY <1>2 DEF TypeInv
    <2> QED
        BY <1>1, <2>1, NewCallsOnce
<1>5. ASSUME NEW t \in Term, t \in ready, t \notin fresh
      PROVE  hit(t) # NoSet /\ hit(t) = scheduleSets[t] /\ isCurrent(hit(t), t)
    <2>1. hit(t) # NoSet /\ coursesByTerm[t] # {} /\ shown[t].status # "pending"
        BY <1>1, <1>5
    <2> QED
        BY <2>1, CacheHit
<1> HIDE DEF hit, ready
<1>6. ASSUME NEW t \in Term
      PROVE  /\ t \in fresh => shown'[t].status = "pending"
             /\ t \in ready /\ t \notin fresh =>
                    shown'[t].status = "success" /\ shown'[t].value = hit(t)
             /\ t \notin ready => shown'[t] = shown[t]
    BY <1>1, <1>3 DEF TypeInv
<1>7. ASSUME NEW t \in fresh, NEW call, call = ordinary(t, on)
      PROVE  WantedNow(call) /\ call.term = t
    <2>1. /\ call.visit = visit'
          /\ call.filters = filters
          /\ call.courses = coursesByTerm
          /\ call.sent = configured(t)
          /\ ~call.override
          /\ call.term = t
        BY <1>7 DEF ordinary, generation, configured
    <2> QED
        BY <1>1, <1>2, <1>6, <2>1 DEF WantedNow, configured
<1>8. ASSUME NEW i \in DOMAIN calls
      PROVE  WantedNow(calls[i]) /\ calls[i].term \notin fresh
    <2>1. calls[i].term \in Term
        BY CallsTyped
    <2>2. Wanted(calls[i])
        BY DEF CallInv
    <2>3. calls[i].term \notin ready
        BY <1>1, <2>1, <2>2 DEF Wanted
    <2> QED
        BY <1>1, <1>2, <1>6, <2>1, <2>2, <2>3 DEF Wanted, WantedNow, configured
<1>9. /\ calls \in Seq(Call)
      /\ more \in Seq(Call)
      /\ \A i \in DOMAIN more : WantedNow(more[i]) /\ more[i].term \in fresh
      /\ \A i, k \in DOMAIN more : more[i].term = more[k].term => i = k
      /\ \A i, k \in DOMAIN calls : calls[i].term = calls[k].term => i = k
    <2>1. calls \in Seq(Call)
        BY CallsTyped
    <2>2. ASSUME NEW i \in DOMAIN more
          PROVE  WantedNow(more[i]) /\ more[i].term \in fresh
        <3>1. PICK t \in fresh : more[i] = ordinary(t, on)
            BY <1>4 DEF onceEach
        <3> QED
            BY <1>7, <3>1
    <2> QED
        BY <1>4, <2>1, <2>2 DEF onceEach, CallInv
<1>10. CallInv'
    <2>1. calls \in Seq(Call) /\ more \in Seq(Call)
        BY <1>9
    <2>2. \A i \in DOMAIN (calls \o more) :
            \/ i \in DOMAIN calls /\ (calls \o more)[i] = calls[i]
            \/ i - Len(calls) \in DOMAIN more /\ (calls \o more)[i] = more[i - Len(calls)]
        BY ONLY <2>1, FromOneOfTwo
    <2>3. \A i \in DOMAIN calls' : WantedNow(calls'[i])
        BY ZenonT(60), <1>2, <1>8, <1>9, <2>2
    <2>4. (\A i \in DOMAIN calls : Wanted(calls[i]))'
        BY <2>3 DEF WantedNow, Wanted, configured
    <2>5. \A i, k \in DOMAIN (calls \o more) :
            (calls \o more)[i].term = (calls \o more)[k].term => i = k
        <3> SUFFICES ASSUME NEW i \in DOMAIN (calls \o more), NEW k \in DOMAIN (calls \o more),
                            (calls \o more)[i].term = (calls \o more)[k].term
                     PROVE  i = k
            OBVIOUS
        <3>1. Len(calls) \in Nat /\ i \in Nat /\ k \in Nat
            BY <1>9, FromOneOfTwo
        <3>2. CASE i \in DOMAIN calls /\ (calls \o more)[i] = calls[i]
            <4>1. CASE k \in DOMAIN calls /\ (calls \o more)[k] = calls[k]
                BY <1>9, <3>2, <4>1
            <4>2. CASE k - Len(calls) \in DOMAIN more /\ (calls \o more)[k] = more[k - Len(calls)]
                <5>1. calls[i].term \notin fresh /\ more[k - Len(calls)].term \in fresh
                    BY <1>8, <1>9, <3>2, <4>2
                <5> QED
                    BY <3>2, <4>2, <5>1
            <4> QED
                BY <2>2, <4>1, <4>2
        <3>3. CASE /\ i - Len(calls) \in DOMAIN more
                   /\ (calls \o more)[i] = more[i - Len(calls)]
            <4>1. CASE k \in DOMAIN calls /\ (calls \o more)[k] = calls[k]
                <5>1. calls[k].term \notin fresh /\ more[i - Len(calls)].term \in fresh
                    BY <1>8, <1>9, <3>3, <4>1
                <5> QED
                    BY <3>3, <4>1, <5>1
            <4>2. CASE k - Len(calls) \in DOMAIN more /\ (calls \o more)[k] = more[k - Len(calls)]
                <5>1. i - Len(calls) = k - Len(calls)
                    BY ZenonT(60), <1>9, <3>3, <4>2
                <5> QED
                    BY <3>1, <5>1
            <4> QED
                BY <2>2, <4>1, <4>2
        <3> QED
            BY <2>2, <3>2, <3>3
    <2>6. \A i, k \in DOMAIN calls' : calls'[i].term = calls'[k].term => i = k
        BY <1>2, <2>5
    <2> QED
        BY <1>2, <2>4, <2>6 DEF CallInv
<1>11. \A t \in Term : \A set : isCurrent(set, t)' <=> isCurrent(set, t)
    BY <1>2 DEF isCurrent
<1>12. ShownInv'
    BY <1>1, <1>2, <1>5, <1>6, <1>11 DEF ShownInv
<1>13. CacheInv'
    BY <1>1, <1>2, <1>6 DEF CacheInv
<1> QED
    BY <1>10, <1>12, <1>13

\* A generation that found something: its set is shown and stored, and the state it leaves
\* matches whatever is not being asked for.
LEMMA AnswerStep ==
    ASSUME TypeInv, CallInv, ShownInv, CacheInv, NEW i \in DOMAIN calls, answer(i), ~disturbed'
    PROVE  CallInv' /\ ShownInv' /\ CacheInv'
<1> PICK call : call = calls[i]
    OBVIOUS
<1>1. call \in Call /\ Wanted(call)
    BY DEF TypeInv, CallInv
<1>2. generated(i) /\ calls' = without(calls, i)
    BY DEF answer, noneFound, generationFails
<1>3. /\ tab = "schedule"
      /\ UNCHANGED <<tab, alert, visit, lookup, coursesByTerm, config, filters>>
    <2>1. calls # <<>>
        OBVIOUS
    <2> QED
        BY <2>1 DEF answer, CallInv, courseVars, settingVars, pageVars
<1>4. PICK set, final :
        /\ set = [filters |-> call.filters, courses |-> call.sent, conflicts |-> call.override,
                  filter_overrides |-> FALSE]
        /\ final = IF call.override THEN marked(set) ELSE set
        /\ scheduleSets' = [scheduleSets EXCEPT ![call.term] = final]
        /\ memoizeState(call)
        /\ shown' = received(call, "success", final)
    BY <1>2 DEF generated
<1>5. final # NoSet /\ final.filters = filters /\ final.courses = configured(call.term)
    BY <1>1, <1>4, FinalIsFound DEF Wanted
<1>6. call.term \in Term /\ shown[call.term].status = "pending" /\ ~call.override
    BY <1>1 DEF Wanted, Call
<1>7. shown' = [shown EXCEPT ![call.term] = [status |-> "success", value |-> final]]
    <2>1. stillMounted(call)
        BY <1>1, <1>3, <1>6 DEF stillMounted, Wanted, Off
    <2> QED
        BY <1>4, <1>6, <2>1 DEF received
<1>8. ASSUME NEW t \in Term
      PROVE  /\ t = call.term =>
                    /\ shown'[t].status = "success" /\ shown'[t].value = final
                    /\ scheduleSets'[t] = final
             /\ t # call.term => shown'[t] = shown[t] /\ scheduleSets'[t] = scheduleSets[t]
    <2>1. /\ scheduleSets \in [Term -> Found \cup {NoSet}]
          /\ shown \in [Term -> [status : {"off", "pending", "success", "error"},
                                 value : Found \cup {NoSet}]]
        BY DEF TypeInv
    <2>2. /\ scheduleSets' = [scheduleSets EXCEPT ![call.term] = final]
          /\ shown' = [shown EXCEPT ![call.term] = [status |-> "success", value |-> final]]
        BY <1>4, <1>7
    <2> QED
        BY <2>1, <2>2
<1>9. \A t \in Term : \A s : isCurrent(s, t)' <=> isCurrent(s, t)
    BY <1>3 DEF isCurrent
<1>10. isCurrent(final, call.term)
    BY <1>5 DEF isCurrent, configured
<1>11. CallInv'
    <2>1. calls \in Seq(Call) /\ i \in 1..Len(calls) /\ Len(calls) \in Nat
        BY DEF TypeInv
    <2>2. /\ calls' \in Seq(Call)
          /\ Len(calls') = Len(calls) - 1
          /\ \A k \in 1..Len(calls) - 1 : calls'[k] = IF k < i THEN calls[k] ELSE calls[k + 1]
        BY <1>2, <2>1, WithoutOne
    <2> DEFINE was(k) == IF k < i THEN k ELSE k + 1
    <2>3. /\ DOMAIN calls' = 1..Len(calls) - 1
          /\ \A k \in DOMAIN calls' : was(k) \in DOMAIN calls /\ was(k) # i /\ calls'[k] = calls[was(k)]
          /\ \A k, l \in DOMAIN calls' : was(k) = was(l) => k = l
        BY <2>1, <2>2
    <2> HIDE DEF was
    <2>4. ASSUME NEW j \in DOMAIN calls, j # i
          PROVE  WantedNow(calls[j])
        <3>1. Wanted(calls[j]) /\ calls[j].term # call.term /\ calls[j].term \in Term
            BY <2>4, CallsTyped DEF CallInv
        <3> QED
            BY <1>3, <1>8, <3>1 DEF Wanted, WantedNow, configured
    <2>5. \A k \in DOMAIN calls' : WantedNow(calls'[k])
        BY <2>3, <2>4
    <2>6. (\A k \in DOMAIN calls : Wanted(calls[k]))'
        BY <2>5 DEF WantedNow, Wanted, configured
    <2>7. \A k, l \in DOMAIN calls' : calls'[k].term = calls'[l].term => k = l
        BY <2>3 DEF CallInv
    <2> QED
        BY <1>3, <2>6, <2>7 DEF CallInv
<1>12. ShownInv'
    <2>1. coursesByTerm[call.term] # {}
        BY <1>1 DEF Wanted
    <2> QED
        BY <1>3, <1>5, <1>8, <1>9, <1>10, <2>1 DEF ShownInv
<1>13. CacheInv'
    <2> SUFFICES ASSUME NEW p \in previousState', NEW t \in Term, t \in DOMAIN p.termMeta,
                        shown'[t].status # "pending"
                 PROVE  scheduleSets'[t].filters = p.filters /\ scheduleSets'[t].courses = p.termMeta[t]
        BY DEF CacheInv
    <2>1. p.filters = filters /\ p.termMeta = getTermMeta(coursesByTerm)
        BY <1>1, <1>4 DEF memoizeState, Wanted
    <2>2. coursesByTerm[t] # {} /\ p.termMeta[t] = configured(t)
        BY <2>1 DEF getTermMeta, configured
    <2>3. CASE t = call.term
        BY <1>5, <1>8, <2>1, <2>2, <2>3
    <2>4. CASE t # call.term
        <3>1. shown[t].status = "success"
            BY <1>3, <1>8, <2>2, <2>4 DEF ShownInv, TypeInv
        <3>2. isCurrent(scheduleSets[t], t)
            BY <3>1 DEF ShownInv
        <3> QED
            BY <1>8, <2>1, <2>2, <2>4, <3>2 DEF isCurrent, configured
    <2> QED
        BY <2>3, <2>4
<1> QED
    BY <1>11, <1>12, <1>13

-----------------------------------------------------------------------------
(* The step                                                                *)

LEMMA CurrentStep ==
    ASSUME TypeInv, CallInv, ShownInv, CacheInv, [Next]_vars, ~disturbed'
    PROVE  CallInv' /\ ShownInv' /\ CacheInv'
<1> USE DEF courseVars, settingVars, pageVars, setVars
<1> DEFINE Goal == CallInv' /\ ShownInv' /\ CacheInv'
<1>1. tab \in {"courses", "options", "schedule"} /\ (alert => tab = "schedule")
    BY DEF TypeInv, CallInv
<1>2. CASE getAvailableTerms \/ enableRemoteSchedulerAlert \/ UNCHANGED vars
    BY <1>1, <1>2, SameStep DEF getAvailableTerms, enableRemoteSchedulerAlert, vars
<1>3. CASE updateTerm \/ lookUpCourse
    <2>1. CASE updateTerm
        BY <1>1, <2>1, AwayStep DEF updateTerm
    <2>2. CASE lookUpCourse
        <3>1. lookup # {} /\ tab = "courses"
            BY <1>1, <2>2 DEF lookUpCourse, CallInv
        <3> QED
            BY <2>2, <3>1, AwayStep DEF lookUpCourse
    <2> QED
        BY <1>3, <2>1, <2>2
<1>4. ASSUME NEW c \in Course,
             addCourse(c) \/ changeMandatory(c) \/ updateSections(c) \/ handleRemoveClicked(c)
      PROVE  Goal
    BY <1>4, AwayStep DEF addCourse, changeMandatory, updateSections, configure, handleRemoveClicked
<1>5. CASE deleteCourse
    <2>1. tab # "schedule"
        BY <1>5 DEF deleteCourse
    <2>2. shown = [t \in Term |-> Off]
        BY <2>1 DEF CallInv
    <2>3. shown' = shown
        BY <1>5, <2>2 DEF deleteCourse, unmount
    <2> QED
        BY <1>1, <1>5, <2>1, <2>3, AwayStep DEF deleteCourse, CallInv
<1>6. CASE handleFilterChange \/ handleSettingChange
    BY <1>1, <1>6, AwayStep DEF handleFilterChange, handleSettingChange, CallInv
<1>7. CASE moveToSchedulesTab
    BY <1>7, OpenStep
<1>8. CASE handleTabSelect
    BY <1>8, LeaveStep
<1>9. CASE setRemoteSchedulerSetting
    BY <1>9, SettingStep
<1>10. ASSUME NEW t \in Term, generateWithConflicts(t)
       PROVE  Goal
    BY <1>10 DEF generateWithConflicts, ShownInv
<1>11. ASSUME NEW i \in DOMAIN calls, answer(i)
       PROVE  Goal
    BY <1>11, AnswerStep
<1> QED
    BY <1>2, <1>3, <1>4, <1>5, <1>6, <1>7, <1>8, <1>9, <1>10, <1>11 DEF Next

\* What disturbs the page once disturbs it for good.
LEMMA DisturbedLasts ==
    ASSUME [Next]_vars, disturbed
    PROVE  disturbed'
<1>1. ASSUME NEW c \in Course,
             addCourse(c) \/ changeMandatory(c) \/ updateSections(c) \/ handleRemoveClicked(c)
      PROVE  disturbed'
    BY <1>1 DEF addCourse, changeMandatory, updateSections, configure, handleRemoveClicked
<1>2. ASSUME NEW t \in Term, generateWithConflicts(t)
      PROVE  disturbed'
    BY <1>2 DEF generateWithConflicts
<1>3. ASSUME NEW i \in DOMAIN calls, answer(i)
      PROVE  disturbed'
    BY <1>3 DEF answer, generated, noneFound, generationFails
<1> QED
    BY <1>1, <1>2, <1>3
    DEF Next, vars, getAvailableTerms, updateTerm, lookUpCourse, deleteCourse, handleFilterChange,
        handleSettingChange, moveToSchedulesTab, handleTabSelect, enableRemoteSchedulerAlert,
        setRemoteSchedulerSetting

LEMMA BuilderInit == Init => BuilderInv
<1> SUFFICES ASSUME Init PROVE BuilderInv
    OBVIOUS
<1> USE DEF Init
<1>1. TypeInv
    <2>1. defaultFilters \in Filter
        BY BuilderAssumption DEF BuilderAssumption
    <2>2. /\ coursesByTerm \in [Term -> SUBSET Course]
          /\ config \in [Course -> SUBSET Switch]
        BY DEF Switch, Unloaded
    <2>3. /\ scheduleSets \in [Term -> Found \cup {NoSet}]
          /\ shown \in [Term -> [status : {"off", "pending", "success", "error"},
                                 value : Found \cup {NoSet}]]
        BY DEF Off
    <2>4. <<>> \in Seq(Call)
        OBVIOUS
    <2>5. calls \in Seq(Call) /\ visit \in Nat /\ lookup = {} /\ removing = {}
        BY <2>4
    <2> QED
        BY <2>1, <2>2, <2>3, <2>5 DEF TypeInv
<1>2. CourseInv
    BY DEF CourseInv
<1>3. MarkInv
    BY DEF MarkInv, Marked, Off
<1>4. CallInv
    BY DEF CallInv
<1>5. ShownInv /\ CacheInv
    BY DEF ShownInv, CacheInv, Off
<1> QED
    BY <1>1, <1>2, <1>3, <1>4, <1>5 DEF BuilderInv

-----------------------------------------------------------------------------
(* Theorems                                                                *)

LEMMA InvHolds == Spec => []BuilderInv
<1>1. BuilderInv /\ [Next]_vars => BuilderInv'
    BY TypeStep, CourseStep, MarkStep, CurrentStep, DisturbedLasts DEF BuilderInv
<1> QED
    BY <1>1, BuilderInit, PTL DEF Spec

\* A course is listed under the term it was looked up for, whatever the user selects while
\* it is fetched (addCourseData of ScheduleBuilderStore).
THEOREM CoursesListed == Spec => []CoursesInTheirTerm
<1>1. BuilderInv => CoursesInTheirTerm
    BY DEF BuilderInv, CourseInv, CoursesInTheirTerm, Unloaded
<1> QED
    BY <1>1, InvHolds, PTL

\* Schedules with conflicts the filters forbid are marked as such, those taken from the
\* store too (generateWithConflicts of TermSchedule).
THEOREM OverridesMarked == Spec => []OverridesAreMarked
<1>1. BuilderInv => OverridesAreMarked
    BY DEF BuilderInv, MarkInv, Marked, OverridesAreMarked
<1> QED
    BY <1>1, InvHolds, PTL

\* As long as every generation was waited for and found something, what a term shows was
\* generated from the filters and courses as they are set now (useMemoizeManager).
THEOREM ShownStaysCurrent == Spec => []ShownIsCurrent
<1>1. BuilderInv => ShownIsCurrent
    BY DEF BuilderInv, ShownInv, ShownIsCurrent, Answered
<1> QED
    BY <1>1, InvHolds, PTL
====
