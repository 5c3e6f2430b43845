---- MODULE ScheduleGenerator ----
(***************************************************************************)
(* The depth-first search for schedules                                    *)
(* (scheduler/src/modules/schedule_generator/ScheduleGenerator.ts and      *)
(* models/Schedule.ts; webapp/src/modules/schedule_generator is a copy).   *)
(*                                                                         *)
(* The generator runs in one thread; a step is the expansion of one        *)
(* partial schedule with one configuration.  The order in which the        *)
(* configurations of a course come is left open.                           *)
(***************************************************************************)
EXTENDS CourseConfigurations, Integers, TLC

CONSTANTS
    CourseLists,   \* the sequences of courses a generator is created with
    FilterChoices, \* the filters it is created with
    Limits         \* the values of config.limit

NoTime == -1       \* an absent minimize_before_time or minimize_after_time
Infinity == -1     \* Number.POSITIVE_INFINITY: no schedule has been found yet

\* Times are minutes since midnight; the schemas ask nothing else of a break.
ASSUME GeneratorAssumption ==
    /\ \A l \in Limits : l \in Nat \ {0}
    /\ \A f \in FilterChoices :
        /\ f.conflicts \in {"ALL", "NON_LEC", "NONE"}
        /\ f.before \in Nat \cup {NoTime} /\ f.after \in Nat \cup {NoTime}
        /\ \A brk \in f.breaks : brk.start \in Nat /\ brk.end \in Nat /\ brk.size \in Nat

VARIABLES
    requested,     \* the courses given to the constructor
    courses,       \* courses with configurations, fewest configurations first
    filters,
    limit,
    status,        \* "new", "pop", "expand", "done"
    stack,         \* partial schedules to extend, the top last
    partial,       \* the schedule being extended
    todo,          \* configurations of its next course not tried yet
    schedules,     \* the complete schedules kept
    best,          \* best_num_before_start_filter
    stopped        \* the search was cut off at the limit

config == <<requested, courses, filters, limit>>
vars == <<config, status, stack, partial, todo, schedules, best, stopped>>

-----------------------------------------------------------------------------
(* Schedule                                                                *)

\* `chosen' has one entry per course attempted, <<>> for a course left out.
EmptySchedule ==
    [chosen |-> <<>>, components |-> <<>>,
     num_before_start_filter |-> 0, num_after_end_filter |-> 0]

num_courses_attempted(s) == Len(s.chosen)
num_courses(s) == Cardinality({i \in DOMAIN s.chosen : s.chosen[i] # <<>>})

skipCourse(s) == [s EXCEPT !.chosen = Append(@, <<>>)]

\* addComponent, for two components of one day.
conflict(c, d, f) ==
    /\ c.day = d.day
    /\ hasTimeOverlap(c, d)
    /\ \/ f.conflicts = "NONE"
       \/ f.conflicts = "NON_LEC" /\ c.type = "LEC" /\ d.type = "LEC"

\* Mutation: the filter on closed components is left out.
canAddComponents_Closed(s, cs, f) ==
    \A i \in DOMAIN cs :
        /\ \A k \in DOMAIN s : ~conflict(cs[i], s[k], f)
        /\ \A k \in 1..(i - 1) : ~conflict(cs[i], cs[k], f)

\* Every component of `cs' can be added after those of `s' and those before it.
canAddComponents(s, cs, f) ==
    /\ \A i \in DOMAIN cs : f.allow_closed \/ ~cs[i].all_are_closed
    /\ \A i \in DOMAIN cs :
        /\ \A k \in DOMAIN s : ~conflict(cs[i], s[k], f)
        /\ \A k \in 1..(i - 1) : ~conflict(cs[i], cs[k], f)

checkBreakFilter(cs, f) ==
    \A brk \in f.breaks : \A i \in DOMAIN cs : breakOnDay(cs, cs[i].day, brk)

beforeStart(cs, f) ==
    Cardinality({i \in DOMAIN cs : f.before # NoTime /\ f.before > cs[i].start})
afterEnd(cs, f) ==
    Cardinality({i \in DOMAIN cs : f.after # NoTime /\ f.after < cs[i].end})

\* addCourseConfiguration, when it succeeds.
canAdd(s, cs, f) ==
    /\ canAddComponents(s.components, cs, f)
    /\ checkBreakFilter(s.components \o cs, f)

addCourseConfiguration(s, cs, f) ==
    [chosen |-> Append(s.chosen, cs),
     components |-> s.components \o cs,
     num_before_start_filter |-> s.num_before_start_filter + beforeStart(cs, f),
     num_after_end_filter |-> s.num_after_end_filter + afterEnd(cs, f)]

-----------------------------------------------------------------------------
(* ScheduleGenerator                                                       *)

\* Courses without configurations are dropped, the others sorted by their number, which
\* leaves those with as many as they were: the one order there is.
sortedCourses(cs) ==
    LET count(i) == getConfigurationCount(cs[i])
        kept == {i \in DOMAIN cs : count(i) # 0}
        orders == {order \in [1..Cardinality(kept) -> kept] :
                     \A p, q \in DOMAIN order : p < q =>
                        \/ count(order[p]) < count(order[q])
                        \/ count(order[p]) = count(order[q]) /\ order[p] < order[q]}
    IN  {[p \in DOMAIN order |-> cs[order[p]]] : order \in orders}

\* The constructor.
construct(cs, f, l) ==
    /\ requested = cs
    /\ courses \in sortedCourses(cs)
    /\ filters = f
    /\ limit = l
    /\ status = "new"
    /\ stack = <<EmptySchedule>>
    /\ partial = EmptySchedule
    /\ todo = {}
    /\ schedules = {}
    /\ best = Infinity
    /\ stopped = FALSE

Init == \E cs \in CourseLists, f \in FilterChoices, l \in Limits : construct(cs, f, l)

\* Mutation: the result is not filtered.
applyPostGenerationFilters_None == schedules' = schedules

\* Only the schedules with the least num_after_end_filter stay.
applyPostGenerationFilters ==
    schedules' = {s \in schedules : \A t \in schedules :
                    s.num_after_end_filter <= t.num_after_end_filter}

\* Counts below and above the best one.
beats(n) == best = Infinity \/ n < best
exceeds(n) == best # Infinity /\ n > best

\* A schedule that beats the best throws away what was kept.
keptBeside(s) == IF beats(s.num_before_start_filter) THEN {} ELSE schedules

\* Mutation: a partial schedule as good as the best is dropped.
pushOrAdd_StrictPrune(s, base) ==
    IF num_courses_attempted(s) # Len(courses)
    THEN /\ stack' = IF beats(s.num_before_start_filter) THEN Append(base, s) ELSE base
         /\ UNCHANGED <<schedules, best, stopped>>
    ELSE /\ stack' = base
         /\ IF num_courses(s) = 0 \/ exceeds(s.num_before_start_filter)
            THEN UNCHANGED <<schedules, best, stopped>>
            ELSE /\ best' = s.num_before_start_filter
                 /\ schedules' = keptBeside(s) \cup {s}
                 /\ stopped' = (Cardinality(schedules') >= limit)

\* pushOrAddAndCheckLimit: push a partial schedule, keep a complete one if no better
\* one is known, or drop it; the search stops when the limit is reached.
pushOrAdd(s, base) ==
    IF num_courses_attempted(s) # Len(courses)
    THEN /\ stack' = IF exceeds(s.num_before_start_filter) THEN base ELSE Append(base, s)
         /\ UNCHANGED <<schedules, best, stopped>>
    ELSE /\ stack' = base
         /\ IF num_courses(s) = 0 \/ exceeds(s.num_before_start_filter)
            THEN UNCHANGED <<schedules, best, stopped>>
            ELSE /\ best' = s.num_before_start_filter
                 /\ schedules' = keptBeside(s) \cup {s}
                 /\ stopped' = (Cardinality(schedules') >= limit)

\* generateSchedules, up to the loop.
start ==
    /\ status = "new"
    /\ status' = IF courses = <<>> THEN "done" ELSE "pop"
    /\ UNCHANGED <<config, stack, partial, todo, schedules, best, stopped>>

\* Take a partial schedule; a course that is not mandatory is first left out.
pop ==
    /\ status = "pop"
    /\ stack # <<>>
    /\ ~stopped
    /\ LET s == Last(stack)
           course == courses[num_courses_attempted(s) + 1]
       IN  /\ partial' = s
           /\ todo' = getConfigurations(course)
           /\ IF course.mandatory
              THEN stack' = Front(stack) /\ UNCHANGED <<schedules, best, stopped>>
              ELSE pushOrAdd(skipCourse(s), Front(stack))
    /\ status' = IF stopped' THEN "pop" ELSE "expand"
    /\ UNCHANGED config

tryConfiguration ==
    /\ status = "expand"
    /\ \E cs \in todo :
        /\ todo' = todo \ {cs}
        /\ IF canAdd(partial, cs, filters)
           THEN pushOrAdd(addCourseConfiguration(partial, cs, filters), stack)
           ELSE UNCHANGED <<stack, schedules, best, stopped>>
        /\ status' = IF stopped' \/ todo' = {} THEN "pop" ELSE "expand"
    /\ UNCHANGED <<config, partial>>

finish ==
    /\ status = "pop"
    /\ stack = <<>> \/ stopped
    /\ status' = "done"
    /\ applyPostGenerationFilters
    /\ UNCHANGED <<config, stack, partial, todo, best, stopped>>

Next == start \/ pop \/ tryConfiguration \/ finish

Spec == Init /\ [][Next]_vars /\ WF_vars(Next)

-----------------------------------------------------------------------------
(* Properties                                                              *)

\* A free period of the requested size lies inside the break, or all of the break is free,
\* should it be shorter than its size.
hasBreak(cs, day, brk) ==
    \/ inRange(cs, day, brk) = {}
    \/ \E t \in brk.start..(brk.end - brk.size) :
        \A i \in DOMAIN cs : cs[i].day = day => cs[i].end <= t \/ cs[i].start >= t + brk.size

\* The reference: a choice of one configuration or nothing for every course that
\* obeys the filters as they are documented.
acceptable(chosen) ==
    LET cs == FlattenSeq(chosen)
    IN  /\ \A i \in DOMAIN courses : courses[i].mandatory => chosen[i] # <<>>
        /\ cs # <<>>
        /\ \A i \in DOMAIN cs : filters.allow_closed \/ ~cs[i].all_are_closed
        /\ \A i, k \in DOMAIN cs : i # k => ~conflict(cs[i], cs[k], filters)
        /\ \A brk \in filters.breaks, i \in DOMAIN cs : hasBreak(cs, cs[i].day, brk)

Candidates ==
    {ch \in [DOMAIN courses -> {<<>>} \cup UNION {getConfigurations(courses[i]) : i \in DOMAIN courses}] :
        /\ \A i \in DOMAIN courses : ch[i] \in {<<>>} \cup getConfigurations(courses[i])
        /\ acceptable(ch)}

least(S, cost(_)) == {x \in S : \A y \in S : cost(x) <= cost(y)}

BestCandidates ==
    least(least(Candidates, LAMBDA ch : beforeStart(FlattenSeq(ch), filters)),
          LAMBDA ch : afterEnd(FlattenSeq(ch), filters))

\* The break filter looks at the end of the component visited before, which is the latest
\* end so far unless a component lies inside another one or takes no time.
Exact ==
    \/ filters.breaks = {}
    \/ /\ filters.conflicts = "NONE"
       /\ \A i \in DOMAIN courses : \A cs \in getConfigurations(courses[i]) :
            \A k \in DOMAIN cs : cs[k].start < cs[k].end

\* Every complete schedule kept, at any time of the search, is acceptable: courses
\* added later never spoil what an earlier course was checked against.
KeptAreAcceptable == Exact => \A s \in schedules : acceptable(s.chosen)

\* A search that was not cut off returns all the best schedules and only those: the
\* pruning on num_before_start_filter and the throwing away of what is worse lose none.
ResultIsComplete ==
    status = "done" /\ ~stopped /\ Exact => {s.chosen : s \in schedules} = BestCandidates

\* All the schedules kept are equally good, and nothing on the stack that is better
\* has been dropped: what is left to explore can still produce every better one.
NothingBetterIsLost ==
    status = "pop" /\ ~stopped =>
        \A ch \in Candidates :
            ~exceeds(beforeStart(FlattenSeq(ch), filters)) =>
                \/ ch \in {s.chosen : s \in schedules}
                \/ \E i \in DOMAIN stack : IsPrefix(stack[i].chosen, ch)

====
