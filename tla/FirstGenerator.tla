---- MODULE FirstGenerator ----
(***************************************************************************)
(* The first schedule generator (scheduler/src/schedules/Generator.ts with *)
(* schedules/models/CourseSchedule.ts and courses/models/Course.ts), which *)
(* still answers /schedules/generate of version 1 and expands every saved  *)
(* schedule.                                                               *)
(*                                                                         *)
(* A breadth-first search.  The clock is read once per dequeue, so a step  *)
(* is one turn of the queue loop.  A combination is a sequence of          *)
(* components, each carrying its course and section.                       *)
(***************************************************************************)
EXTENDS CourseConfigurations, Integers, TLC

CONSTANT TimeLimited   \* ENABLE_TIME_LIMIT

NoTime == -1

VARIABLES
    courses,   \* [id, mandatory, combinations], fewest combinations first
    filters,
    limit,     \* Generator.LIMIT, set where the generator is used
    queue,     \* incomplete schedules
    found,     \* what addSchedule keeps: [schedules, schedule_sets, did_reach_limit]
    status     \* "idle", "queue", "filter", "done", "timed_out"

vars == <<courses, filters, queue, found, status>>

-----------------------------------------------------------------------------
(* Course                                                                  *)

\* The combinations of one section: all its lectures and one of every other type.
sectionCombinations(course, i) ==
    LET all == {[id |-> c.id, type |-> c.type, day |-> c.day, start |-> c.start, end |-> c.end,
                 closed |-> c.closed, course |-> course.id, section |-> i] : c \in course.sections[i]}
        lec == {c \in all : c.type = "LEC"}
        types == {c.type : c \in all \ lec}
        picks == {p \in [types -> all] : \A t \in types : p[t].type = t}
    IN  IF all = {} THEN <<>>
        ELSE sequenceOf({sequenceOf({p[t] : t \in types}) \o sequenceOf(lec) : p \in picks})

\* Course.getCombinations: sections without components offer nothing.
getCombinations(course) ==
    FlattenSeq([i \in DOMAIN course.sections |-> sectionCombinations(course, i)])

-----------------------------------------------------------------------------
(* CourseSchedule                                                          *)

EmptySchedule ==
    [components |-> <<>>, num_courses |-> 0, num_courses_attempted |-> 0,
     num_before_start_filter |-> 0, num_after_end_filter |-> 0]

incrementNumCoursesAttempted(s) == [s EXCEPT !.num_courses_attempted = @ + 1]

\* addComponent: neither closed nor in conflict with one of those added before.
canAddComponent(before, c, f) ==
    /\ f.allow_closed \/ ~c.closed
    /\ \A d \in before :
        d.day = c.day /\ hasTimeOverlap(d, c) =>
            /\ f.conflicts # "NONE"
            /\ f.conflicts = "NON_LEC" => d.type # "LEC" \/ c.type # "LEC"

canAddCombination(components, cs, f) ==
    \A i \in DOMAIN cs :
        canAddComponent(ToSet(components) \cup {cs[k] : k \in 1..(i - 1)}, cs[i], f)

\* addCourseConfiguration, when it succeeds; the copy is dropped when it does not.
addCourseConfiguration(s, cs, f) ==
    LET early == {i \in DOMAIN cs : f.before # NoTime /\ f.before > cs[i].start}
        late == {i \in DOMAIN cs : f.after # NoTime /\ f.after < cs[i].end}
    IN  [components |-> s.components \o cs,
         num_courses |-> s.num_courses + 1,
         num_courses_attempted |-> s.num_courses_attempted + 1,
         num_before_start_filter |-> s.num_before_start_filter + Cardinality(early),
         num_after_end_filter |-> s.num_after_end_filter + Cardinality(late)]

\* Counts of early and late components and, day by day, what starts when.
getProfile(s) ==
    <<s.num_before_start_filter, s.num_after_end_filter,
      {<<c.day, c.course, c.section, c.type, c.start>> : c \in ToSet(s.components)}>>

\* Mutation: closed components and breaks are not looked at.
checkFilters_Any(components, f) == TRUE

checkFilters(components, f) ==
    /\ f.allow_closed \/ \A c \in ToSet(components) : ~c.closed
    /\ \A brk \in f.breaks, day \in {c.day : c \in ToSet(components)} :
        breakOnDay(components, day, brk)

-----------------------------------------------------------------------------
(* Generator                                                               *)

NothingFound == [schedules |-> 0, schedule_sets |-> <<>>, did_reach_limit |-> FALSE]

\* Sorted by the number of combinations, which leaves those with as many as they were:
\* the one order there is.
sortedCourses(cs) ==
    LET count(i) == Len(cs[i].combinations)
        orders == {order \in [DOMAIN cs -> DOMAIN cs] :
                     \A p, q \in DOMAIN cs : p < q =>
                        \/ count(order[p]) < count(order[q])
                        \/ count(order[p]) = count(order[q]) /\ order[p] < order[q]}
    IN  {[p \in DOMAIN cs |-> cs[order[p]]] : order \in orders}

withCombinations(cs) ==
    evaluated([i \in DOMAIN cs |-> [id |-> cs[i].id, mandatory |-> cs[i].mandatory,
                                    combinations |-> getCombinations(cs[i])]])

\* The constructor: the courses with their combinations, sorted.
construct(cs, f) ==
    /\ \E offered \in {withCombinations(cs)} : courses' \in sortedCourses(offered)
    /\ filters' = f
    /\ queue' = <<EmptySchedule>>
    /\ found' = NothingFound
    /\ status' = "queue"

\* Into the set of its profile, or a set of its own.
intoSets(sets, s) ==
    LET same == {i \in DOMAIN sets : getProfile(sets[i][1]) = getProfile(s)}
    IN  IF same = {} THEN Append(sets, <<s>>)
        ELSE [i \in DOMAIN sets |-> IF i \in same THEN Append(sets[i], s) ELSE sets[i]]

\* addSchedule; once it returned FALSE the loop is left and nothing is added.
addSchedule(kept, s) ==
    IF kept.schedules >= limit \/ kept.did_reach_limit
    THEN [kept EXCEPT !.did_reach_limit = TRUE]
    ELSE IF s.num_courses > 0 /\ checkFilters(s.components, filters)
         THEN [kept EXCEPT !.schedules = @ + 1, !.schedule_sets = intoSets(@, s)]
         ELSE kept

\* What follows from a partial schedule: without the course, when that is allowed or
\* there is nothing to attend, then with each combination that can be added.
successors(s, course) ==
    LET left_out == IF ~course.mandatory \/ course.combinations = <<>>
                    THEN <<incrementNumCoursesAttempted(s)>> ELSE <<>>
        extended[k \in 0..Len(course.combinations)] ==
            IF k = 0 THEN left_out
            ELSE IF canAddCombination(s.components, course.combinations[k], filters)
            THEN Append(extended[k - 1], addCourseConfiguration(s, course.combinations[k], filters))
            ELSE extended[k - 1]
    IN  extended[Len(course.combinations)]

\* addSchedule for one schedule after the other; the set holds the one outcome.
addAll(complete) ==
    LET outcomes[n \in 0..Len(complete)] ==
            IF n = 0 THEN {found} ELSE {addSchedule(kept, complete[n]) : kept \in outcomes[n - 1]}
    IN  outcomes[Len(complete)]

\* One turn of the loop of generateSchedules.
dequeue ==
    /\ status = "queue"
    /\ queue # <<>>
    /\ LET next == Head(queue).num_courses_attempted + 1
       IN  IF next > Len(courses)   \* only without courses
           THEN queue' = Tail(queue) /\ UNCHANGED <<found, status>>
           ELSE \E extended \in {successors(Head(queue), courses[next])} :
                IF next = Len(courses)
                THEN /\ queue' = Tail(queue)
                     /\ found' \in addAll(extended)
                     /\ status' = IF found'.did_reach_limit THEN "filter" ELSE "queue"
                ELSE /\ queue' = Tail(queue) \o extended
                     /\ UNCHANGED <<found, status>>
    /\ UNCHANGED <<courses, filters>>

\* Mutation: at the cut-off the loop is left as at the limit, without a word.
timeOut_Break ==
    /\ status = "queue"
    /\ queue # <<>>
    /\ TimeLimited
    /\ status' = "filter"
    /\ UNCHANGED <<courses, filters, queue, found>>

\* The cut-off has passed when the loop turns: SCHED_2004, whatever was found.
timeOut ==
    /\ status = "queue"
    /\ queue # <<>>
    /\ TimeLimited
    /\ status' = "timed_out"
    /\ UNCHANGED <<courses, filters, queue, found>>

\* Keep the sets whose first schedule has the least count.
withLeast(sets, count) ==
    LET kept[i \in 0..Len(sets)] ==
            IF i = 0 THEN <<>>
            ELSE IF \A k \in DOMAIN sets : sets[i][1][count] <= sets[k][1][count]
            THEN Append(kept[i - 1], sets[i]) ELSE kept[i - 1]
    IN  kept[Len(sets)]

\* applyWholeScheduleFilters
finish ==
    /\ \/ status = "filter"
       \/ status = "queue" /\ queue = <<>>
    /\ \E early \in {withLeast(found.schedule_sets, "num_before_start_filter")} :
          found' = [found EXCEPT !.schedule_sets = withLeast(early, "num_after_end_filter")]
    /\ status' = "done"
    /\ UNCHANGED <<courses, filters, queue>>

generate == dequeue \/ timeOut \/ finish

-----------------------------------------------------------------------------
(* What the result is                                                      *)

results == UNION {ToSet(set) : set \in ToSet(found.schedule_sets)}

\* getResult: the sets in the client's format, or an error.
getResult ==
    IF status = "timed_out" THEN [error |-> "SCHED_2004", messages |-> {}, schedules |-> {}]
    ELSE IF found.schedule_sets = <<>>
    THEN [error |-> "SCHED_2001", messages |-> {}, schedules |-> {}]
    ELSE [error |-> "none",
          messages |-> IF found.did_reach_limit THEN {"SCHED_2002"} ELSE {},
          schedules |-> {ToSet(s.components) : s \in results}]

slot(c) == <<c.type, c.day, c.start, c.end>>
slots(components) == {slot(c) : c \in components}
====
