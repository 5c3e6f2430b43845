---- MODULE CourseConfigurations ----
(***************************************************************************)
(* What a course offers the generator                                      *)
(* (scheduler/src/modules/schedule_generator/models: Course,               *)
(* CourseSection, CourseSectionComponent, ScheduleComponent).              *)
(*                                                                         *)
(* A course component is a record [id, type, day, start, end, closed]; a   *)
(* section is a set of them, a course [id, mandatory, sections] has its    *)
(* sections in map order.  Days stand for the key year-term-day and times  *)
(* are small numbers: only their order and differences matter.             *)
(***************************************************************************)
EXTENDS Integers, Sequences, FiniteSets, SequencesExt

\* A set as a sequence, in an order of no importance: the order of a map here.
sequenceOf(set) == FoldSet(LAMBDA c, s : Append(s, c), <<>>, set)

\* The members of a finite set of numbers, in order.
ordered(set) ==
    CHOOSE seq \in [1..Cardinality(set) -> set] : \A i, k \in DOMAIN seq : i < k => seq[i] < seq[k]

\* A sequence as it is: TLC evaluates its members once and not at every use.
evaluated(seq) == SubSeq(seq, 1, Len(seq))

\* ScheduleComponent.getScheduleComponentId: what makes components alternates.
sameSlot(c, d) == c.type = d.type /\ c.day = d.day /\ c.start = d.start /\ c.end = d.end

\* ScheduleComponent: a slot with all its alternates, closed when they all are.
scheduleComponent(section, c) ==
    LET alternates == {d \in section : sameSlot(c, d)}
    IN  [type |-> c.type, day |-> c.day, start |-> c.start, end |-> c.end,
         components |-> {d.id : d \in alternates},
         all_are_closed |-> \A d \in alternates : d.closed]

getScheduleComponents(section) == {scheduleComponent(section, c) : c \in section}

\* One component of every type but LEC, together with all the lectures.
sectionConfigurations(section) ==
    LET all == getScheduleComponents(section)
        lec == {c \in all : c.type = "LEC"}
        types == {c.type : c \in all \ lec}
        picks == {p \in [types -> all] : \A t \in types : p[t].type = t}
    IN  {SetToSeq({p[t] : t \in types}) \o SetToSeq(lec) : p \in picks}

\* Course.getConfigurations: the loop leaves at the first section without components.
getConfigurations(course) ==
    LET empty == {i \in DOMAIN course.sections : course.sections[i] = {}}
        visited == {i \in DOMAIN course.sections : \A e \in empty : i < e}
    IN  UNION {sectionConfigurations(course.sections[i]) : i \in visited}

getConfigurationCount(course) == Cardinality(getConfigurations(course))

\* ScheduleComponent.hasTimeOverlap
hasTimeOverlap(c, d) == d.end > c.start /\ d.start < c.end

-----------------------------------------------------------------------------
(* Breaks, which both generators look for alike                            *)

\* components_in_range of a day, and those of them visited before one of them: by their
\* start, and as they were added.
inRange(cs, day, brk) ==
    {i \in DOMAIN cs : cs[i].day = day /\ cs[i].end > brk.start /\ cs[i].start < brk.end}
visitedBefore(cs, range, i) ==
    {k \in range : cs[k].start < cs[i].start \/ (cs[k].start = cs[i].start /\ k < i)}

\* What is visited last of some of them.
isLast(cs, range, k) == k \in range /\ range \subseteq visitedBefore(cs, range, k) \cup {k}

\* One break on one day.  A break ends at the start of a component, or at its own
\* end, and starts at the end of the component visited before, or at its own start.
breakOnDay(cs, day, brk) ==
    LET range == inRange(cs, day, brk)
    IN  \/ range = {}
        \/ \E i \in range : visitedBefore(cs, range, i) = {} /\ cs[i].start - brk.start >= brk.size
        \/ \E i, k \in range : /\ isLast(cs, visitedBefore(cs, range, i), k)
                               /\ cs[i].start - cs[k].end >= brk.size
        \/ \E k \in range : isLast(cs, range, k) /\ brk.end - cs[k].end >= brk.size
====
