---- MODULE CourseTimetables ----
(***************************************************************************)
(* A section of a course from the university's site to the page: the       *)
(* updater normalises its slots and numbers them (updater/timetables.py),  *)
(* the row is read through data access (TimetableSerializer) or by the     *)
(* scheduler itself (TimetableService), and either way the components get  *)
(* the ids that schedules are saved under.                                 *)
(*                                                                         *)
(* A slot as the site lists it is a record: its label, its type, and at,   *)
(* which stands for start date, day and start time in the order they are   *)
(* sorted in.  The site lists no slot twice.                               *)
(***************************************************************************)
EXTENDS Integers, FiniteSets

CONSTANTS
    idOfLabel,     \* what stands before the "-" of a label
    startDate,     \* of each value of at; dates are numbers, multiples of seven are Sundays
    day            \* of each value of at, 0 to 6, or NoDay when it is none of the seven

NoDay == 7
Weekday == {at \in DOMAIN day : day[at] # NoDay}

Path == {"v1", "v2"}

cid(slot) == idOfLabel[slot.label]

sameComponent(a, b) == a.type = b.type /\ cid(a) = cid(b)

\* sorted(components, key=[label, start_date, day, start_time])
sortedBefore(a, b) == a.label < b.label \/ (a.label = b.label /\ a.at < b.at)

\* Mutation: one count for all types of a component.
normalize_component_OneCount(slot, section) ==
    [cid |-> cid(slot), type |-> slot.type, at |-> slot.at,
     count |-> Cardinality({x \in section : cid(x) = cid(slot) /\ sortedBefore(x, slot)})]

\* normalize_component: the slots of one type and id are counted in their order.
normalize_component(slot, section) ==
    [cid |-> cid(slot), type |-> slot.type, at |-> slot.at,
     count |-> Cardinality({x \in section : sameComponent(x, slot) /\ sortedBefore(x, slot)})]

\* normalize_section, groupby: the count is also the slot's place in its group.
normalize_section(section) == {normalize_component(slot, section) : slot \in section}

lectures(slots) ==
    {[id |-> <<s.cid, s.type, s.count>>, at |-> s.at] : s \in {x \in slots : x.type = "LEC"}}

\* TimetableSerializer.__flatten_components
flatten_components(slots) ==
    lectures(slots) \cup
        {[id |-> <<s.cid, s.type>>, at |-> s.at] : s \in {x \in slots : x.type # "LEC" /\ x.count = 0}}

\* TimetableService.reformatTimetable; the dates it widens are not told apart here.
reformatTimetable(slots) ==
    lectures(slots) \cup
        {[id |-> <<s.cid, s.type>>, at |-> s.at] :
            s \in {x \in slots : x.type # "LEC" /\ \A y \in slots :
                      (y.type = x.type /\ y.cid = x.cid) => x.count <= y.count}}

read(path, slots) == IF path = "v1" THEN flatten_components(slots) ELSE reformatTimetable(slots)

\* CourseSectionComponent.validate, day_of_week_schema.parse: other days are dropped.
components(path, slots) == {c \in read(path, slots) : c.at \in Weekday}

\* The webapp's CourseSection and CourseSectionComponent: where the grid draws an id.
drawnAt(path, slots, id) == {c.at : c \in {x \in components(path, slots) : x.id = id}}
====
