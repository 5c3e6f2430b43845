---- MODULE MCScheduleRequests ----
(***************************************************************************)
(* A small catalogue: times 0..6 on two days, courses with alternates,     *)
(* several sections, closed and unscheduled components (day 0), and its    *)
(* state after an update.                                                  *)
(***************************************************************************)
EXTENDS ScheduleRequests

comp(id, type, day, from, to, closed) ==
    [id |-> id, type |-> type, day |-> day, start |-> from, end |-> to, closed |-> closed]

\* Two sections; the first has two labs to choose from, one of them with an alternate.
maths(alternate) == <<
    {comp("A1", "LEC", 1, 0, 2, FALSE), comp("A2", "LAB", 1, 3, 4, FALSE),
     comp("A3", "LAB", 2, 1, 3, TRUE), comp(alternate, "LAB", 2, 1, 3, FALSE)},
    {comp("B1", "LEC", 2, 3, 5, TRUE)}>>

\* Tutorials that start together and end at different times.
physics == <<
    {comp("C1", "LEC", 1, 1, 3, FALSE)},
    {comp("D1", "LEC", 1, 2, 3, FALSE), comp("D2", "TUT", 2, 4, 6, FALSE),
     comp("D3", "TUT", 1, 0, 1, FALSE), comp("D4", "TUT", 2, 4, 5, FALSE)}>>

music == <<{comp("E1", "SEM", 1, 1, 4, FALSE)}, {comp("F1", "SEM", 2, 0, 1, TRUE)}>>
art(day) == <<{comp("G1", "LEC", day, 4, 6, FALSE)}>>

\* Nothing but an unscheduled component, alone and in front of a lecture.
online == <<{comp("K1", "LEC", 0, 0, 1, FALSE)}>>
mixed == <<{comp("K2", "LEC", 0, 0, 1, FALSE)}, {comp("H1", "LEC", 1, 0, 1, FALSE)}>>

\* A long lecture with a short one inside it, and a break both may touch.
long == <<{comp("I1", "LEC", 1, 1, 5, FALSE)}>>
short == <<{comp("J1", "LEC", 1, 2, 3, FALSE)}>>

\* Two lectures at one time.
twins == <<{comp("L1", "LEC", 2, 1, 3, FALSE), comp("L2", "LEC", 2, 1, 3, FALSE)}>>

Timetable(alternate, day) ==
    "maths" :> maths(alternate) @@ "physics" :> physics @@ "music" :> music @@ "art" :> art(day)
    @@ "online" :> online @@ "mixed" :> mixed @@ "long" :> long @@ "short" :> short @@ "twins" :> twins

\* The update renames one lab and leaves the art course without a day.
Old == Timetable("A4", 1)
New == Timetable("A5", 0)

ask(id) == [id |-> id, mandatory |-> TRUE, sections |-> {1, 2}]
option(id) == [ask(id) EXCEPT !.mandatory = FALSE]
only(id, section) == [ask(id) EXCEPT !.sections = {section}]

AskedFor == {
    <<option("music"), option("art")>>, <<ask("maths"), ask("physics")>>,
    <<only("physics", 2), ask("maths"), ask("online")>>, <<ask("maths"), option("music")>>,
    <<ask("mixed"), option("art")>>, <<ask("art"), ask("art")>>,
    <<option("music"), ask("physics"), option("art")>>,
    <<ask("long"), option("short")>>, <<ask("short"), option("long")>>,
    <<ask("twins"), option("art")>>}

filter(conflicts, closed, before, after, breaks) ==
    [conflicts |-> conflicts, allow_closed |-> closed, before |-> before, after |-> after, breaks |-> breaks]
lunch == [start |-> 1, end |-> 5, size |-> 2]

Filters == {
    filter("NONE", TRUE, NoTime, NoTime, {}),
    filter("NONE", FALSE, 2, NoTime, {}),
    filter("NONE", TRUE, NoTime, 5, {lunch}),
    filter("NON_LEC", TRUE, 1, 3, {}),
    filter("ALL", TRUE, 2, 3, {}),
    filter("ALL", FALSE, 1, 5, {lunch})}
NoCourses == {}
====
