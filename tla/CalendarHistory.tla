---- MODULE CalendarHistory ----
(***************************************************************************)
(* What a user may rely on although the statements of CalendarStore        *)
(* interleave and requests fail half-way.  Two history variables remember  *)
(* what no table keeps: the terms whose requests have overlapped, and the  *)
(* schedules a failed request left with their courses in one calendar and  *)
(* their row in another.  They restrict no step of CalendarStore.          *)
(***************************************************************************)
EXTENDS CalendarStore

VARIABLES
    overlapped,      \* terms of which a request came while another was under way
    torn             \* schedules left half-way by a request that failed

historyVars == <<term, row, components, requests, pc, req, overlapped, torn>>

UnderWay(r, t) == pc[r] # "idle" /\ term[req[r].schedule] = t

\* migrate_to_calendar (models.py) has moved the components of s and not yet its row.
HalfWay(r, s) ==
    \/ pc[r] = "demote" /\ s = req[r].existing
    \/ pc[r] = "move" /\ s = req[r].schedule

HistoryInit == Init /\ overlapped = {} /\ torn = {}

\* A request of term t comes in.
arrive(t) ==
    /\ overlapped' = IF \E q \in Request : UnderWay(q, t) THEN overlapped \cup {t} ELSE overlapped
    /\ UNCHANGED torn

\* A request goes on, or ends: by its last statement, or with an exception before it.
proceed(r) ==
    /\ torn' = torn \cup
          {s \in ScheduleId : HalfWay(r, s) /\ pc'[r] = "idle" /\ row'[s] = row[s]}
    /\ UNCHANGED overlapped

HistoryNext == \E r \in Request :
    \/ \E in_cal \in BOOLEAN, t \in Term : create(r, in_cal, t) /\ arrive(t)
    \/ \E s \in ScheduleId, in_cal, named \in BOOLEAN :
           update(r, s, in_cal, named) /\ arrive(term[s])
    \/ \E s \in ScheduleId : destroy(r, s) /\ arrive(term[s])
    \/ Statement(r) /\ proceed(r)
    \/ crash(r) /\ proceed(r)

HistorySpec == HistoryInit /\ [][HistoryNext]_historyVars

-----------------------------------------------------------------------------
(* Properties                                                              *)

\* The user waited for each answer about the term of s, the last one has come, and no
\* request failed between moving the courses of s and moving s.
Settled(s) ==
    /\ Exists(s)
    /\ s \notin torn
    /\ term[s] \notin overlapped
    /\ \A r \in Request : ~UnderWay(r, term[s])

\* Moving a schedule moves "this schedule and it's components" (models.py:195): the
\* courses of a settled schedule are in the calendar it is in, whatever requests of other
\* terms overlapped, were refused or died, and whatever schedules of its own term a failed
\* request tore apart.
CoursesStayTogether == \A s \in ScheduleId : Settled(s) => components[s] = row[s]

\* A settled schedule shows its own courses and those of no other settled schedule, the
\* same season of another year included: what was in the calendar has left with the
\* schedule it belonged to.
ShowsItsOwnCourses ==
    \A s \in ScheduleId : Settled(s) => {v \in shown(s) : Settled(v)} = {s}

\* The same of every schedule there is when no request is under way, failed ones included:
\* what the comment at models.py:195 says of every move.
MovesWithItsCourses ==
    (\A r \in Request : pc[r] = "idle") =>
        \A s \in ScheduleId : Exists(s) => components[s] = row[s]

\* A user who waits for each answer about a term sees one step of the planner at a time.
\* The schedule that makes room counts as being in the calendar until the newcomer is.
MakesRoom(s) ==
    \E r \in Request :
        /\ pc[r] \in {"insertComponents", "insert", "moveComponents", "move"}
        /\ req[r].existing = s

Followed(s) == Exists(s) /\ term[s] \notin overlapped

Promise == INSTANCE Planner WITH
    place <- [s \in ScheduleId |->
                IF ~Followed(s) THEN "absent"
                ELSE IF row[s] = Primary \/ MakesRoom(s) THEN "calendar" ELSE "draft"],
    termOf <- [s \in ScheduleId |-> IF Followed(s) THEN term[s] ELSE NoTerm],
    hurried <- overlapped

ImplementsPlanner == Promise!Spec
====
