---- MODULE CalendarStore ----
(***************************************************************************)
(* The schedules of one user in the data access service                    *)
(* (ScheduleSerializer in data_access/serializers.py, the models           *)
(* Calendar, CalendarComponents and Schedule).                             *)
(*                                                                         *)
(* A schedule row points at a calendar; its courses are component rows     *)
(* that point at the calendar too and are found by calendar and term.      *)
(* Nothing opens a transaction, so every database statement commits by     *)
(* itself and the statements of concurrent requests interleave.            *)
(***************************************************************************)
EXTENDS Naturals, FiniteSets

CONSTANTS
    Request,         \* the threads of the service that handle this user's requests
    Season,
    Year,
    MaxSchedules,    \* bound: schedules ever created
    MaxRequests,     \* bound: requests that may need a new calendar
    AllowDelete,
    AllowCrash       \* whether the process may die within a request

ASSUME StoreAssumption ==
    /\ MaxSchedules \in Nat
    /\ MaxRequests \in Nat
    /\ AllowDelete \in BOOLEAN
    /\ AllowCrash \in BOOLEAN
    /\ "none" \notin Season     \* NoTerm is no term

ScheduleId == 1..MaxSchedules
Term == [season : Season, year : Year]
NoTerm == [season |-> "none", year |-> "none"]
NoSchedule == 0

\* The primary calendar, which get_or_create finds or makes; the constraint of a single
\* one per user makes every caller end up with the same row.  The n-th request to need
\* a calendar of its own creates Draft n.
Primary == 0
Calendar == 0..MaxRequests
NoCalendar == MaxRequests + 1

Step == {"idle", "prepare", "demoteComponents", "demote", "insertComponents", "insert",
         "moveComponents", "move", "rename"}

VARIABLES
    term,            \* the term of each schedule created so far
    row,             \* the calendar the Schedule row points at, NoCalendar without a row
    components,      \* the calendar its CalendarComponents rows point at
    requests,        \* requests counted for MaxRequests
    pc,              \* the next statement of each request
    req              \* what the request has read or was asked for

vars == <<term, row, components, requests, pc, req>>
db == <<term, row, components>>

NoRequest ==
    [schedule |-> NoSchedule,    \* the instance, created or loaded by get_object
     isNew |-> FALSE,
     in_calendar |-> FALSE,
     named |-> FALSE,            \* whether a name is saved at the end
     from |-> NoCalendar,        \* instance.calendar as it was loaded
     draft |-> NoCalendar,       \* the Calendar created by _prepare_calendar
     existing |-> NoSchedule]    \* the schedule found in the primary calendar

Init ==
    /\ term = [s \in ScheduleId |-> NoTerm]
    /\ row = [s \in ScheduleId |-> NoCalendar]
    /\ components = [s \in ScheduleId |-> NoCalendar]
    /\ requests = 0
    /\ pc = [r \in Request |-> "idle"]
    /\ req = [r \in Request |-> NoRequest]

-----------------------------------------------------------------------------
(* Statements                                                              *)

goto(r, step) == pc' = [pc EXCEPT ![r] = step]

\* The request is over, with a response or an exception.
leave(r) == goto(r, "idle") /\ req' = [req EXCEPT ![r] = NoRequest]

\* The calendar _prepare_calendar returns for the new content.
target(r) == IF req[r].in_calendar THEN Primary ELSE req[r].draft

\* unique_together of calendar and term, where term is the season alone.
clash(s, c) == \E v \in ScheduleId \ {s} : row[v] = c /\ term[v].season = term[s].season

\* Mutation: the filter on the year is left out.
sameTerm_Season(s) == {v \in ScheduleId : term[v].season = term[s].season}

\* CalendarComponents.filter(calendar, term, year).update(calendar)
sameTerm(s) == {v \in ScheduleId : term[v] = term[s]}

\* Mutation: the update is never run.
moveAll_None(s, from, to) == UNCHANGED components

moveAll(s, from, to) ==
    components' = [v \in ScheduleId |->
        IF v \in sameTerm(s) /\ components[v] = from THEN to ELSE components[v]]

\* Model.save(): an UPDATE of every field, an INSERT if the row is gone by now.
saveRow(s, c) == row' = [row EXCEPT ![s] = c]

\* Mutation: drafts share one calendar.
begin_SharedDraft(r, s, isNew, in_cal, named, from) ==
    /\ requests < MaxRequests
    /\ requests' = requests + 1
    /\ req' = [req EXCEPT ![r] = [schedule |-> s, isNew |-> isNew, in_calendar |-> in_cal,
                 named |-> named, from |-> from, draft |-> 1, existing |-> NoSchedule]]

begin(r, s, isNew, in_cal, named, from) ==
    /\ requests < MaxRequests
    /\ requests' = requests + 1
    /\ req' = [req EXCEPT ![r] = [schedule |-> s, isNew |-> isNew, in_calendar |-> in_cal,
                 named |-> named, from |-> from, draft |-> requests + 1, existing |-> NoSchedule]]

-----------------------------------------------------------------------------
(* Requests                                                                *)

\* Mutation: the components of a new schedule are not created.
content_RowOnly(isNew) == IF isNew THEN "insert" ELSE "moveComponents"

content(isNew) == IF isNew THEN "insertComponents" ELSE "moveComponents"

\* POST: a valid schedule of term t.
create(r, in_cal, t) ==
    /\ pc[r] = "idle"
    /\ \E s \in ScheduleId :
        /\ term[s] = NoTerm
        /\ \A v \in ScheduleId : v < s => term[v] # NoTerm
        /\ term' = [term EXCEPT ![s] = t]
        /\ begin(r, s, TRUE, in_cal, FALSE, NoCalendar)
    /\ goto(r, IF in_cal THEN "prepare" ELSE content(TRUE))
    /\ UNCHANGED <<row, components>>

\* PATCH: load the instance; a new place goes through _prepare_calendar first.
update(r, s, in_cal, named) ==
    /\ pc[r] = "idle"
    /\ row[s] # NoCalendar
    /\ begin(r, s, FALSE, in_cal, named, row[s])
    /\ IF in_cal # (row[s] = Primary)
       THEN goto(r, IF in_cal THEN "prepare" ELSE content(FALSE))
       ELSE named /\ goto(r, "rename")
    /\ UNCHANGED db

\* DELETE: the Schedule row goes, its components and its calendar stay.
destroy(r, s) ==
    /\ AllowDelete
    /\ pc[r] = "idle"
    /\ row[s] # NoCalendar
    /\ row' = [row EXCEPT ![s] = NoCalendar]
    /\ UNCHANGED <<term, components, requests, pc, req>>

\* Mutation: the lookup leaves the term out.
prepare_AnyTerm(r) ==
    /\ pc[r] = "prepare"
    /\ LET found == {v \in ScheduleId : row[v] = Primary}
       IN  IF found = {}
           THEN goto(r, content(req[r].isNew)) /\ UNCHANGED req
           ELSE /\ goto(r, "demoteComponents")
                /\ \E v \in found : req' = [req EXCEPT ![r].existing = v]
    /\ UNCHANGED <<db, requests>>

\* _prepare_calendar for the primary calendar: look for the schedule of this term.
prepare(r) ==
    /\ pc[r] = "prepare"
    /\ LET found == {v \in ScheduleId : row[v] = Primary /\ term[v] = term[req[r].schedule]}
       IN  IF found = {}
           THEN goto(r, content(req[r].isNew)) /\ UNCHANGED req
           ELSE /\ goto(r, "demoteComponents")
                /\ \E v \in found : req' = [req EXCEPT ![r].existing = v]
    /\ UNCHANGED <<db, requests>>

\* migrate_to_calendar of the schedule found, in two statements.
demoteComponents(r) ==
    /\ pc[r] = "demoteComponents"
    /\ moveAll(req[r].existing, Primary, req[r].draft)
    /\ goto(r, "demote")
    /\ UNCHANGED <<term, row, requests, req>>

demote(r) ==
    /\ pc[r] = "demote"
    /\ saveRow(req[r].existing, req[r].draft)
    /\ goto(r, content(req[r].isNew))
    /\ UNCHANGED <<term, components, requests, req>>

\* create(): bulk_create the components, then insert the schedule.
insertComponents(r) ==
    /\ pc[r] = "insertComponents"
    /\ components' = [components EXCEPT ![req[r].schedule] = target(r)]
    /\ goto(r, "insert")
    /\ UNCHANGED <<term, row, requests, req>>

insert(r) ==
    /\ pc[r] = "insert"
    /\ IF clash(req[r].schedule, target(r))
       THEN UNCHANGED row
       ELSE saveRow(req[r].schedule, target(r))
    /\ leave(r)
    /\ UNCHANGED <<term, components, requests>>

\* migrate_to_calendar of the instance.
moveComponents(r) ==
    /\ pc[r] = "moveComponents"
    /\ moveAll(req[r].schedule, req[r].from, target(r))
    /\ goto(r, "move")
    /\ UNCHANGED <<term, row, requests, req>>

move(r) ==
    /\ pc[r] = "move"
    /\ IF clash(req[r].schedule, target(r))
       THEN UNCHANGED row /\ leave(r)
       ELSE /\ saveRow(req[r].schedule, target(r))
            /\ IF req[r].named
               THEN goto(r, "rename") /\ req' = [req EXCEPT ![r].from = target(r)]
               ELSE leave(r)
    /\ UNCHANGED <<term, components, requests>>

\* Saving the name writes the calendar of the instance back as well.
rename(r) ==
    /\ pc[r] = "rename"
    /\ IF clash(req[r].schedule, req[r].from)
       THEN UNCHANGED row
       ELSE saveRow(req[r].schedule, req[r].from)
    /\ leave(r)
    /\ UNCHANGED <<term, components, requests>>

\* The process dies between two statements.
crash(r) ==
    /\ AllowCrash
    /\ pc[r] # "idle"
    /\ leave(r)
    /\ UNCHANGED <<db, requests>>

Statement(r) ==
    \/ prepare(r) \/ demoteComponents(r) \/ demote(r)
    \/ insertComponents(r) \/ insert(r)
    \/ moveComponents(r) \/ move(r) \/ rename(r)

Next == \E r \in Request :
    \/ \E in_cal \in BOOLEAN, t \in Term : create(r, in_cal, t)
    \/ \E s \in ScheduleId, in_cal, named \in BOOLEAN : update(r, s, in_cal, named)
    \/ \E s \in ScheduleId : destroy(r, s)
    \/ Statement(r)
    \/ crash(r)

Spec == Init /\ [][Next]_vars

-----------------------------------------------------------------------------
(* Properties                                                              *)

RequestType ==
    [schedule : ScheduleId \cup {NoSchedule}, isNew : BOOLEAN, in_calendar : BOOLEAN,
     named : BOOLEAN, from : Calendar \cup {NoCalendar}, draft : Calendar \cup {NoCalendar},
     existing : ScheduleId \cup {NoSchedule}]

\* Every variable has its type, and only calendars are stored.
TypeOK ==
    /\ term \in [ScheduleId -> Term \cup {NoTerm}]
    /\ row \in [ScheduleId -> Calendar \cup {NoCalendar}]
    /\ components \in [ScheduleId -> Calendar \cup {NoCalendar}]
    /\ requests \in 0..MaxRequests
    /\ pc \in [Request -> Step]
    /\ req \in [Request -> RequestType]

Exists(s) == row[s] # NoCalendar

\* to_representation: the components of the calendar, by season alone.
shown(s) == {v \in ScheduleId : components[v] = row[s] /\ term[v].season = term[s].season}

\* Two schedules never share a draft, whatever requests overlap or die half-way.
DraftsAreAlone ==
    \A s, v \in ScheduleId : s # v /\ Exists(s) /\ Exists(v) /\ row[s] = row[v] => row[s] = Primary

\* The courses of a schedule that exists are stored in one of the user's calendars: they
\* come before the row and no failure in between takes them away.
CoursesAreStored == \A s \in ScheduleId : Exists(s) => components[s] # NoCalendar

\* A request leaves the schedules of every other term alone, the same season of another
\* year included.
OtherTermsUntouched ==
    [][\A s \in ScheduleId :
        <<row[s], components[s]>>' # <<row[s], components[s]>> =>
            \/ row'[s] = NoCalendar
            \/ \E r \in Request : pc'[r] # pc[r] /\ term[req[r].schedule] = term[s]]_vars
====
