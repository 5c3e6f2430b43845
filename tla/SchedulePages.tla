---- MODULE SchedulePages ----
(***************************************************************************)
(* The pages of one user that show the stored schedules: the drafts, which *)
(* are paged through and can be moved to the calendar                      *)
(* (webapp/src/components/Users/DraftSchedules), and the calendar with its *)
(* share sheet (Users/Calendar, ShareSheet).  Each page asks for its lists *)
(* once and follows its own requests from then on: what it shows is right  *)
(* only as long as it does to its lists what data access does to the rows, *)
(* and that is what Planner says.                                          *)
(*                                                                         *)
(* Requests are served one at a time, in any order; what happens when data *)
(* access works on several at once is the subject of CalendarStore.        *)
(***************************************************************************)
EXTENDS CalendarShares, SequencesExt

CONSTANTS
    Term,
    NoTerm,
    MaxSchedules,     \* bound: schedules ever saved; ids are not used twice
    MaxLeft           \* bound: requests under way that no page waits for

ASSUME PagesAssumption ==
    NoTerm \notin Term /\ MaxSchedules \in Nat \ {0} /\ MaxLeft \in Nat

VARIABLES
    place,                  \* where each row is, as Planner has it
    made,                   \* the term each schedule was saved for
    unreadable,             \* schedules with a course the timetable no longer has
    page,                   \* the page shown: the scheduler, the drafts or the calendar
    lists,                  \* the requests for the lists of the page
    drafts,
    calendarSchedules,
    scheduleIdx,            \* the draft selected in each term, from 0; -1 for none
    ops,                    \* the request of each term that the page waits for
    left,                   \* requests no page waits for: saves, and those of pages left
    disturbed,              \* history: the lists may miss a change that is not the page's
    early                   \* history: a draft was moved before the page had the calendar

rowVars == <<place, made, unreadable>>
viewVars == <<page, lists, drafts, calendarSchedules, scheduleIdx>>
pageVars == <<rowVars, viewVars, ops, left, disturbed, early>>
vars == <<pageVars, shareVars>>

ScheduleId == 1..MaxSchedules
termOf == [s \in ScheduleId |-> IF place[s] = "absent" THEN NoTerm ELSE made[s]]
\* Requests about one term are served one after the other here.
rows == INSTANCE Planner WITH hurried <- {}

NoSchedule == 0
NoOp == [kind |-> "none", schedule |-> NoSchedule, calSchedule |-> NoSchedule,
         idx |-> -1, step |-> "none"]
noList == [status |-> "off", value |-> <<>>]
emptyScheduleIdx == -1

\* The elements of a list that are in S, in their order: Array.filter.
selected(list, S) ==
    LET upTo[n \in 0..Len(list)] ==
            IF n = 0 THEN <<>>
            ELSE IF list[n] \in S THEN Append(upTo[n - 1], list[n]) ELSE upTo[n - 1]
    IN  upTo[Len(list)]

ofTerm(t) == {s \in DOMAIN made : made[s] = t}
scheduleSetData(t) == selected(drafts, ofTerm(t))
numSchedules(t) == Len(scheduleSetData(t))

\* The schedule of term t the page shows from the calendar, the last one it was told of.
calendarSchedulesByTerm(t) ==
    LET candidates == selected(calendarSchedules, ofTerm(t))
    IN  IF candidates = <<>> THEN NoSchedule ELSE Last(candidates)

\* The rows in a place, less those whose courses cannot be expanded.
stored(p) == {s \in ScheduleId : place[s] = p /\ s \notin unreadable}

\* They are what a page gets of them, in order of their ids.
getSchedulesByUserUuid(p) == selected([s \in ScheduleId |-> s], stored(p))

listed == {l \in DOMAIN lists : lists[l].status \in {"answered", "success"}}

Init ==
    /\ SharesInit
    /\ place = [s \in ScheduleId |-> "absent"]
    /\ made = <<>>
    /\ unreadable = {}
    /\ page = "scheduler"
    /\ lists = [l \in {"draft", "calendar"} |-> noList]
    /\ drafts = <<>>
    /\ calendarSchedules = <<>>
    /\ scheduleIdx = [t \in Term |-> 0]
    /\ ops = [t \in Term |-> NoOp]
    /\ left = {}
    /\ disturbed = FALSE
    /\ early = FALSE

-----------------------------------------------------------------------------
(* Opening a page                                                          *)

\* Requests that were not served yet go on without the page.
visit(p) ==
    /\ p # page
    /\ page' = p
    /\ left' = left \cup {[kind |-> ops[t].kind, schedule |-> ops[t].schedule, term |-> t] :
                            t \in {u \in Term : ops[u].step = "asked"}}
    /\ ops' = [t \in Term |-> NoOp]
    /\ lists' = [l \in {"draft", "calendar"} |->
                    [noList EXCEPT !.status =
                        IF p = "drafts" \/ (p = "calendar" /\ l = "calendar") THEN "asked" ELSE "off"]]
    /\ drafts' = <<>>
    /\ calendarSchedules' = <<>>
    /\ scheduleIdx' = [t \in Term |-> 0]
    /\ disturbed' = (p # "scheduler" /\ left' # {})
    /\ early' = FALSE
    /\ IF page = "calendar" THEN unmountSheet ELSE UNCHANGED shareVars
    /\ UNCHANGED rowVars

\* Data access and the scheduler answer with the rows in that place.
getList(l) ==
    /\ lists[l].status = "asked"
    /\ lists' = [lists EXCEPT ![l] = [status |-> "answered", value |-> getSchedulesByUserUuid(l)]]
    /\ UNCHANGED <<rowVars, page, drafts, calendarSchedules, scheduleIdx, ops, left, disturbed, early>>
    /\ UNCHANGED shareVars

\* The calendar page, and its sheet, are rendered when loading is over.
loaded == IF page = "calendar" THEN mountSheet ELSE UNCHANGED shareVars

listArrives(l) ==
    /\ lists[l].status = "answered"
    /\ lists' = [lists EXCEPT ![l] = [status |-> "success", value |-> <<>>]]
    /\ IF l = "draft"
       THEN drafts' = lists[l].value /\ UNCHANGED calendarSchedules
       ELSE calendarSchedules' = lists[l].value /\ UNCHANGED drafts
    /\ loaded
    /\ UNCHANGED <<rowVars, page, scheduleIdx, ops, left, disturbed, early>>

listFails(l) ==
    /\ lists[l].status \in {"asked", "answered"}
    /\ lists' = [lists EXCEPT ![l] = [status |-> "error", value |-> <<>>]]
    /\ loaded
    /\ UNCHANGED <<rowVars, page, drafts, calendarSchedules, scheduleIdx, ops, left, disturbed, early>>

-----------------------------------------------------------------------------
(* Paging through the drafts of a term                                     *)

isValidIndex(t, i) == i \in 0..(numSchedules(t) - 1)

updateScheduleIdx(t, i) ==
    scheduleIdx' = [scheduleIdx EXCEPT ![t] = IF isValidIndex(t, i) THEN i ELSE emptyScheduleIdx]

pages(t) == page = "drafts" /\ numSchedules(t) > 0 /\ ops[t] = NoOp

decremented(t) ==
    IF scheduleIdx[t] = emptyScheduleIdx THEN numSchedules(t) - 1
    ELSE (scheduleIdx[t] - 1 + numSchedules(t)) % numSchedules(t)

\* Any number may be entered.
handleScheduleNumChange(t, n) ==
    /\ pages(t)
    /\ updateScheduleIdx(t, n - 1)
    /\ UNCHANGED <<rowVars, page, lists, drafts, calendarSchedules, ops, left, disturbed, early, shareVars>>

decrementScheduleIdx(t) ==
    /\ pages(t)
    /\ updateScheduleIdx(t, decremented(t))
    /\ UNCHANGED <<rowVars, page, lists, drafts, calendarSchedules, ops, left, disturbed, early, shareVars>>

incrementScheduleIdx(t) ==
    /\ pages(t)
    /\ updateScheduleIdx(t, (scheduleIdx[t] + 1) % numSchedules(t))
    /\ UNCHANGED <<rowVars, page, lists, drafts, calendarSchedules, ops, left, disturbed, early, shareVars>>

-----------------------------------------------------------------------------
(* Requests of the pages                                                   *)

ask(t, op) ==
    /\ ops' = [ops EXCEPT ![t] = op]
    /\ UNCHANGED <<rowVars, viewVars, left, disturbed, shareVars>>

\* Mutation: the selection stays where it was when a draft goes.
handleDeleteSchedule_KeepsIndex(t) ==
    /\ pages(t)
    /\ isValidIndex(t, scheduleIdx[t])
    /\ ask(t, [kind |-> "delete", schedule |-> scheduleSetData(t)[scheduleIdx[t] + 1],
               calSchedule |-> NoSchedule, idx |-> scheduleIdx[t], step |-> "asked"])
    /\ UNCHANGED early

\* The draft shown is deleted; the one before it is shown then.  An index beyond the list
\* selects nothing: the handler throws before it asks, and says so.
handleDeleteSchedule(t) ==
    /\ pages(t)
    /\ isValidIndex(t, scheduleIdx[t])
    /\ ask(t, [kind |-> "delete", schedule |-> scheduleSetData(t)[scheduleIdx[t] + 1],
               calSchedule |-> NoSchedule, step |-> "asked",
               idx |-> IF scheduleIdx[t] > 0 THEN decremented(t) ELSE 0])
    /\ UNCHANGED early

\* The draft shown goes to the calendar.  What is done to the lists when the answer comes is
\* decided by the calendar the page has at the click, which need not have come yet.
handleMoveToCalendar(t) ==
    /\ pages(t)
    /\ isValidIndex(t, scheduleIdx[t])
    /\ ask(t, [kind |-> "toCalendar", schedule |-> scheduleSetData(t)[scheduleIdx[t] + 1],
               calSchedule |-> calendarSchedulesByTerm(t), step |-> "asked",
               idx |-> IF calendarSchedulesByTerm(t) = NoSchedule /\ scheduleIdx[t] = numSchedules(t) - 1
                       THEN decremented(t) ELSE scheduleIdx[t]])
    /\ early' = (early \/ lists["calendar"].status # "success")

\* On the calendar page a schedule is deleted or moved to the drafts.
changeCalendar(s, kind) ==
    /\ page = "calendar"
    /\ s \in Range(calendarSchedules)
    /\ ops[made[s]] = NoOp
    /\ ask(made[s], [kind |-> kind, schedule |-> s, calSchedule |-> NoSchedule, idx |-> -1,
                     step |-> "asked"])
    /\ UNCHANGED early

handleDelete(s) == changeCalendar(s, "delete")
handleMoveToDrafts(s) == changeCalendar(s, "toDrafts")

\* A schedule is saved from the scheduler, or from the page of a friend's calendar; the
\* user's own calendar offers no save.  The dialogue lets no second save through.
saveSchedule(t, kind) ==
    /\ page = "scheduler"
    /\ Len(made) < MaxSchedules
    /\ Cardinality(left) < MaxLeft
    /\ \A r \in left : r.schedule # NoSchedule
    /\ left' = left \cup {[kind |-> kind, schedule |-> NoSchedule, term |-> t]}
    /\ UNCHANGED <<rowVars, viewVars, ops, disturbed, early, shareVars>>

-----------------------------------------------------------------------------
(* Serving them                                                            *)

\* Data access does what Planner says.
apply(kind, s, t) ==
    CASE kind \in {"saveDraft", "saveCalendar"} ->
            /\ made' = Append(made, t)
            /\ rows!Create(Len(made) + 1, t, IF kind = "saveDraft" THEN "draft" ELSE "calendar")
      [] kind = "delete" -> UNCHANGED made /\ rows!Delete(s)
      [] kind = "toCalendar" -> UNCHANGED made /\ rows!Switch(s, "calendar")
      [] kind = "toDrafts" -> UNCHANGED made /\ rows!Switch(s, "draft")

absent(s) == s # NoSchedule /\ place[s] = "absent"

\* A request of the page is served, or denied when the row is gone.  A row that was changed
\* but cannot be expanded is answered like a failure.
serve(t) ==
    /\ ops[t].step = "asked"
    /\ IF absent(ops[t].schedule)
       THEN /\ ops' = [ops EXCEPT ![t].step = "failed"]
            /\ UNCHANGED <<place, made, disturbed>>
       ELSE \E unexpanded \in {ops[t].kind # "delete" /\ ops[t].schedule \in unreadable} :
            /\ apply(ops[t].kind, ops[t].schedule, t)
            /\ ops' = [ops EXCEPT ![t].step = IF unexpanded THEN "failed" ELSE "ok"]
            /\ disturbed' = (disturbed \/ unexpanded)
    /\ UNCHANGED <<unreadable, viewVars, left, early, shareVars>>

serveLeft(r) ==
    /\ left' = left \ {r}
    /\ IF absent(r.schedule) THEN UNCHANGED <<place, made>> ELSE apply(r.kind, r.schedule, r.term)
    /\ UNCHANGED <<unreadable, viewVars, ops, disturbed, early, shareVars>>

\* A request or its answer is lost.
lose(t) ==
    /\ ops[t].step \in {"asked", "ok"}
    /\ ops' = [ops EXCEPT ![t].step = "failed"]
    /\ disturbed' = (disturbed \/ ops[t].step = "ok")
    /\ UNCHANGED <<rowVars, viewVars, left, early, shareVars>>

removeDraft(s) == selected(drafts, ScheduleId \ {s})
removeSchedule(s) == selected(calendarSchedules, ScheduleId \ {s})

\* Mutation: the schedule that has to leave the calendar is not put among the drafts.
moveToCalendar_Forgets(s, calSchedule) ==
    /\ drafts' = removeDraft(s)
    /\ calendarSchedules' = Append(removeSchedule(calSchedule), s)

\* A list with another schedule in the place of one.
replaced(list, old, new) == [i \in DOMAIN list |-> IF list[i] = old THEN new ELSE list[i]]

\* The two change places, or the draft just moves.
moveToCalendar(s, calSchedule) ==
    IF calSchedule # NoSchedule
    THEN /\ drafts' = replaced(drafts, s, calSchedule)
         /\ calendarSchedules' = replaced(calendarSchedules, calSchedule, s)
    ELSE /\ calendarSchedules' = Append(calendarSchedules, s)
         /\ drafts' = removeDraft(s)

\* The page hears from its request and follows it, with what it knew at the click.
answered(t) ==
    /\ ops[t].step \in {"ok", "failed"}
    /\ ops' = [ops EXCEPT ![t] = NoOp]
    /\ IF ops[t].step = "failed" THEN UNCHANGED <<drafts, calendarSchedules, scheduleIdx>>
       ELSE IF page = "calendar"
       THEN calendarSchedules' = removeSchedule(ops[t].schedule) /\ UNCHANGED <<drafts, scheduleIdx>>
       ELSE /\ updateScheduleIdx(t, ops[t].idx)
            /\ IF ops[t].kind = "toCalendar"
               THEN moveToCalendar(ops[t].schedule, ops[t].calSchedule)
               ELSE drafts' = removeDraft(ops[t].schedule) /\ UNCHANGED calendarSchedules
    /\ UNCHANGED <<rowVars, page, lists, left, disturbed, early, shareVars>>

-----------------------------------------------------------------------------
(* The world                                                               *)

\* Another tab of the user changes a row.
elsewhere ==
    /\ \E s \in 1..Len(made), kind \in {"delete", "toCalendar", "toDrafts"} :
        ~absent(s) /\ apply(kind, s, made[s])
    /\ disturbed' = (disturbed \/ listed # {})
    /\ UNCHANGED <<unreadable, viewVars, ops, left, early, shareVars>>

\* A new timetable: the courses of a schedule are gone, or back.
timetableChanges(s) ==
    /\ s \in 1..Len(made)
    /\ unreadable' = IF s \in unreadable THEN unreadable \ {s} ELSE unreadable \cup {s}
    /\ disturbed' = (disturbed \/ listed # {})
    /\ UNCHANGED <<place, made, viewVars, ops, left, early, shareVars>>

Clicked(t) ==
    \/ \E n \in 0..(MaxSchedules + 1) : handleScheduleNumChange(t, n)
    \/ decrementScheduleIdx(t) \/ incrementScheduleIdx(t)
    \/ handleDeleteSchedule(t) \/ handleMoveToCalendar(t)
    \/ \E kind \in {"saveDraft", "saveCalendar"} : saveSchedule(t, kind)

Next ==
    \/ \E p \in {"scheduler", "drafts", "calendar"} : visit(p)
    \/ \E l \in {"draft", "calendar"} : getList(l) \/ listArrives(l) \/ listFails(l)
    \/ \E t \in Term : Clicked(t) \/ serve(t) \/ lose(t) \/ answered(t)
    \/ \E s \in ScheduleId : handleDelete(s) \/ handleMoveToDrafts(s) \/ timetableChanges(s)
    \/ \E r \in left : serveLeft(r)
    \/ elsewhere
    \/ ShareStep /\ UNCHANGED pageVars

Spec == Init /\ [][Next]_vars

-----------------------------------------------------------------------------
(* Properties                                                              *)

shows(list, p) == Range(list) = stored(p) /\ IsInjective(list)

\* With nothing under way the pages show the drafts and the calendar as they are stored,
\* each schedule once, whatever was moved, deleted, denied or answered late: unless a
\* change came from elsewhere, an answer got lost, or a draft was moved before the calendar
\* had come.
PageShowsStored ==
    page # "scheduler" /\ ~disturbed /\ ~early /\ (\A t \in Term : ops[t] = NoOp) =>
        /\ lists["calendar"].status = "success" => shows(calendarSchedules, "calendar")
        /\ page = "drafts" /\ lists["draft"].status = "success"
             /\ lists["calendar"].status = "success" => shows(drafts, "draft")

\* The draft a term has selected is there, or none is selected: also after the last one was
\* moved away or deleted.  A change from elsewhere, or two drafts moved before the calendar
\* had come, can make a page list one draft twice, and lose both at once.
SelectedDraftExists ==
    ~disturbed /\ ~early => \A t \in Term :
        numSchedules(t) > 0 => scheduleIdx[t] \in -1..(numSchedules(t) - 1)
====
