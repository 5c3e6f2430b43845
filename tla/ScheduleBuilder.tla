---- MODULE ScheduleBuilder ----
(***************************************************************************)
(* The schedule builder of the webapp (webapp/src: components/Scheduler,   *)
(* stores/ScheduleBuilderStore, hooks/useAsync.ts, services/LocalScheduler)*)
(*                                                                         *)
(* A user lists courses, sets filters and opens the tab with the schedules *)
(* of every term.  Each term there asks the local worker of its term or    *)
(* the server for schedules, unless the store has a set that still counts  *)
(* as generated from the same input.  Answers arrive when the user may     *)
(* have left the tab; they then still go to the store.                     *)
(*                                                                         *)
(* A course is an object that its list, the store and running requests     *)
(* share: what the user switches on it is seen through all of them.        *)
(***************************************************************************)
EXTENDS Naturals, Sequences, FiniteSets, TLC

CONSTANTS
    Course,
    Term,
    termOf,        \* the term a course is offered in
    switches,      \* what the user can switch on a course: "optional", "partial"
    Filter,        \* the values of the filters; the default is one of them
    defaultFilters,
    maxNumCoursesPerTerm,
    MaxVisits,     \* bound: how often the tab with the schedules is opened
    MaxEdits       \* bound: how often filters, courses and settings are changed

Unloaded == {"unloaded"}   \* the configuration of a course not looked up yet
NoSet == [none |-> TRUE]   \* no schedules
NoTerm == "no term"
maxLoadAttempts == 5

ASSUME BuilderAssumption ==
    /\ IsFiniteSet(Term)
    /\ NoTerm \notin Term
    /\ termOf \in [Course -> Term]
    /\ switches \in [Course -> SUBSET {"optional", "partial"}]
    /\ defaultFilters \in Filter
    /\ {maxNumCoursesPerTerm, MaxVisits, MaxEdits} \subseteq Nat

VARIABLES
    termList, attempts,   \* the list of terms: "idle", "success", "error"; calls made for it
    term,                 \* the term selected in the course lookup
    lookup,               \* the courses being looked up, with the term: one at most
    coursesByTerm,
    config,               \* what is switched on every course
    removing,             \* courses that fade out of the list
    filters, remote,      \* the filters, the setting use_remote_scheduler
    tab,                  \* "courses", "options", "schedule"
    alert,                \* the offer to switch to the remote scheduler
    visit,                \* how often the tab with the schedules was opened
    scheduleSets,         \* scheduleSetDataByTerm
    previousState,        \* what memoizeState stored, once it did: one record
    shown,                \* [status, value] of the useAsync of every term
    calls,                \* generations not answered yet, oldest first
    edits,                \* changes made so far
    disturbed             \* history: a generation failed or was left, or a course went away
                          \* while schedules were shown

termVars == <<termList, attempts>>
courseVars == <<term, lookup, coursesByTerm, config, removing>>
settingVars == <<filters, remote>>
pageVars == <<tab, alert, visit>>
setVars == <<scheduleSets, previousState>>
vars == <<termVars, courseVars, settingVars, pageVars, setVars, shown, calls, edits, disturbed>>

-----------------------------------------------------------------------------
(* The store                                                               *)

Off == [status |-> "off", value |-> NoSet]

Init ==
    /\ termList = "idle"
    /\ attempts = 1
    /\ term = NoTerm
    /\ lookup = {}
    /\ coursesByTerm = [t \in Term |-> {}]
    /\ config = [c \in Course |-> Unloaded]
    /\ removing = {}
    /\ filters = defaultFilters
    /\ remote = FALSE
    /\ tab = "courses"
    /\ alert = FALSE
    /\ visit = 0
    /\ scheduleSets = [t \in Term |-> NoSet]
    /\ previousState = {}
    /\ shown = [t \in Term |-> Off]
    /\ calls = <<>>
    /\ edits = 0
    /\ disturbed = FALSE

\* useMemoizeManager.getTermMeta, of the courses listed when the closure was made, as
\* they are configured now.
getTermMeta(listed) ==
    [t \in {u \in Term : listed[u] # {}} |-> [c \in listed[t] |-> config[c]]]

\* Mutation: the courses are not compared.
getTermScheduleDataCache_Filters(t, listed, f, r, previous) ==
    IF \E p \in previous : f = p.filters /\ r = p.remote THEN scheduleSets[t] ELSE NoSet

\* A set counts as up to date if neither the filters nor the setting nor the courses of
\* the term changed since the state was memoized, whichever term that was for.
getTermScheduleDataCache(t, listed, f, r, previous) ==
    IF \E p \in previous :
        /\ f = p.filters
        /\ r = p.remote
        /\ t \in DOMAIN p.termMeta
        /\ getTermMeta(listed)[t] = p.termMeta[t]
    THEN scheduleSets[t] ELSE NoSet

cached(t) == getTermScheduleDataCache(t, coursesByTerm, filters, remote, previousState)

-----------------------------------------------------------------------------
(* Terms                                                                   *)

\* useAvailableTerms: the list arrives, or one of several attempts fails.  The terms are
\* public, so no answer is 401, after which useAsync would not try again.
getAvailableTerms ==
    /\ termList = "idle"
    /\ \/ /\ termList' = "success"
          /\ term' \in Term
          /\ attempts' = 1
       \/ /\ attempts < maxLoadAttempts
          /\ attempts' = attempts + 1
          /\ UNCHANGED <<termList, term>>
       \/ /\ attempts = maxLoadAttempts
          /\ termList' = "error"
          /\ UNCHANGED <<attempts, term>>
    /\ UNCHANGED <<lookup, coursesByTerm, config, removing, settingVars, pageVars, setVars,
                   shown, calls, edits, disturbed>>

updateTerm ==
    /\ tab = "courses"
    /\ termList = "success"
    /\ term' \in Term \ {term}
    /\ UNCHANGED <<termVars, lookup, coursesByTerm, config, removing, settingVars, pageVars,
                   setVars, shown, calls, edits, disturbed>>

-----------------------------------------------------------------------------
(* Courses                                                                 *)

\* A course is looked up once (bound); others than those of the term are not found.
addCourse(c) ==
    /\ tab = "courses"
    /\ lookup = {}
    /\ term # NoTerm
    /\ config[c] = Unloaded
    /\ Cardinality(coursesByTerm[term]) # maxNumCoursesPerTerm
    /\ lookup' = {[course |-> c, term |-> term]}
    /\ UNCHANGED <<termVars, term, coursesByTerm, config, removing, settingVars, pageVars,
                   setVars, shown, calls, edits, disturbed>>

\* Mutation: the course goes to the term that is selected by now.
addCourseData_Selected(c, t) == [coursesByTerm EXCEPT ![term] = @ \cup {c}]

addCourseData(c, t) == [coursesByTerm EXCEPT ![t] = @ \cup {c}]

\* The lookup of addCourse is answered with the course, or with an error.
lookUpCourse ==
    /\ \E l \in lookup :
        \/ /\ l.term = termOf[l.course]
           /\ coursesByTerm' = addCourseData(l.course, l.term)
           /\ config' = [config EXCEPT ![l.course] = {}]
        \/ UNCHANGED <<coursesByTerm, config>>
    /\ lookup' = {}
    /\ UNCHANGED <<termVars, term, removing, settingVars, pageVars, setVars, shown, calls,
                   edits, disturbed>>

listed(c) == c \in coursesByTerm[termOf[c]] \ removing

configure(c, switch) ==
    /\ tab = "courses"
    /\ edits < MaxEdits
    /\ listed(c)
    /\ switch \in switches[c]
    /\ config' = [config EXCEPT ![c] =
                     IF switch \in @ THEN @ \ {switch} ELSE @ \cup {switch}]
    /\ edits' = edits + 1
    /\ UNCHANGED <<termVars, term, lookup, coursesByTerm, removing, settingVars, pageVars,
                   setVars, shown, calls, disturbed>>

\* The course object is changed in place.
changeMandatory(c) == configure(c, "optional")

\* So is its section, before the course is stored once more.
updateSections(c) == configure(c, "partial")

\* The course leaves the list when it has faded out, wherever the user is by then.
handleRemoveClicked(c) ==
    /\ tab = "courses"
    /\ edits < MaxEdits
    /\ listed(c)
    /\ removing' = removing \cup {c}
    /\ edits' = edits + 1
    /\ UNCHANGED <<termVars, term, lookup, coursesByTerm, config, settingVars, pageVars,
                   setVars, shown, calls, disturbed>>

unmount(t) == [shown EXCEPT ![t] = Off]

deleteCourse ==
    /\ \E c \in removing :
        LET t == termOf[c]
            left == coursesByTerm[t] \ {c}
        IN  /\ coursesByTerm' = [coursesByTerm EXCEPT ![t] = left]
            /\ removing' = removing \ {c}
            /\ shown' = IF left = {} THEN unmount(t) ELSE shown
    /\ disturbed' = (disturbed \/ tab = "schedule")
    /\ UNCHANGED <<termVars, term, lookup, config, settingVars, pageVars, setVars, calls, edits>>

-----------------------------------------------------------------------------
(* Options                                                                 *)

handleFilterChange ==
    /\ tab = "options"
    /\ edits < MaxEdits
    /\ filters' \in Filter \ {filters}
    /\ edits' = edits + 1
    /\ UNCHANGED <<termVars, courseVars, remote, pageVars, setVars, shown, calls, disturbed>>

handleSettingChange ==
    /\ tab = "options"
    /\ edits < MaxEdits
    /\ remote' = ~remote
    /\ edits' = edits + 1
    /\ UNCHANGED <<termVars, courseVars, filters, pageVars, setVars, shown, calls, disturbed>>

-----------------------------------------------------------------------------
(* Schedules                                                               *)

\* What the closure of fetchAndUpdateScheduleData holds: `override' allows all conflicts,
\* the configurations are sent along, the courses themselves stay shared.
generation(t, r, override) ==
    [term |-> t, visit |-> visit', filters |-> filters, remote |-> r, override |-> override,
     sent |-> [c \in coursesByTerm[t] |-> config[c]], courses |-> coursesByTerm]

mounted == {t \in Term : coursesByTerm[t] # {}}

inOrder(set) == CHOOSE s \in [1..Cardinality(set) -> set] : \A t \in set : \E i \in DOMAIN s : s[i] = t

\* Every term with courses is mounted and runs: with the cached set it has its answer.
moveToSchedulesTab ==
    /\ tab \in {"courses", "options"}
    /\ lookup = {}
    /\ mounted # {}
    /\ visit < MaxVisits
    /\ tab' = "schedule"
    /\ visit' = visit + 1
    /\ LET fresh == {t \in mounted : cached(t) = NoSet}
       IN  /\ shown' = [t \in Term |->
                            IF t \notin mounted THEN Off
                            ELSE IF t \in fresh THEN [status |-> "pending", value |-> NoSet]
                            ELSE [status |-> "success", value |-> cached(t)]]
           /\ calls' = calls \o [i \in 1..Cardinality(fresh) |->
                                     generation(inOrder(fresh)[i], remote, FALSE)]
    /\ UNCHANGED <<termVars, courseVars, settingVars, alert, setVars, edits, disturbed>>

pending == {t \in Term : shown[t].status = "pending"}

\* The schedules are unmounted, what they asked for is not taken back.
handleTabSelect ==
    /\ tab' \in {"courses", "options"} \ {tab}
    /\ tab' = "options" => lookup = {}
    /\ alert' = FALSE
    /\ shown' = [t \in Term |-> Off]
    /\ disturbed' = (disturbed \/ pending # {})
    /\ UNCHANGED <<termVars, courseVars, settingVars, visit, setVars, calls, edits>>

\* Two seconds after mounting, or after the setting changed, without schedules.
enableRemoteSchedulerAlert ==
    /\ tab = "schedule"
    /\ ~remote
    /\ \E t \in Term : shown[t].status \in {"pending", "error"}
    /\ alert' = TRUE
    /\ UNCHANGED <<termVars, courseVars, settingVars, tab, visit, setVars, shown, calls, edits,
                   disturbed>>

\* The setting is a dependency of useAsync: it runs again, except where it is pending.
setRemoteSchedulerSetting ==
    /\ alert
    /\ ~remote
    /\ edits < MaxEdits
    /\ remote' = TRUE
    /\ visit' = visit
    /\ LET hit(t) == getTermScheduleDataCache(t, coursesByTerm, filters, TRUE, previousState)
           ready == {t \in mounted : shown[t].status # "pending"}
           fresh == {t \in ready : hit(t) = NoSet}
       IN  /\ shown' = [t \in Term |->
                            IF t \in fresh THEN [shown[t] EXCEPT !.status = "pending"]
                            ELSE IF t \in ready THEN [status |-> "success", value |-> hit(t)]
                            ELSE shown[t]]
           /\ calls' = calls \o [i \in 1..Cardinality(fresh) |->
                                     generation(inOrder(fresh)[i], TRUE, FALSE)]
    /\ edits' = edits + 1
    /\ UNCHANGED <<termVars, courseVars, filters, tab, alert, setVars, disturbed>>

\* Mutation: only sets that were generated for it are marked.
marked_NotCached(set) == set

marked(set) == [set EXCEPT !.filter_overrides = TRUE]

\* Offered where no schedules were found or an error came.  A set that has come to count
\* as up to date in the meantime is taken as it is, and marked.
generateWithConflicts(t) ==
    /\ tab = "schedule"
    /\ shown[t].status \in {"success", "error"}
    /\ shown[t].value = NoSet
    /\ edits < MaxEdits
    /\ edits' = edits + 1
    /\ visit' = visit
    /\ IF cached(t) # NoSet
       THEN /\ scheduleSets' = [scheduleSets EXCEPT ![t] = marked(cached(t))]
            /\ shown' = [shown EXCEPT ![t].value = marked(cached(t))]
            /\ UNCHANGED calls
       ELSE /\ calls' = Append(calls, generation(t, remote, TRUE))
            /\ UNCHANGED <<scheduleSets, shown>>
    /\ UNCHANGED <<termVars, courseVars, settingVars, tab, alert, previousState, disturbed>>

-----------------------------------------------------------------------------
(* Answers                                                                 *)

\* The worker of a term takes one request after the other, the server any.
answerable(i) ==
    calls[i].remote \/ \A k \in 1..(i - 1) : calls[k].remote \/ calls[k].term # calls[i].term

stillMounted(call) == tab = "schedule" /\ call.visit = visit /\ shown[call.term] # Off

\* What useAsync does with an answer; a generation with conflicts sets the value alone.
received(call, status, value) ==
    IF ~stillMounted(call) THEN shown
    ELSE IF call.override /\ status = "error" THEN shown
    ELSE IF call.override THEN [shown EXCEPT ![call.term].value = value]
    ELSE IF status = "error" THEN [shown EXCEPT ![call.term].status = "error"]
    ELSE [shown EXCEPT ![call.term] = [status |-> status, value |-> value]]

without(seq, i) == SubSeq(seq, 1, i - 1) \o SubSeq(seq, i + 1, Len(seq))

\* memoizeState of the closure: its filters and setting, and every term it knows of.
memoizeState(call) ==
    previousState' = {[filters |-> call.filters, remote |-> call.remote,
                       termMeta |-> getTermMeta(call.courses)]}

\* Schedules were found: updateTermScheduleSet and memoizeState, mounted or not.
generated(i) ==
    LET call == calls[i]
        set == [filters |-> call.filters, courses |-> call.sent, conflicts |-> call.override,
                filter_overrides |-> FALSE]
        final == IF call.override THEN marked(set) ELSE set
    IN  /\ answerable(i)
        /\ scheduleSets' = [scheduleSets EXCEPT ![call.term] = final]
        /\ memoizeState(call)
        /\ shown' = received(call, "success", final)
        /\ UNCHANGED disturbed

\* Mutation: an empty result is not waited for any more, and not noted either.
noneFound_Dropped(i) ==
    /\ answerable(i)
    /\ disturbed' = TRUE
    /\ UNCHANGED <<setVars, shown>>

\* No schedule fits the filters (SCHED_2001): nothing is stored.
noneFound(i) ==
    /\ answerable(i)
    /\ shown' = received(calls[i], "success", NoSet)
    /\ disturbed' = TRUE
    /\ UNCHANGED setVars

\* alertOnCatch
generationFails(i) ==
    /\ answerable(i)
    /\ shown' = received(calls[i], "error", NoSet)
    /\ disturbed' = TRUE
    /\ UNCHANGED setVars

answer(i) ==
    /\ i \in DOMAIN calls
    /\ generated(i) \/ noneFound(i) \/ generationFails(i)
    /\ calls' = without(calls, i)
    /\ UNCHANGED <<termVars, courseVars, settingVars, pageVars, edits>>

-----------------------------------------------------------------------------
Next ==
    \/ getAvailableTerms \/ updateTerm \/ lookUpCourse \/ deleteCourse
    \/ \E c \in Course :
        addCourse(c) \/ changeMandatory(c) \/ updateSections(c) \/ handleRemoveClicked(c)
    \/ handleFilterChange \/ handleSettingChange
    \/ moveToSchedulesTab \/ handleTabSelect
    \/ enableRemoteSchedulerAlert \/ setRemoteSchedulerSetting
    \/ \E t \in Term : generateWithConflicts(t)
    \/ \E i \in DOMAIN calls : answer(i)

Spec == Init /\ [][Next]_vars

\* The service and the workers answer; the user need not do anything.
FairSpec ==
    /\ Spec
    /\ WF_vars(getAvailableTerms)
    /\ WF_vars(answer(1))

-----------------------------------------------------------------------------
(* Properties                                                              *)

\* A course is listed under the term it was looked up for, also when the user selects
\* another one while it is being fetched.
CoursesInTheirTerm ==
    \A t \in Term : \A c \in coursesByTerm[t] : termOf[c] = t /\ config[c] # Unloaded

isCurrent(set, t) ==
    /\ set.filters = filters
    /\ set.courses = [c \in coursesByTerm[t] |-> config[c]]

Answered(t) == shown[t].status = "success" /\ shown[t].value # NoSet

\* What a term shows once it is through was generated from the filters and the courses as
\* they are set now: what the store has of earlier visits is only used where nothing
\* changed.  It holds as long as every generation was waited for and found something.
ShownIsCurrent ==
    ~disturbed => \A t \in Term : Answered(t) => isCurrent(shown[t].value, t)

\* getTermScheduleDataCache determines "which terms need to be queried for new data and
\* which data can be re-used" (TermSchedule.tsx:33): what is shown is current, always.
ReusedIsCurrent ==
    \A t \in Term : Answered(t) => isCurrent(shown[t].value, t)

\* Schedules with conflicts that the filters forbid never pass for ordinary ones, from
\* the store neither.
OverridesAreMarked ==
    \A t \in Term : shown[t].value # NoSet /\ shown[t].value.conflicts =>
        shown[t].value.filter_overrides

\* Every term stops loading, and the list of terms does.
LoadingEnds ==
    /\ <>(termList # "idle")
    /\ \A t \in Term : shown[t].status = "pending" ~> shown[t].status # "pending"
====
