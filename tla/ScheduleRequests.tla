---- MODULE ScheduleRequests ----
(***************************************************************************)
(* From a request for schedules to a saved one shown again                 *)
(* (scheduler/src/services: Course, Schedule; route_handlers/schedules*.ts,*)
(* workers/main_pool.ts, schedules/main.ts, courses/main.ts; webapp/src:   *)
(* services/Scheduler, models/CourseSchedule.ts).                          *)
(*                                                                         *)
(* A request is answered by the generator of version 2, by the service or  *)
(* by the client's own worker.  Then the same request is put to version 1, *)
(* or the client draws a schedule from the answer, swaps components for    *)
(* alternates, saves it and has it expanded again, perhaps after the       *)
(* timetable was updated.                                                  *)
(*                                                                         *)
(* A catalogue maps a course id to its sections as they come from data     *)
(* access; day 0 stands for a day of the week that cannot be parsed.       *)
(* Component ids are unique and stand for the guid.                        *)
(***************************************************************************)
EXTENDS ScheduleGenerator

CONSTANTS
    Requests,      \* sequences of [id, mandatory, sections]: what clients ask for
    OldCatalogue,  \* what the client has loaded
    NewCatalogue,  \* the catalogue after an update
    TimeLimited    \* ENABLE_TIME_LIMIT

sectionsOf(timetable) == UNION {ToSet(timetable[id]) : id \in DOMAIN timetable}

ASSUME RequestsAssumption ==
    /\ TimeLimited \in BOOLEAN
    /\ DOMAIN OldCatalogue = DOMAIN NewCatalogue
    /\ \A timetable \in {OldCatalogue, NewCatalogue} : \A id \in DOMAIN timetable :
        /\ DOMAIN timetable[id] = 1..Len(timetable[id]) /\ Len(timetable[id]) \in Nat
        /\ \A i \in DOMAIN timetable[id] :
            /\ IsFiniteSet(timetable[id][i])
            /\ \A c \in timetable[id][i] : c.start \in Nat /\ c.end \in Nat
    /\ \A timetable \in {OldCatalogue, NewCatalogue} :
        \A section, other \in sectionsOf(timetable) : \A c \in section, d \in other :
            c.id = d.id => section = other /\ c = d
    /\ \A r \in Requests : /\ DOMAIN r = 1..Len(r) /\ Len(r) \in Nat
                          /\ \A i \in DOMAIN r : r[i].id \in DOMAIN OldCatalogue

VARIABLES
    asked, lost,   \* the request, and the ids data access fails to answer
    catalogue,     \* what data access has
    phase,         \* "generating", "answered", "comparing", "compared", "drawn",
                   \* "saved", "expanding", "expanded"
    answer,        \* the answer of version 2
    drawn,         \* the schedule in the client: a set of component ids
    perDay,        \* components_per_day of it, from which the grid is drawn
    grid,          \* what the items of the grid show
    saved,         \* what is stored of it: the same by course
    outcome,       \* the answer of version 1, or of the expansion
    courses1, filters1, queue1, found1, status1   \* the first generator

First == INSTANCE FirstGenerator WITH
    courses <- courses1, filters <- filters1, queue <- queue1, found <- found1, status <- status1

request == <<asked, lost, catalogue>>
client == <<drawn, perDay, grid, saved>>
firstVars == <<courses1, filters1, queue1, found1, status1>>
allVars == <<vars, request, phase, answer, client, firstVars, outcome>>

-----------------------------------------------------------------------------
(* Course services                                                         *)

parsed(section) == {c \in section : c.day # 0}

\* The sections asked for, without components on no known day.
courseFrom(timetable, meta) ==
    [id |-> meta.id, mandatory |-> meta.mandatory,
     sections |-> LET all == timetable[meta.id]
                      wanted == ordered(meta.sections \cap DOMAIN all)
                  IN  evaluated([k \in DOMAIN wanted |-> parsed(all[wanted[k]])])]

dataToCourse(meta) == courseFrom(catalogue, meta)

missing(metas, gone) == {<<"SCHED_3000", m.id>> : m \in {m \in ToSet(metas) : m.id \in gone}}

\* CourseService.getCourses: one course per entry; those that fail become messages.
getCourses(metas, gone) ==
    LET kept == ordered({i \in DOMAIN metas : metas[i].id \notin gone})
    IN  evaluated([k \in DOMAIN kept |-> dataToCourse(metas[kept[k]])])

\* courses/main.ts getCourses: by id, the first place and the last entry of each.
byId(metas) ==
    LET places == ordered({i \in DOMAIN metas : \A k \in 1..(i - 1) : metas[k].id # metas[i].id})
        last(id) == metas[SelectLastInSeq(metas, LAMBDA m : m.id = id)]
    IN  evaluated([p \in DOMAIN places |-> last(metas[places[p]].id)])

firstGetCourses(metas, gone) == getCourses(byId(metas), gone)

-----------------------------------------------------------------------------
(* Version 2: ScheduleService.generateSchedules                            *)

\* compressSchedules: each component once, schedules as lists of their positions.
compressSchedules(found) ==
    LET component_ids == sequenceOf(UNION {UNION {alternates.components : alternates \in ToSet(s)} :
                                               s \in found})
        position(c) == CHOOSE p \in DOMAIN component_ids : component_ids[p] = c
        positions(slot) == LET cs == sequenceOf(slot.components) IN [i \in DOMAIN cs |-> position(cs[i])]
    IN  [component_ids |-> component_ids,
         schedules |-> {[k \in DOMAIN s |-> positions(s[k])] : s \in found}]

NoAnswer == [error |-> "none", messages |-> {}, data |-> [component_ids |-> <<>>, schedules |-> {}]]
failure(code) == [NoAnswer EXCEPT !.error = code, !.messages = {<<code, "">>}]

\* limitWasReached is asked when the post-generation filters have run.
limitWasReached == Cardinality(schedules) >= limit

\* Mutation: the messages of the course service are dropped.
respondV2_Silent ==
    IF requested = <<>> THEN failure("SCHED_2003")
    ELSE IF schedules = {} THEN failure("SCHED_2001")
    ELSE [error |-> "none", data |-> compressSchedules({s.components : s \in schedules}),
          messages |-> IF limitWasReached THEN {<<"SCHED_2002", "">>} ELSE {}]

respondV2 ==
    IF requested = <<>> THEN failure("SCHED_2003")
    ELSE IF schedules = {} THEN failure("SCHED_2001")
    ELSE [error |-> "none", data |-> compressSchedules({s.components : s \in schedules}),
          messages |-> missing(asked, lost)
                       \cup (IF limitWasReached THEN {<<"SCHED_2002", "">>} ELSE {})]

generateSchedules ==
    /\ phase = "generating"
    /\ Next
    /\ UNCHANGED <<request, phase, answer, client, firstVars, outcome>>

schedules_generate_v2 ==
    /\ phase = "generating"
    /\ status = "done"
    /\ phase' = "answered"
    /\ answer' = respondV2
    /\ UNCHANGED <<vars, request, client, firstVars, outcome>>

-----------------------------------------------------------------------------
(* Without the service: webapp/src/services/LocalScheduler                 *)

\* deserializeCourse: a course as the client has loaded it.
deserializeCourse(meta) == courseFrom(OldCatalogue, meta)

serializeSchedules(found) == compressSchedules(found)

\* The worker's result, which knows of no lost courses; without schedules the page does as
\* for SCHED_2001.
localResult ==
    IF schedules = {} THEN failure("SCHED_2001")
    ELSE [NoAnswer EXCEPT !.data = serializeSchedules({s.components : s \in schedules}),
                          !.messages = IF limitWasReached THEN {<<"SCHED_2002", "">>} ELSE {}]

\* LocalSchedulerService.generateSchedules, where the search was for the courses of the
\* client, of which it has each once.
generateLocally ==
    /\ phase = "generating"
    /\ status = "done"
    /\ Cardinality({asked[i].id : i \in DOMAIN asked}) = Len(asked)
    /\ requested = evaluated([i \in DOMAIN asked |-> deserializeCourse(asked[i])])
    /\ phase' = "answered"
    /\ answer' = localResult
    /\ UNCHANGED <<vars, request, client, firstVars, outcome>>

-----------------------------------------------------------------------------
(* Version 1                                                               *)

\* The executor keeps the courses and drops the messages about those that failed.
schedules_generate ==
    /\ phase = "answered"
    /\ phase' = "comparing"
    /\ First!construct(firstGetCourses(asked, lost), filters)
    /\ UNCHANGED <<vars, request, answer, client, outcome>>

firstGenerates ==
    /\ phase \in {"comparing", "expanding"}
    /\ First!generate
    /\ UNCHANGED <<vars, request, phase, answer, client, outcome>>

\* Mutation: a request that timed out is not answered.
firstAnswers_DoneOnly ==
    /\ phase = "comparing"
    /\ status1 = "done"
    /\ phase' = "compared"
    /\ outcome' = First!getResult
    /\ UNCHANGED <<vars, request, answer, client, firstVars>>

firstAnswers ==
    /\ phase = "comparing"
    /\ status1 \in {"done", "timed_out"}
    /\ phase' = "compared"
    /\ outcome' = First!getResult
    /\ UNCHANGED <<vars, request, answer, client, firstVars>>

-----------------------------------------------------------------------------
(* The client                                                              *)

ids(section) == {c.id : c \in section}

\* A guid is made of the ids of the course, the section and the component, the last of which
\* names the type: it keeps its course and type when the timetable changes, and the sections
\* of a course are known by the guids in them.
ASSUME GuidsAssumption ==
    \A timetable, other \in {OldCatalogue, NewCatalogue} :
        \A i \in DOMAIN timetable, k \in DOMAIN other :
            \A r \in ToSet(other[k]) :
                /\ \A section \in ToSet(timetable[i]) : \A c \in section, d \in r :
                        c.id = d.id => i = k /\ c.type = d.type
                /\ \A a, b \in ToSet(timetable[i]) :
                        ids(a) \cap ids(r) # {} /\ ids(b) \cap ids(r) # {} => a = b

known == UNION {UNION ToSet(OldCatalogue[i]) : i \in {asked[k].id : k \in DOMAIN asked}}
componentOf(id) == CHOOSE c \in known : c.id = id
sectionOf(id) == CHOOSE section \in sectionsOf(OldCatalogue) : id \in ids(section)

\* Mutation: all the alternates are drawn.
deserializeSchedules_All(bundle, s) ==
    {bundle.component_ids[p] : p \in UNION {ToSet(s[k]) : k \in DOMAIN s}} \cap ids(known)

\* deserializeSchedules: the first alternate of every slot, if the client knows it.
deserializeSchedules(bundle, s) ==
    {bundle.component_ids[s[k][1]] : k \in DOMAIN s} \cap ids(known)

draw ==
    /\ phase = "answered"
    /\ answer.error = "none"
    /\ \E s \in answer.data.schedules : drawn' = deserializeSchedules(answer.data, s)
    /\ perDay' = drawn'
    /\ grid' = drawn'
    /\ phase' = "drawn"
    /\ UNCHANGED <<vars, request, answer, saved, firstVars, outcome>>

getAlternates(c) == {d \in sectionOf(c.id) : sameSlot(c, d)}

\* handleComponentChange of an item: it follows if the schedule had the component.
swapComponents ==
    /\ phase = "drawn"
    /\ \E id \in grid \cap drawn : \E d \in getAlternates(componentOf(id)) :
        /\ d.id # id
        /\ drawn' = (drawn \ {id}) \cup {d.id}
        /\ grid' = (grid \ {id}) \cup {d.id}
    /\ UNCHANGED <<vars, request, phase, answer, perDay, saved, firstVars, outcome>>

\* Another schedule, or another tab, and back: the items are made anew.
redraw ==
    /\ phase = "drawn"
    /\ grid' = perDay
    /\ UNCHANGED <<vars, request, phase, answer, drawn, perDay, saved, firstVars, outcome>>

\* getCourseSkeletons: what is drawn, by course.
getCourseSkeletons ==
    LET of(course) == drawn \cap ids(UNION ToSet(OldCatalogue[course]))
    IN  [course \in {i \in DOMAIN OldCatalogue : of(i) # {}} |-> of(course)]

\* saveSchedule, and what of it data access stores.
saveSchedule ==
    /\ phase = "drawn"
    /\ saved' = getCourseSkeletons
    /\ phase' = "saved"
    /\ UNCHANGED <<vars, request, answer, drawn, perDay, grid, firstVars, outcome>>

timetableUpdated ==
    /\ phase = "saved"
    /\ catalogue # NewCatalogue
    /\ catalogue' = NewCatalogue
    /\ UNCHANGED <<vars, asked, lost, phase, answer, client, firstVars, outcome>>

-----------------------------------------------------------------------------
(* Expansion of a saved schedule                                           *)

\* Conflicts and closed components are shown as they are, nothing is minimized.
FILTERS == [conflicts |-> "ALL", allow_closed |-> TRUE, before |-> NoTime, after |-> NoTime,
            breaks |-> {}]

\* Mutation: the sections are kept whole.
filterContent_Sections(course, skeleton) ==
    [course EXCEPT !.sections = SelectSeq(@, LAMBDA section : ids(section) \cap skeleton # {})]

\* filterContent: the saved sections, and of them the saved components.
filterContent(course, skeleton) ==
    LET all == course.sections
        kept == ordered({i \in DOMAIN all : ids(all[i]) \cap skeleton # {}})
    IN  [course EXCEPT !.sections =
            evaluated([k \in DOMAIN kept |-> {c \in all[kept[k]] : c.id \in skeleton}])]

\* The courses of the skeleton, mandatory and with all their sections.
wholeCourses(skeleton) ==
    LET order == sequenceOf(DOMAIN skeleton)
    IN  evaluated([i \in DOMAIN order |-> [id |-> order[i], mandatory |-> TRUE,
                                           sections |-> DOMAIN catalogue[order[i]]]])

stub(messages) == [error |-> "none", messages |-> messages, schedules |-> {{}}]

\* expandScheduleSkeleton, up to the generator: without courses there is only a stub.
expandScheduleSkeleton ==
    /\ phase = "saved"
    /\ \E gone \in SUBSET DOMAIN saved :
        LET found == firstGetCourses(wholeCourses(saved), gone)
        IN  IF found = <<>>
            THEN /\ phase' = "expanded"
                 /\ outcome' = stub(IF gone = {} THEN {} ELSE {<<"SCHED_2003", "">>})
                 /\ UNCHANGED firstVars
            ELSE /\ phase' = "expanding"
                 /\ outcome' = stub(missing(wholeCourses(saved), gone))
                 /\ First!construct(evaluated([i \in DOMAIN found |->
                        filterContent(found[i], saved[found[i].id])]), FILTERS)
    /\ UNCHANGED <<vars, request, answer, client>>

\* The first schedule of the first set, or SCHED_2000 where there is none.
expanded ==
    /\ phase = "expanding"
    /\ status1 \in {"done", "timed_out"}
    /\ phase' = "expanded"
    /\ outcome' = IF status1 = "timed_out" THEN [outcome EXCEPT !.error = "SCHED_2004"]
                  ELSE IF found1.schedule_sets = <<>> THEN [outcome EXCEPT !.error = "SCHED_2000"]
                  ELSE [outcome EXCEPT !.schedules =
                           {ToSet(found1.schedule_sets[1][1].components)}]
    /\ UNCHANGED <<vars, request, answer, client, firstVars>>

-----------------------------------------------------------------------------
RequestsInit ==
    /\ asked \in Requests
    /\ lost \in SUBSET {asked[i].id : i \in DOMAIN asked}
    /\ catalogue \in {OldCatalogue, NewCatalogue}
    /\ \E f \in FilterChoices, l \in Limits : construct(getCourses(asked, lost), f, l)
    /\ phase = "generating"
    /\ answer = NoAnswer
    /\ drawn = {}
    /\ perDay = {}
    /\ grid = {}
    /\ saved = <<>>
    /\ outcome = stub({})
    /\ courses1 = <<>>
    /\ filters1 = FILTERS
    /\ queue1 = <<>>
    /\ found1 = First!NothingFound
    /\ status1 = "idle"

RequestsNext ==
    \/ generateSchedules \/ schedules_generate_v2 \/ generateLocally
    \/ schedules_generate \/ firstGenerates \/ firstAnswers
    \/ draw \/ swapComponents \/ redraw \/ saveSchedule \/ timetableUpdated
    \/ expandScheduleSkeleton \/ expanded

RequestsSpec ==
    /\ RequestsInit
    /\ [][RequestsNext]_allVars
    /\ WF_allVars(generateSchedules \/ schedules_generate_v2)
    /\ WF_allVars(firstGenerates \/ firstAnswers \/ expanded)

-----------------------------------------------------------------------------
(* Properties                                                              *)

\* What is about to be answered is complete and of the best.
AnswerIsComplete == phase = "generating" => ResultIsComplete

\* A course that was asked for as mandatory is in every schedule of the answer, or has
\* nothing to attend, or is named as missing: a failed fetch is never passed over.
EveryCourseIsAccountedFor ==
    phase = "answered" /\ answer.error = "none" =>
        \A i \in DOMAIN asked :
            LET meta == asked[i]
                offered == UNION ToSet(catalogue[meta.id])
            IN  \/ ~meta.mandatory
                \/ meta.id \in lost /\ <<"SCHED_3000", meta.id>> \in answer.messages
                \/ getConfigurations(dataToCourse(meta)) = {}
                \/ \A s \in answer.data.schedules : \E k \in DOMAIN s :
                        answer.data.component_ids[s[k][1]] \in ids(offered)

\* All ways to take or leave the courses of the first generator that its filters admit.
FirstCandidates ==
    LET options(c) ==
            ToSet(c.combinations)
            \cup (IF ~c.mandatory \/ c.combinations = <<>> THEN {<<>>} ELSE {})
        choices == {ch \in [DOMAIN courses1 -> UNION {options(courses1[i]) : i \in DOMAIN courses1}] :
                        \A i \in DOMAIN courses1 : ch[i] \in options(courses1[i])}
        flat == {FlattenSeq(ch) : ch \in choices} \ {<<>>}
    IN  {cs \in flat : /\ First!canAddCombination(<<>>, cs, filters1)
                       /\ First!checkFilters(cs, filters1)}

\* A result of the first generator that does not mention the limit is complete: all the
\* admissible schedules with the fewest early, then the fewest late components.  A
\* search that runs into the time limit must not look like one.
FirstResultIsComplete ==
    phase = "compared" /\ outcome.error \in {"none", "SCHED_2001"} /\ outcome.messages = {} =>
        LET early == {cs \in FirstCandidates : \A other \in FirstCandidates :
                        beforeStart(cs, filters) <= beforeStart(other, filters)}
            late == {cs \in early : \A other \in early :
                        afterEnd(cs, filters) <= afterEnd(other, filters)}
        IN  outcome.schedules = {ToSet(cs) : cs \in late}

\* Where the two versions mean the same: no course twice, no empty section in front of
\* another (the second stops there), no two lectures of a section at one time (the second takes
\* them for alternates, the first attends both), no break that is misjudged (the second looks
\* at it with every course, the first at the end), and no search cut off.
Comparable ==
    /\ Exact
    /\ Cardinality({asked[i].id : i \in DOMAIN asked}) = Len(asked)
    /\ \A i \in DOMAIN requested : \A k \in DOMAIN requested[i].sections :
          requested[i].sections[k] = {} => k = Len(requested[i].sections)
    /\ \A i \in DOMAIN requested : \A k \in DOMAIN requested[i].sections :
          \A c, d \in requested[i].sections[k] : c.type = "LEC" /\ sameSlot(c, d) => c = d
    /\ ~stopped /\ ~found1.did_reach_limit /\ status1 = "done"

\* Both versions offer the same weeks: the same slots, whatever alternates fill them.
SameAnswer ==
    phase = "compared" /\ Comparable =>
        /\ (answer.error = "none") = (outcome.error = "none")
        /\ {First!slots(s) : s \in outcome.schedules}
           = {First!slots(ToSet(s.components)) : s \in schedules}

\* What the client draws is a schedule that was found, one component to every slot,
\* also after any number of swaps, as long as it has the same timetable as the service
\* (a course asked for twice under ALL has the same slots twice).
DrawnAsFound ==
    phase = "drawn" /\ catalogue = OldCatalogue =>
        \E s \in schedules :
            /\ Cardinality(drawn) = Cardinality(ToSet(s.components))
            /\ \A k \in DOMAIN s.components : drawn \cap s.components[k].components # {}

\* swapComponents "Removes a component from the schedule and replaces it with a new one"
\* (webapp/src/models/CourseSchedule.ts:90): the grid shows what would be saved.
GridShowsSchedule == phase = "drawn" => grid = drawn

\* A saved schedule comes back as it was saved, less what the timetable no longer has
\* or could not be fetched, and fails only when nothing is left of it.
SavedIsShownAgain ==
    phase = "expanded" /\ outcome.error \in {"none", "SCHED_2000"} =>
        LET gone == IF <<"SCHED_2003", "">> \in outcome.messages THEN DOMAIN saved
                    ELSE {i \in DOMAIN saved : <<"SCHED_3000", i>> \in outcome.messages}
            left == UNION {saved[i] \cap ids(parsed(UNION ToSet(catalogue[i]))) :
                              i \in DOMAIN saved \ gone}
            shown == ids(UNION outcome.schedules)
        IN  IF outcome.error = "SCHED_2000" THEN left = {} ELSE shown = left

\* Every request is answered by either version, and every expansion ends.
RequestsEnd ==
    /\ <>(phase # "generating")
    /\ phase = "comparing" ~> phase = "compared"
    /\ phase = "expanding" ~> phase = "expanded"
====
