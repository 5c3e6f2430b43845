---- MODULE CalendarStoreProofs ----
(***************************************************************************)
(* What holds of CalendarStore and CalendarHistory for any number of       *)
(* requests, schedules, terms and calendars, with requests that overlap,   *)
(* crash, are refused and delete.                                          *)
(***************************************************************************)
EXTENDS CalendarHistory, TLAPS

USE StoreAssumption

LEMMA CalendarFacts ==
    /\ Primary \in Calendar
    /\ NoCalendar \notin Calendar
    /\ NoSchedule \notin ScheduleId
    /\ \A n \in 1..MaxRequests : n \in Calendar /\ n # Primary
BY DEF Primary, Calendar, NoCalendar, NoSchedule, ScheduleId

-----------------------------------------------------------------------------
(* Types                                                                   *)

LEMMA BeginType ==
    ASSUME TypeOK, NEW r \in Request, NEW s \in ScheduleId, NEW isNew \in BOOLEAN,
           NEW in_cal \in BOOLEAN, NEW named \in BOOLEAN,
           NEW from \in Calendar \cup {NoCalendar},
           begin(r, s, isNew, in_cal, named, from)
    PROVE  requests' \in 0..MaxRequests /\ req' \in [Request -> RequestType]
<1>1. requests' = requests + 1 /\ requests' \in 0..MaxRequests /\ requests + 1 \in Calendar
  BY DEF begin, TypeOK, Calendar
<1>2. [schedule |-> s, isNew |-> isNew, in_calendar |-> in_cal, named |-> named,
       from |-> from, draft |-> requests + 1, existing |-> NoSchedule] \in RequestType
  BY <1>1 DEF RequestType
<1>. QED BY <1>1, <1>2 DEF begin, TypeOK

LEMMA LeaveType ==
    ASSUME TypeOK, NEW r \in Request, leave(r)
    PROVE  pc' \in [Request -> Step] /\ req' \in [Request -> RequestType]
<1>1. NoRequest \in RequestType
  BY DEF NoRequest, RequestType
<1>. QED BY <1>1 DEF leave, goto, TypeOK, Step

LEMMA GotoType ==
    ASSUME TypeOK, NEW r \in Request, NEW step \in Step, goto(r, step)
    PROVE  pc' \in [Request -> Step]
BY DEF goto, TypeOK

LEMMA RequestFieldTypes ==
    ASSUME TypeOK, NEW r \in Request
    PROVE  /\ req[r].schedule \in ScheduleId \cup {NoSchedule}
           /\ req[r].existing \in ScheduleId \cup {NoSchedule}
           /\ req[r].from \in Calendar \cup {NoCalendar}
           /\ req[r].draft \in Calendar \cup {NoCalendar}
           /\ target(r) \in Calendar \cup {NoCalendar}
           /\ req[r].isNew \in BOOLEAN
           /\ req[r].in_calendar \in BOOLEAN
BY CalendarFacts DEF TypeOK, RequestType, target

LEMMA ContentType == \A isNew \in BOOLEAN : content(isNew) \in Step
BY DEF content, Step

LEMMA SaveRowType ==
    ASSUME TypeOK, NEW s \in ScheduleId \cup {NoSchedule}, NEW c \in Calendar \cup {NoCalendar},
           saveRow(s, c)
    PROVE  row' \in [ScheduleId -> Calendar \cup {NoCalendar}]
BY DEF saveRow, TypeOK

LEMMA MoveAllType ==
    ASSUME TypeOK, NEW s, NEW from, NEW to \in Calendar \cup {NoCalendar}, moveAll(s, from, to)
    PROVE  components' \in [ScheduleId -> Calendar \cup {NoCalendar}]
BY DEF moveAll, TypeOK

LEMMA InitType == Init => TypeOK
BY DEF Init, TypeOK, NoRequest, RequestType, Step, NoSchedule, NoCalendar

LEMMA StatementType ==
    ASSUME TypeOK, NEW r \in Request, Statement(r)
    PROVE  TypeOK'
<1>1. CASE prepare(r)
  <2>1. UNCHANGED <<term, row, components, requests>>
    BY <1>1 DEF prepare, db
  <2>2. pc' \in [Request -> Step]
    BY <1>1, GotoType, ContentType, RequestFieldTypes DEF prepare, Step
  <2>3. req' \in [Request -> RequestType]
    BY <1>1 DEF prepare, TypeOK, RequestType
  <2>. QED BY <2>1, <2>2, <2>3 DEF TypeOK
<1>2. CASE demoteComponents(r)
  <2>1. components' \in [ScheduleId -> Calendar \cup {NoCalendar}]
    BY <1>2, MoveAllType, RequestFieldTypes DEF demoteComponents
  <2>2. pc' \in [Request -> Step]
    BY <1>2, GotoType DEF demoteComponents, Step
  <2>. QED BY <1>2, <2>1, <2>2 DEF demoteComponents, TypeOK
<1>3. CASE demote(r)
  <2>1. row' \in [ScheduleId -> Calendar \cup {NoCalendar}]
    BY <1>3, SaveRowType, RequestFieldTypes DEF demote
  <2>2. pc' \in [Request -> Step]
    BY <1>3, GotoType, ContentType, RequestFieldTypes DEF demote
  <2>. QED BY <1>3, <2>1, <2>2 DEF demote, TypeOK
<1>4. CASE insertComponents(r)
  <2>1. components' \in [ScheduleId -> Calendar \cup {NoCalendar}]
    BY <1>4, RequestFieldTypes DEF insertComponents, TypeOK
  <2>2. pc' \in [Request -> Step]
    BY <1>4, GotoType DEF insertComponents, Step
  <2>. QED BY <1>4, <2>1, <2>2 DEF insertComponents, TypeOK
<1>5. CASE insert(r)
  <2>1. row' \in [ScheduleId -> Calendar \cup {NoCalendar}]
    BY <1>5, SaveRowType, RequestFieldTypes DEF insert, TypeOK
  <2>2. pc' \in [Request -> Step] /\ req' \in [Request -> RequestType]
    BY <1>5, LeaveType DEF insert
  <2>. QED BY <1>5, <2>1, <2>2 DEF insert, TypeOK
<1>6. CASE moveComponents(r)
  <2>1. components' \in [ScheduleId -> Calendar \cup {NoCalendar}]
    BY <1>6, MoveAllType, RequestFieldTypes DEF moveComponents
  <2>2. pc' \in [Request -> Step]
    BY <1>6, GotoType DEF moveComponents, Step
  <2>. QED BY <1>6, <2>1, <2>2 DEF moveComponents, TypeOK
<1>7. CASE move(r)
  <2>1. row' \in [ScheduleId -> Calendar \cup {NoCalendar}]
    BY <1>7, SaveRowType, RequestFieldTypes DEF move, TypeOK
  <2>2. CASE leave(r)
    BY <1>7, <2>1, <2>2, LeaveType DEF move, TypeOK
  <2>3. CASE goto(r, "rename") /\ req' = [req EXCEPT ![r].from = target(r)]
    <3>1. pc' \in [Request -> Step]
      BY <2>3, GotoType DEF Step
    <3>2. req' \in [Request -> RequestType]
      BY <2>3, RequestFieldTypes DEF TypeOK, RequestType
    <3>. QED BY <1>7, <2>1, <3>1, <3>2 DEF move, TypeOK
  <2>. QED BY <1>7, <2>2, <2>3 DEF move
<1>8. CASE rename(r)
  <2>1. row' \in [ScheduleId -> Calendar \cup {NoCalendar}]
    BY <1>8, SaveRowType, RequestFieldTypes DEF rename, TypeOK
  <2>2. pc' \in [Request -> Step] /\ req' \in [Request -> RequestType]
    BY <1>8, LeaveType DEF rename
  <2>. QED BY <1>8, <2>1, <2>2 DEF rename, TypeOK
<1>. QED BY <1>1, <1>2, <1>3, <1>4, <1>5, <1>6, <1>7, <1>8 DEF Statement

LEMMA NextType == TypeOK /\ [Next]_vars => TypeOK'
<1> SUFFICES ASSUME TypeOK, [Next]_vars PROVE TypeOK'
  OBVIOUS
<1>1. ASSUME NEW r \in Request, NEW in_cal \in BOOLEAN, NEW t \in Term, create(r, in_cal, t)
      PROVE  TypeOK'
  <2>1. PICK s \in ScheduleId :
            term' = [term EXCEPT ![s] = t] /\ begin(r, s, TRUE, in_cal, FALSE, NoCalendar)
    BY <1>1 DEF create
  <2>2. term' \in [ScheduleId -> Term \cup {NoTerm}]
    BY <2>1 DEF TypeOK
  <2>3. requests' \in 0..MaxRequests /\ req' \in [Request -> RequestType]
    BY <2>1, BeginType
  <2>4. pc' \in [Request -> Step]
    BY <1>1, GotoType, ContentType DEF create, Step
  <2>. QED BY <1>1, <2>2, <2>3, <2>4 DEF create, TypeOK
<1>2. ASSUME NEW r \in Request, NEW s \in ScheduleId, NEW in_cal \in BOOLEAN,
             NEW named \in BOOLEAN, update(r, s, in_cal, named)
      PROVE  TypeOK'
  <2>0. row[s] \in Calendar \cup {NoCalendar} /\ begin(r, s, FALSE, in_cal, named, row[s])
    BY <1>2 DEF update, TypeOK
  <2>1. requests' \in 0..MaxRequests /\ req' \in [Request -> RequestType]
    BY <2>0, BeginType
  <2>2. pc' \in [Request -> Step]
    BY <1>2, GotoType, ContentType DEF update, Step
  <2>. QED BY <1>2, <2>1, <2>2 DEF update, TypeOK, db
<1>3. ASSUME NEW r \in Request, NEW s \in ScheduleId, destroy(r, s) PROVE TypeOK'
  BY <1>3 DEF destroy, TypeOK
<1>4. ASSUME NEW r \in Request, crash(r) PROVE TypeOK'
  <2>1. pc' \in [Request -> Step] /\ req' \in [Request -> RequestType]
    BY <1>4, LeaveType DEF crash
  <2>. QED BY <1>4, <2>1 DEF crash, TypeOK, db
<1>5. ASSUME UNCHANGED vars PROVE TypeOK'
  BY <1>5 DEF vars, TypeOK
<1>. QED BY <1>1, <1>2, <1>3, <1>4, <1>5, StatementType DEF Next

\* Only calendars, schedules and terms are ever stored in the tables of models.py and in
\* what a request remembers between its statements.
THEOREM TypeCorrect == Spec => []TypeOK
BY InitType, NextType, PTL DEF Spec

-----------------------------------------------------------------------------
(* What a step of one request leaves to the others.                        *)

Others(r) == \A q \in Request \ {r} : pc'[q] = pc[q] /\ req'[q] = req[q]

LEMMA LeaveIsLocal == ASSUME TypeOK, NEW r \in Request, leave(r) PROVE Others(r) /\ pc'[r] = "idle"
BY DEF leave, goto, Others, TypeOK

LEMMA GotoIsLocal ==
    ASSUME TypeOK, NEW r \in Request, NEW step, goto(r, step),
           UNCHANGED req \/ \E x : req' = [req EXCEPT ![r] = x]
    PROVE  Others(r) /\ pc'[r] = step
BY DEF goto, Others, TypeOK

\* How _prepare_calendar goes on: without a schedule to move, or with the one it found.
LEMMA PrepareSteps ==
    ASSUME TypeOK, NEW r \in Request, prepare(r)
    PROVE  /\ Others(r)
           /\ UNCHANGED <<term, row, components, requests>>
           /\ \/ /\ UNCHANGED req /\ pc'[r] = content(req[r].isNew)
                 /\ \A v \in ScheduleId : row[v] = Primary => term[v] # term[req[r].schedule]
              \/ /\ pc'[r] = "demoteComponents"
                 /\ \E v \in ScheduleId :
                      /\ row[v] = Primary /\ term[v] = term[req[r].schedule]
                      /\ req' = [req EXCEPT ![r].existing = v]
<1>1. UNCHANGED <<term, row, components, requests>>
  BY DEF prepare, db
<1>2. CASE {v \in ScheduleId : row[v] = Primary /\ term[v] = term[req[r].schedule]} = {}
  <2>1. goto(r, content(req[r].isNew)) /\ UNCHANGED req
    BY <1>2 DEF prepare
  <2>2. Others(r) /\ pc'[r] = content(req[r].isNew)
    BY <2>1, GotoIsLocal
  <2>3. \A v \in ScheduleId : row[v] = Primary => term[v] # term[req[r].schedule]
    BY <1>2
  <2>. QED BY <1>1, <2>1, <2>2, <2>3
<1>3. CASE {v \in ScheduleId : row[v] = Primary /\ term[v] = term[req[r].schedule]} # {}
  <2>1. /\ goto(r, "demoteComponents")
        /\ \E v \in ScheduleId :
             /\ row[v] = Primary /\ term[v] = term[req[r].schedule]
             /\ req' = [req EXCEPT ![r].existing = v]
    BY <1>3 DEF prepare
  <2>2. Others(r) /\ pc'[r] = "demoteComponents"
    BY <2>1 DEF goto, Others, TypeOK
  <2>. QED BY <1>1, <2>1, <2>2
<1>. QED BY <1>2, <1>3

\* How a move ends: refused, done, or with the name still to be saved.
LEMMA MoveSteps ==
    ASSUME TypeOK, NEW r \in Request, move(r)
    PROVE  /\ Others(r)
           /\ UNCHANGED <<term, components, requests>>
           /\ \/ UNCHANGED row
              \/ row' = [row EXCEPT ![req[r].schedule] = target(r)]
           /\ \/ pc'[r] = "idle"
              \/ pc'[r] = "rename" /\ req' = [req EXCEPT ![r].from = target(r)]
<1>1. CASE leave(r)
  BY <1>1, LeaveIsLocal DEF move, saveRow
<1>2. CASE goto(r, "rename") /\ req' = [req EXCEPT ![r].from = target(r)]
  <2>1. Others(r) /\ pc'[r] = "rename"
    BY <1>2 DEF goto, Others, TypeOK
  <2>. QED BY <1>2, <2>1 DEF move, saveRow
<1>. QED BY <1>1, <1>2 DEF move

\* What a new request starts with.
LEMMA BeginIsLocal ==
    ASSUME TypeOK, NEW r \in Request, NEW s, NEW isNew, NEW in_cal, NEW named, NEW from,
           NEW step, begin(r, s, isNew, in_cal, named, from), goto(r, step)
    PROVE  /\ Others(r)
           /\ pc'[r] = step
           /\ requests' = requests + 1
           /\ requests' \in 1..MaxRequests
           /\ req'[r].schedule = s
           /\ req'[r].isNew = isNew
           /\ req'[r].in_calendar = in_cal
           /\ req'[r].from = from
           /\ req'[r].draft = requests'
           /\ req'[r].existing = NoSchedule
<1>1. requests' = requests + 1 /\ requests' \in 1..MaxRequests
  BY DEF begin, TypeOK
<1>2. Others(r) /\ pc'[r] = step
  BY DEF begin, goto, Others, TypeOK
<1>3. req'[r] = [schedule |-> s, isNew |-> isNew, in_calendar |-> in_cal, named |-> named,
                 from |-> from, draft |-> requests + 1, existing |-> NoSchedule]
  BY DEF begin, TypeOK
<1>. QED BY <1>1, <1>2, <1>3

-----------------------------------------------------------------------------
(* Courses are stored: the invariant follows a schedule that exists, or is *)
(* about to, through the requests that hold it.                            *)

Stored(s) == components[s] # NoCalendar

HoldsStored(r) ==
    pc[r] # "idle" =>
        /\ req[r].schedule \in ScheduleId
        /\ req[r].draft \in Calendar
        /\ pc[r] \in {"demoteComponents", "demote"} =>
               req[r].existing \in ScheduleId /\ Stored(req[r].existing)
        /\ \/ pc[r] \in {"prepare", "demoteComponents", "demote"} /\ req[r].isNew
           \/ pc[r] = "insertComponents"
           \/ Stored(req[r].schedule)

StoredInv == CoursesAreStored /\ \A r \in Request : HoldsStored(r)

\* No statement takes the courses of a schedule away.
LEMMA StoredStays ==
    ASSUME TypeOK, StoredInv, NEW r \in Request, Statement(r), NEW v \in ScheduleId, Stored(v)
    PROVE  Stored(v)'
<1>1. pc[r] # "idle" => target(r) \in Calendar /\ req[r].draft \in Calendar
  BY CalendarFacts DEF StoredInv, HoldsStored, target
<1>2. CASE demoteComponents(r)
  BY <1>1, <1>2, CalendarFacts DEF demoteComponents, moveAll, Stored, TypeOK
<1>3. CASE insertComponents(r)
  BY <1>1, <1>3, CalendarFacts DEF insertComponents, Stored, TypeOK
<1>4. CASE moveComponents(r)
  BY <1>1, <1>4, CalendarFacts DEF moveComponents, moveAll, Stored, TypeOK
<1>5. CASE UNCHANGED components
  BY <1>5 DEF Stored
<1>. QED BY <1>2, <1>3, <1>4, <1>5
         DEF Statement, prepare, demote, insert, move, rename, db

\* A step of r keeps the invariant if it keeps its own part and stores what it shows.
LEMMA StoredByOthers ==
    ASSUME StoredInv, NEW r \in Request, Others(r),
           \A v \in ScheduleId : Stored(v) => Stored(v)',
           \A v \in ScheduleId : row'[v] # row[v] => row'[v] = NoCalendar \/ Stored(v)',
           HoldsStored(r)'
    PROVE  StoredInv'
<1>1. CoursesAreStored'
  BY DEF StoredInv, CoursesAreStored, Exists, Stored
<1>2. ASSUME NEW q \in Request, q # r PROVE HoldsStored(q)'
  <2>1. pc'[q] = pc[q] /\ req'[q] = req[q]
    BY <1>2 DEF Others
  <2>. QED BY <2>1 DEF StoredInv, HoldsStored
<1>. QED BY <1>1, <1>2 DEF StoredInv

LEMMA StatementStores ==
    ASSUME TypeOK, StoredInv, NEW r \in Request, Statement(r)
    PROVE  StoredInv'
<1> USE DEF Step
<1>0. \A v \in ScheduleId : Stored(v) => Stored(v)'
  BY StoredStays
<1>a. HoldsStored(r) /\ CoursesAreStored
  BY DEF StoredInv
<1>1. CASE prepare(r)
  <2>1. HoldsStored(r)'
    <3>1. CASE UNCHANGED req /\ pc'[r] = content(req[r].isNew)
      BY <1>0, <1>a, <1>1, <3>1 DEF HoldsStored, content, prepare
    <3>2. ASSUME pc'[r] = "demoteComponents", NEW v \in ScheduleId, row[v] = Primary,
                 req' = [req EXCEPT ![r].existing = v]
          PROVE  HoldsStored(r)'
      <4>1. Stored(v)'
        BY <1>0, <1>a, <3>2, CalendarFacts DEF CoursesAreStored, Exists, Stored
      <4>2. /\ req'[r].existing = v /\ req'[r].schedule = req[r].schedule
            /\ req'[r].draft = req[r].draft /\ req'[r].isNew = req[r].isNew
        BY <3>2 DEF TypeOK, RequestType
      <4>3. pc[r] = "prepare"
        BY <1>1 DEF prepare
      <4>. QED BY <1>0, <1>a, <3>2, <4>1, <4>2, <4>3 DEF HoldsStored
    <3>. QED BY <1>1, <3>1, <3>2, PrepareSteps
  <2>2. Others(r) /\ UNCHANGED row
    BY <1>1, PrepareSteps
  <2>. QED BY <1>0, <2>1, <2>2, StoredByOthers
<1>2. CASE demoteComponents(r)
  <2>1. Others(r) /\ pc'[r] = "demote" /\ UNCHANGED <<row, req>> /\ pc[r] = "demoteComponents"
    BY <1>2, GotoIsLocal DEF demoteComponents
  <2>2. HoldsStored(r)'
    BY <1>0, <1>a, <2>1 DEF HoldsStored
  <2>. QED BY <1>0, <2>1, <2>2, StoredByOthers
<1>3. CASE demote(r)
  <2>1. /\ Others(r) /\ pc'[r] = content(req[r].isNew) /\ UNCHANGED req
        /\ row' = [row EXCEPT ![req[r].existing] = req[r].draft]
        /\ pc[r] = "demote"
    BY <1>3, GotoIsLocal DEF demote, saveRow
  <2>2. \A v \in ScheduleId : row'[v] # row[v] => Stored(v)'
    BY <1>0, <1>a, <2>1 DEF HoldsStored, TypeOK
  <2>3. HoldsStored(r)'
    BY <1>0, <1>a, <2>1 DEF HoldsStored, content
  <2>. QED BY <1>0, <2>1, <2>2, <2>3, StoredByOthers
<1>4. CASE insertComponents(r)
  <2>1. Others(r) /\ pc'[r] = "insert" /\ UNCHANGED <<row, req>> /\ pc[r] = "insertComponents"
    BY <1>4, GotoIsLocal DEF insertComponents
  <2>2. target(r) \in Calendar /\ req[r].schedule \in ScheduleId
    BY <1>a, <2>1, CalendarFacts DEF HoldsStored, target
  <2>3. Stored(req[r].schedule)'
    BY <1>4, <2>1, <2>2, CalendarFacts DEF insertComponents, Stored, TypeOK
  <2>4. HoldsStored(r)'
    BY <1>a, <2>1, <2>3 DEF HoldsStored
  <2>. QED BY <1>0, <2>1, <2>4, StoredByOthers
<1>5. CASE insert(r)
  <2>1. Others(r) /\ pc'[r] = "idle" /\ pc[r] = "insert"
    BY <1>5, LeaveIsLocal DEF insert
  <2>2. \A v \in ScheduleId : row'[v] # row[v] => v = req[r].schedule
    BY <1>5 DEF insert, saveRow, TypeOK
  <2>3. components'[req[r].schedule] # NoCalendar /\ HoldsStored(r)'
    BY <1>0, <1>a, <2>1 DEF HoldsStored, Stored
  <2>. QED BY <1>0, <2>1, <2>2, <2>3, StoredByOthers DEF Stored
<1>6. CASE moveComponents(r)
  <2>1. Others(r) /\ pc'[r] = "move" /\ UNCHANGED <<row, req>> /\ pc[r] = "moveComponents"
    BY <1>6, GotoIsLocal DEF moveComponents
  <2>2. HoldsStored(r)'
    BY <1>0, <1>a, <2>1 DEF HoldsStored
  <2>. QED BY <1>0, <2>1, <2>2, StoredByOthers
<1>7. CASE move(r)
  <2>1. Others(r) /\ pc[r] = "move"
    BY <1>7, MoveSteps DEF move
  <2>2. \A v \in ScheduleId : row'[v] # row[v] => v = req[r].schedule
    BY <1>7, MoveSteps DEF TypeOK
  <2>3. components'[req[r].schedule] # NoCalendar
    BY <1>0, <1>a, <2>1 DEF HoldsStored, Stored
  <2>4. CASE pc'[r] = "idle"
    BY <1>0, <2>1, <2>2, <2>3, <2>4, StoredByOthers DEF HoldsStored, Stored
  <2>5. CASE pc'[r] = "rename" /\ req' = [req EXCEPT ![r].from = target(r)]
    <3>1. req'[r].schedule = req[r].schedule /\ req'[r].draft = req[r].draft
      BY <2>5 DEF TypeOK, RequestType
    <3>2. HoldsStored(r)'
      BY <1>a, <2>1, <2>3, <2>5, <3>1 DEF HoldsStored, Stored
    <3>. QED BY <1>0, <2>1, <2>2, <2>3, <3>2, StoredByOthers DEF Stored
  <2>. QED BY <1>7, <2>4, <2>5, MoveSteps
<1>8. CASE rename(r)
  <2>1. Others(r) /\ pc'[r] = "idle" /\ pc[r] = "rename"
    BY <1>8, LeaveIsLocal DEF rename
  <2>2. \A v \in ScheduleId : row'[v] # row[v] => v = req[r].schedule
    BY <1>8 DEF rename, saveRow, TypeOK
  <2>3. components'[req[r].schedule] # NoCalendar /\ HoldsStored(r)'
    BY <1>0, <1>a, <2>1 DEF HoldsStored, Stored
  <2>. QED BY <1>0, <2>1, <2>2, <2>3, StoredByOthers DEF Stored
<1>. QED BY <1>1, <1>2, <1>3, <1>4, <1>5, <1>6, <1>7, <1>8 DEF Statement

LEMMA NextStores == TypeOK /\ StoredInv /\ [Next]_vars => StoredInv'
<1> SUFFICES ASSUME TypeOK, StoredInv, [Next]_vars PROVE StoredInv'
  OBVIOUS
<1>1. ASSUME NEW r \in Request, NEW in_cal \in BOOLEAN, NEW t \in Term, create(r, in_cal, t)
      PROVE  StoredInv'
  <2>1. PICK s \in ScheduleId : begin(r, s, TRUE, in_cal, FALSE, NoCalendar)
    BY <1>1 DEF create
  <2> DEFINE step == IF in_cal THEN "prepare" ELSE content(TRUE)
  <2>2. goto(r, step) /\ UNCHANGED <<row, components>>
    BY <1>1 DEF create
  <2>3. step = "prepare" \/ step = "insertComponents"
    BY DEF content
  <2> HIDE DEF step
  <2>4. /\ Others(r) /\ pc'[r] = step /\ req'[r].schedule = s /\ req'[r].isNew
        /\ req'[r].draft \in 1..MaxRequests
    BY <2>1, <2>2, BeginIsLocal
  <2>5. HoldsStored(r)'
    BY <2>3, <2>4, CalendarFacts DEF HoldsStored
  <2>. QED BY <2>2, <2>4, <2>5, StoredByOthers DEF Stored
<1>2. ASSUME NEW r \in Request, NEW s \in ScheduleId, NEW in_cal \in BOOLEAN,
             NEW named \in BOOLEAN, update(r, s, in_cal, named)
      PROVE  StoredInv'
  <2>1. PICK step \in {"prepare", "moveComponents", "rename"} : goto(r, step)
    BY <1>2 DEF update, content
  <2>2. /\ begin(r, s, FALSE, in_cal, named, row[s])
        /\ UNCHANGED <<row, components>>
        /\ Stored(s)
    BY <1>2 DEF update, db, StoredInv, CoursesAreStored, Exists, Stored
  <2>3. /\ Others(r) /\ pc'[r] = step /\ req'[r].schedule = s
        /\ req'[r].draft \in 1..MaxRequests
    BY <2>1, <2>2, BeginIsLocal
  <2>4. HoldsStored(r)'
    BY <2>1, <2>2, <2>3, CalendarFacts DEF HoldsStored, Stored
  <2>. QED BY <2>2, <2>3, <2>4, StoredByOthers DEF Stored
<1>3. ASSUME NEW r \in Request, NEW s \in ScheduleId, destroy(r, s) PROVE StoredInv'
  <2>1. Others(r) /\ UNCHANGED <<components, pc, req>>
    BY <1>3 DEF destroy, Others
  <2>2. \A v \in ScheduleId : row'[v] # row[v] => row'[v] = NoCalendar
    BY <1>3 DEF destroy, TypeOK
  <2>3. HoldsStored(r)'
    BY <2>1 DEF StoredInv, HoldsStored, Stored
  <2>. QED BY <2>1, <2>2, <2>3, StoredByOthers DEF Stored
<1>4. ASSUME NEW r \in Request, crash(r) PROVE StoredInv'
  <2>1. Others(r) /\ pc'[r] = "idle" /\ UNCHANGED <<row, components>>
    BY <1>4, LeaveIsLocal DEF crash, db
  <2>. QED BY <2>1, StoredByOthers DEF Stored, HoldsStored
<1>5. ASSUME UNCHANGED vars PROVE StoredInv'
  BY <1>5 DEF vars, StoredInv, CoursesAreStored, Exists, HoldsStored, Stored
<1>. QED BY <1>1, <1>2, <1>3, <1>4, <1>5, StatementStores DEF Next

\* A schedule that exists has its courses in one of the user's calendars, however the
\* requests of serializers.py overlap, fail or die half-way.
THEOREM CoursesStored == Spec => []CoursesAreStored
<1>1. Init => StoredInv
  BY DEF Init, StoredInv, CoursesAreStored, Exists, HoldsStored
<1>2. StoredInv => CoursesAreStored
  BY DEF StoredInv
<1>. QED BY <1>1, <1>2, NextStores, TypeCorrect, PTL DEF Spec

-----------------------------------------------------------------------------
(* Drafts are alone: of all the schedules in a draft, or about to be put   *)
(* there by a request under way, there is one at most.  The draft of a     *)
(* request belongs to nobody before the request finds out whom to move.    *)

\* Request r is going to point s at calendar d.
Claims(r, s, d) ==
    \/ /\ pc[r] \in {"demoteComponents", "demote"}
       /\ req[r].existing = s
       /\ req[r].draft = d
    \/ /\ pc[r] \in {"insertComponents", "insert", "moveComponents", "move"}
       /\ ~req[r].in_calendar
       /\ req[r].schedule = s
       /\ req[r].draft = d
    \/ /\ pc[r] = "rename"
       /\ req[r].schedule = s
       /\ req[r].from = d

Holds(s, d) == row[s] = d \/ \E r \in Request : Claims(r, s, d)

Draft == 1..MaxRequests

DraftInv ==
    /\ \A r \in Request : pc[r] # "idle" => req[r].draft \in 1..requests
    /\ \A r, q \in Request : pc[r] # "idle" /\ pc[q] # "idle" /\ r # q => req[r].draft # req[q].draft
    /\ \A r \in Request : pc[r] \in {"prepare", "demoteComponents", "demote"} => req[r].in_calendar
    /\ \A s \in ScheduleId, d \in Draft : Holds(s, d) => d <= requests
    /\ \A r \in Request, s \in ScheduleId, d \in Draft :
           pc[r] = "prepare" /\ req[r].draft = d => ~Holds(s, d)
    /\ \A s, v \in ScheduleId, d \in Draft : Holds(s, d) /\ Holds(v, d) => s = v

LEMMA ClaimsOfOthers ==
    ASSUME NEW r \in Request, Others(r), NEW q \in Request, q # r, NEW s, NEW d
    PROVE  Claims(q, s, d)' <=> Claims(q, s, d)
<1>1. pc'[q] = pc[q] /\ req'[q] = req[q]
  BY DEF Others
<1>. QED BY <1>1 DEF Claims

LEMMA HoldsAfter ==
    ASSUME NEW r \in Request, Others(r), NEW s, NEW d, Holds(s, d)'
    PROVE  Holds(s, d) \/ row'[s] = d \/ Claims(r, s, d)'
<1>1. CASE row'[s] = d
  BY <1>1
<1>2. ASSUME NEW q \in Request, Claims(q, s, d)' PROVE Holds(s, d) \/ Claims(r, s, d)'
  BY <1>2, ClaimsOfOthers DEF Holds
<1>. QED BY <1>1, <1>2 DEF Holds

\* A step of r that gives no schedule a calendar it did not hold already.
LEMMA NothingNewIsHeld ==
    ASSUME DraftInv, NEW r \in Request, Others(r), requests' = requests,
           pc'[r] # "idle" =>
               /\ pc[r] # "idle"
               /\ req'[r].draft = req[r].draft
               /\ req'[r].in_calendar = req[r].in_calendar,
           pc'[r] # "prepare",
           pc'[r] \in {"demoteComponents", "demote"} => pc[r] \in {"demoteComponents", "demote"},
           \A s \in ScheduleId, d \in Draft : row'[s] = d \/ Claims(r, s, d)' => Holds(s, d)
    PROVE  DraftInv'
<1>1. \A s \in ScheduleId, d \in Draft : Holds(s, d)' => Holds(s, d)
  BY HoldsAfter
<1>2. \A q \in Request : pc'[q] # "idle" =>
          pc[q] # "idle" /\ req'[q].draft = req[q].draft /\ req'[q].in_calendar = req[q].in_calendar
  BY DEF Others
<1>3. \A q \in Request : pc'[q] \in {"demoteComponents", "demote"} =>
          pc[q] \in {"demoteComponents", "demote"}
  BY DEF Others
<1>4. \A q \in Request : pc'[q] = "prepare" => pc[q] = "prepare"
  BY DEF Others
<1>5. \A q \in Request : pc'[q] # "idle" => req'[q].draft \in 1..requests'
  BY <1>2 DEF DraftInv
<1>6. \A p, q \in Request : pc'[p] # "idle" /\ pc'[q] # "idle" /\ p # q => req'[p].draft # req'[q].draft
  BY <1>2 DEF DraftInv
<1>7. \A q \in Request : pc'[q] \in {"prepare", "demoteComponents", "demote"} => req'[q].in_calendar
  BY <1>2, <1>3, <1>4 DEF DraftInv
<1>8. \A s \in ScheduleId, d \in Draft : Holds(s, d)' => d <= requests'
  BY <1>1 DEF DraftInv
<1>9. \A q \in Request, s \in ScheduleId, d \in Draft :
          pc'[q] = "prepare" /\ req'[q].draft = d => ~Holds(s, d)'
  BY <1>1, <1>2, <1>4 DEF DraftInv
<1>10. \A s, v \in ScheduleId, d \in Draft : Holds(s, d)' /\ Holds(v, d)' => s = v
  BY <1>1 DEF DraftInv
<1>. QED BY <1>5, <1>6, <1>7, <1>8, <1>9, <1>10 DEF DraftInv

\* A new request gets a draft that nobody holds, and gives it to one schedule at most.
LEMMA NewDraftIsFree ==
    ASSUME DraftInv, NEW r \in Request, Others(r), requests \in Nat,
           requests' = requests + 1, UNCHANGED row,
           req'[r].draft = requests',
           pc'[r] \notin {"demoteComponents", "demote"},
           pc'[r] = "prepare" => req'[r].in_calendar,
           NEW s0 \in ScheduleId,
           \A s \in ScheduleId, d \in Draft : Claims(r, s, d)' =>
               Holds(s, d) \/ (pc'[r] # "prepare" /\ s = s0 /\ d = requests')
    PROVE  DraftInv'
<1>1. \A s \in ScheduleId, d \in Draft : Holds(s, d)' =>
          Holds(s, d) \/ (pc'[r] # "prepare" /\ s = s0 /\ d = requests')
  BY HoldsAfter DEF Holds
<1>2. \A q \in Request \ {r} : pc'[q] = pc[q] /\ req'[q] = req[q]
  BY DEF Others
<1>3. \A q \in Request \ {r} : pc'[q] # "idle" => req'[q].draft \in 1..requests
  BY <1>2 DEF DraftInv
<1>5. \A q \in Request : pc'[q] # "idle" => req'[q].draft \in 1..requests'
  BY <1>3
<1>6. \A p, q \in Request : pc'[p] # "idle" /\ pc'[q] # "idle" /\ p # q => req'[p].draft # req'[q].draft
  <2>1. \A p, q \in Request \ {r} :
            pc'[p] # "idle" /\ pc'[q] # "idle" /\ p # q => req'[p].draft # req'[q].draft
    BY <1>2 DEF DraftInv
  <2>2. \A q \in Request \ {r} : pc'[q] # "idle" => req'[q].draft # req'[r].draft
    BY <1>3
  <2>. QED BY <2>1, <2>2
<1>7. \A q \in Request : pc'[q] \in {"prepare", "demoteComponents", "demote"} => req'[q].in_calendar
  BY <1>2 DEF DraftInv
<1>8. \A s \in ScheduleId, d \in Draft : Holds(s, d) => d <= requests
  BY DEF DraftInv
<1>9. \A s \in ScheduleId, d \in Draft : Holds(s, d)' => d <= requests'
  BY <1>1, <1>8 DEF Draft
<1>10. \A q \in Request, s \in ScheduleId, d \in Draft :
          pc'[q] = "prepare" /\ req'[q].draft = d => ~Holds(s, d)'
  <2>1. SUFFICES ASSUME NEW q \in Request, NEW s \in ScheduleId, NEW d \in Draft,
                        pc'[q] = "prepare", req'[q].draft = d, Holds(s, d)'
                 PROVE  FALSE
    OBVIOUS
  <2>2. CASE q = r
    BY <1>1, <1>8, <2>1, <2>2
  <2>3. CASE q # r
    <3>1. pc[q] = "prepare" /\ req[q].draft = d /\ d \in 1..requests
      BY <1>2, <1>3, <2>1, <2>3
    <3>2. Holds(s, d)
      BY <1>1, <2>1, <3>1
    <3>. QED BY <3>1, <3>2 DEF DraftInv
  <2>. QED BY <2>2, <2>3
<1>11. \A s, v \in ScheduleId, d \in Draft : Holds(s, d)' /\ Holds(v, d)' => s = v
  BY <1>1, <1>8 DEF DraftInv
<1>. QED BY <1>5, <1>6, <1>7, <1>9, <1>10, <1>11 DEF DraftInv

\* _prepare_calendar gives its draft to the schedule it found.
LEMMA FoundGetsDraft ==
    ASSUME DraftInv, NEW r \in Request, Others(r), UNCHANGED <<row, requests>>,
           pc[r] = "prepare", pc'[r] = "demoteComponents",
           NEW v0 \in ScheduleId,
           req'[r].draft = req[r].draft, req'[r].in_calendar = req[r].in_calendar,
           req'[r].existing = v0
    PROVE  DraftInv'
<1>1. \A s \in ScheduleId, d \in Draft : Holds(s, d)' => Holds(s, d) \/ (s = v0 /\ d = req[r].draft)
  <2>1. ASSUME NEW s, NEW d, Claims(r, s, d)' PROVE s = v0 /\ d = req[r].draft
    BY <2>1 DEF Claims
  <2>. QED BY <2>1, HoldsAfter DEF Holds
<1>2. \A q \in Request \ {r} : pc'[q] = pc[q] /\ req'[q] = req[q]
  BY DEF Others
<1>3. req[r].draft \in 1..requests /\ \A s \in ScheduleId : req[r].draft \in Draft => ~Holds(s, req[r].draft)
  BY DEF DraftInv
<1>5. \A q \in Request : pc'[q] # "idle" => req'[q].draft \in 1..requests'
  BY <1>2 DEF DraftInv
<1>6. \A p, q \in Request : pc'[p] # "idle" /\ pc'[q] # "idle" /\ p # q => req'[p].draft # req'[q].draft
  BY <1>2 DEF DraftInv
<1>7. \A q \in Request : pc'[q] \in {"prepare", "demoteComponents", "demote"} => req'[q].in_calendar
  BY <1>2 DEF DraftInv
<1>9. \A s \in ScheduleId, d \in Draft : Holds(s, d)' => d <= requests'
  BY <1>1, <1>3 DEF DraftInv
<1>10. \A q \in Request, s \in ScheduleId, d \in Draft :
          pc'[q] = "prepare" /\ req'[q].draft = d => ~Holds(s, d)'
  BY <1>1, <1>2 DEF DraftInv
<1>11. \A s, v \in ScheduleId, d \in Draft : Holds(s, d)' /\ Holds(v, d)' => s = v
  BY <1>1, <1>3 DEF DraftInv
<1>. QED BY <1>5, <1>6, <1>7, <1>9, <1>10, <1>11 DEF DraftInv

LEMMA StatementKeepsDrafts ==
    ASSUME TypeOK, DraftInv, NEW r \in Request, Statement(r)
    PROVE  DraftInv'
<1> USE CalendarFacts DEF Draft
<1>0. \A s \in ScheduleId, d \in Draft : row[s] = d \/ Claims(r, s, d) => Holds(s, d)
  BY DEF Holds
<1>1. CASE prepare(r)
  <2>1. Others(r) /\ UNCHANGED <<row, requests>> /\ pc[r] = "prepare" /\ req[r].in_calendar
    BY <1>1, PrepareSteps DEF prepare, DraftInv
  <2>2. CASE UNCHANGED req /\ pc'[r] = content(req[r].isNew)
    <3>1. \A s \in ScheduleId, d \in Draft : ~Claims(r, s, d)'
      BY <2>1, <2>2 DEF Claims, content
    <3>. QED BY <1>0, <2>1, <2>2, <3>1, NothingNewIsHeld DEF content
  <2>3. ASSUME pc'[r] = "demoteComponents", NEW v \in ScheduleId,
               req' = [req EXCEPT ![r].existing = v]
        PROVE  DraftInv'
    <3>1. /\ req'[r].existing = v
          /\ req'[r].draft = req[r].draft
          /\ req'[r].in_calendar = req[r].in_calendar
      BY <2>3 DEF TypeOK, RequestType
    <3>. QED BY <2>1, <2>3, <3>1, FoundGetsDraft
  <2>. QED BY <1>1, <2>2, <2>3, PrepareSteps
<1>2. CASE demoteComponents(r)
  <2>1. Others(r) /\ pc'[r] = "demote" /\ UNCHANGED <<row, req, requests>> /\ pc[r] = "demoteComponents"
    BY <1>2, GotoIsLocal DEF demoteComponents
  <2>2. \A s \in ScheduleId, d \in Draft : Claims(r, s, d)' => Claims(r, s, d)
    BY <2>1 DEF Claims
  <2>. QED BY <1>0, <2>1, <2>2, NothingNewIsHeld
<1>3. CASE demote(r)
  <2>1. /\ Others(r) /\ pc'[r] = content(req[r].isNew) /\ UNCHANGED <<req, requests>>
        /\ row' = [row EXCEPT ![req[r].existing] = req[r].draft]
        /\ pc[r] = "demote" /\ req[r].in_calendar
    BY <1>3, GotoIsLocal DEF demote, saveRow, DraftInv
  <2>2. \A s \in ScheduleId, d \in Draft : ~Claims(r, s, d)'
    BY <2>1 DEF Claims, content
  <2>3. \A s \in ScheduleId, d \in Draft : row'[s] = d => row[s] = d \/ Claims(r, s, d)
    BY <2>1 DEF Claims, TypeOK
  <2>. QED BY <1>0, <2>1, <2>2, <2>3, NothingNewIsHeld DEF content
<1>4. CASE insertComponents(r)
  <2>1. Others(r) /\ pc'[r] = "insert" /\ UNCHANGED <<row, req, requests>> /\ pc[r] = "insertComponents"
    BY <1>4, GotoIsLocal DEF insertComponents
  <2>2. \A s \in ScheduleId, d \in Draft : Claims(r, s, d)' => Claims(r, s, d)
    BY <2>1 DEF Claims
  <2>. QED BY <1>0, <2>1, <2>2, NothingNewIsHeld
<1>5. CASE insert(r)
  <2>1. Others(r) /\ pc'[r] = "idle" /\ pc[r] = "insert" /\ UNCHANGED requests
    BY <1>5, LeaveIsLocal DEF insert
  <2>2. \A s \in ScheduleId, d \in Draft : ~Claims(r, s, d)'
    BY <2>1 DEF Claims
  <2>3. \A s \in ScheduleId, d \in Draft : row'[s] = d => row[s] = d \/ Claims(r, s, d)
    BY <1>5, <2>1 DEF insert, saveRow, target, Claims, TypeOK, RequestType
  <2>. QED BY <1>0, <2>1, <2>2, <2>3, NothingNewIsHeld
<1>6. CASE moveComponents(r)
  <2>1. Others(r) /\ pc'[r] = "move" /\ UNCHANGED <<row, req, requests>> /\ pc[r] = "moveComponents"
    BY <1>6, GotoIsLocal DEF moveComponents
  <2>2. \A s \in ScheduleId, d \in Draft : Claims(r, s, d)' => Claims(r, s, d)
    BY <2>1 DEF Claims
  <2>. QED BY <1>0, <2>1, <2>2, NothingNewIsHeld
<1>7. CASE move(r)
  <2>1. Others(r) /\ pc[r] = "move" /\ UNCHANGED requests
    BY <1>7, MoveSteps DEF move
  <2>2. \A s \in ScheduleId, d \in Draft : row'[s] = d => row[s] = d \/ Claims(r, s, d)
    BY <1>7, <2>1, MoveSteps DEF target, Claims, TypeOK, RequestType
  <2>3. CASE pc'[r] = "idle"
    <3>1. \A s \in ScheduleId, d \in Draft : ~Claims(r, s, d)'
      BY <2>3 DEF Claims
    <3>. QED BY <1>0, <2>1, <2>2, <2>3, <3>1, NothingNewIsHeld
  <2>4. CASE pc'[r] = "rename" /\ req' = [req EXCEPT ![r].from = target(r)]
    <3>1. /\ req'[r].schedule = req[r].schedule
          /\ req'[r].from = target(r)
          /\ req'[r].draft = req[r].draft
          /\ req'[r].in_calendar = req[r].in_calendar
      BY <2>4 DEF TypeOK, RequestType
    <3>2. \A s \in ScheduleId, d \in Draft : Claims(r, s, d)' => Claims(r, s, d)
      BY <2>1, <2>4, <3>1 DEF Claims, target
    <3>. QED BY <1>0, <2>1, <2>2, <2>4, <3>1, <3>2, NothingNewIsHeld
  <2>. QED BY <1>7, <2>3, <2>4, MoveSteps
<1>8. CASE rename(r)
  <2>1. Others(r) /\ pc'[r] = "idle" /\ pc[r] = "rename" /\ UNCHANGED requests
    BY <1>8, LeaveIsLocal DEF rename
  <2>2. \A s \in ScheduleId, d \in Draft : ~Claims(r, s, d)'
    BY <2>1 DEF Claims
  <2>3. \A s \in ScheduleId, d \in Draft : row'[s] = d => row[s] = d \/ Claims(r, s, d)
    BY <1>8, <2>1 DEF rename, saveRow, Claims, TypeOK
  <2>. QED BY <1>0, <2>1, <2>2, <2>3, NothingNewIsHeld
<1>. QED BY <1>1, <1>2, <1>3, <1>4, <1>5, <1>6, <1>7, <1>8 DEF Statement

LEMMA NextKeepsDrafts == TypeOK /\ DraftInv /\ [Next]_vars => DraftInv'
<1> SUFFICES ASSUME TypeOK, DraftInv, [Next]_vars PROVE DraftInv'
  OBVIOUS
<1>0. requests \in Nat
  BY DEF TypeOK
<1>1. ASSUME NEW r \in Request, NEW in_cal \in BOOLEAN, NEW t \in Term, create(r, in_cal, t)
      PROVE  DraftInv'
  <2>1. PICK s \in ScheduleId : begin(r, s, TRUE, in_cal, FALSE, NoCalendar)
    BY <1>1 DEF create
  <2> DEFINE step == IF in_cal THEN "prepare" ELSE content(TRUE)
  <2>2. goto(r, step) /\ UNCHANGED row
    BY <1>1 DEF create
  <2>3. step \in {"prepare", "insertComponents"} /\ (step = "prepare" <=> in_cal)
    BY DEF content
  <2> HIDE DEF step
  <2>4. /\ Others(r) /\ pc'[r] = step /\ requests' = requests + 1
        /\ req'[r].schedule = s /\ req'[r].in_calendar = in_cal /\ req'[r].draft = requests'
    BY <2>1, <2>2, BeginIsLocal
  <2>5. \A v \in ScheduleId, d \in Draft : Claims(r, v, d)' =>
            pc'[r] # "prepare" /\ v = s /\ d = requests'
    BY <2>3, <2>4 DEF Claims
  <2>. QED BY <1>0, <2>2, <2>3, <2>4, <2>5, NewDraftIsFree
<1>2. ASSUME NEW r \in Request, NEW s \in ScheduleId, NEW in_cal \in BOOLEAN,
             NEW named \in BOOLEAN, update(r, s, in_cal, named)
      PROVE  DraftInv'
  <2>1. PICK step \in {"prepare", "moveComponents", "rename"} :
            goto(r, step) /\ (step = "prepare" => in_cal) /\ (step = "moveComponents" => ~in_cal)
    BY <1>2 DEF update, content
  <2>2. PICK from : from = row[s] /\ begin(r, s, FALSE, in_cal, named, from)
    BY <1>2 DEF update
  <2>3. /\ Others(r) /\ pc'[r] = step /\ requests' = requests + 1
        /\ req'[r].schedule = s /\ req'[r].in_calendar = in_cal /\ req'[r].from = from
        /\ req'[r].draft = requests'
    <3>1. begin(r, s, FALSE, in_cal, named, from) /\ goto(r, step)
      BY <2>1, <2>2
    <3>. QED BY <3>1, BeginIsLocal
  <2>a. UNCHANGED row
    BY <1>2 DEF update, db
  <2>4. \A v \in ScheduleId, d \in Draft : Claims(r, v, d)' =>
            \/ v = s /\ row[v] = d
            \/ pc'[r] # "prepare" /\ v = s /\ d = requests'
    BY <2>1, <2>2, <2>3 DEF Claims
  <2>. QED BY <1>0, <2>1, <2>3, <2>a, <2>4, NewDraftIsFree DEF Holds
<1>3. ASSUME NEW r \in Request, NEW s \in ScheduleId, destroy(r, s) PROVE DraftInv'
  <2>1. Others(r) /\ UNCHANGED <<requests, pc, req>> /\ pc[r] = "idle"
    BY <1>3 DEF destroy, Others
  <2>2. \A v \in ScheduleId, d \in Draft : row'[v] = d => row[v] = d
    BY <1>3, CalendarFacts DEF destroy, TypeOK, Draft
  <2>3. \A v \in ScheduleId, d \in Draft : ~Claims(r, v, d)'
    BY <2>1 DEF Claims
  <2>. QED BY <2>1, <2>2, <2>3, NothingNewIsHeld DEF Holds
<1>4. ASSUME NEW r \in Request, crash(r) PROVE DraftInv'
  <2>1. Others(r) /\ pc'[r] = "idle" /\ UNCHANGED <<row, requests>>
    BY <1>4, LeaveIsLocal DEF crash, db
  <2>2. \A v \in ScheduleId, d \in Draft : ~Claims(r, v, d)'
    BY <2>1 DEF Claims
  <2>. QED BY <2>1, <2>2, NothingNewIsHeld DEF Holds
<1>5. ASSUME UNCHANGED vars PROVE DraftInv'
  BY <1>5 DEF vars, DraftInv, Holds, Claims
<1>. QED BY <1>1, <1>2, <1>3, <1>4, <1>5, StatementKeepsDrafts DEF Next

LEMMA HeldAlone == TypeOK /\ DraftInv => DraftsAreAlone
<1> SUFFICES ASSUME TypeOK, DraftInv, NEW s \in ScheduleId, NEW v \in ScheduleId,
                    s # v, Exists(s), row[s] = row[v], row[s] # Primary
             PROVE  FALSE
  BY DEF DraftsAreAlone
<1>1. row[s] \in Draft
  BY DEF TypeOK, Exists, Calendar, NoCalendar, Primary, Draft
<1>2. Holds(s, row[s]) /\ Holds(v, row[s])
  BY DEF Holds
<1>. QED BY <1>1, <1>2 DEF DraftInv

LEMMA InitDrafts == Init => DraftInv
<1> SUFFICES ASSUME Init PROVE DraftInv
  OBVIOUS
<1>1. \A r \in Request : pc[r] = "idle"
  BY DEF Init
<1>2. \A s \in ScheduleId : row[s] = NoCalendar
  BY DEF Init
<1>3. \A s \in ScheduleId, d \in Draft : ~Holds(s, d)
  BY <1>1, <1>2, CalendarFacts DEF Holds, Claims, Draft
<1>. QED BY <1>1, <1>3 DEF DraftInv

\* Two schedules never share a draft calendar, however the requests of serializers.py
\* overlap, save what they read long ago, fail or die half-way.
THEOREM DraftsAlone == Spec => []DraftsAreAlone
BY InitDrafts, HeldAlone, NextKeepsDrafts, TypeCorrect, PTL DEF Spec

-----------------------------------------------------------------------------
(* Other terms: a request works on the term of its schedule, and what it   *)
(* moves out of the calendar is of the same term.                          *)

Created(s) == term[s] # NoTerm
FoundOfItsTerm(r) ==
    req[r].existing \in ScheduleId /\ term[req[r].existing] = term[req[r].schedule]

TermsOf(r) ==
    pc[r] # "idle" =>
        /\ req[r].schedule \in ScheduleId /\ Created(req[r].schedule)
        /\ req[r].existing # NoSchedule => FoundOfItsTerm(r)
        /\ pc[r] \in {"demoteComponents", "demote"} => req[r].existing # NoSchedule

TermsInv ==
    /\ \A s \in ScheduleId : Exists(s) => Created(s)
    /\ \A r \in Request : TermsOf(r)

\* What a statement leaves of the request as it is.
SameRequest(r) ==
    /\ req'[r].schedule = req[r].schedule
    /\ req'[r].isNew = req[r].isNew
    /\ req'[r].in_calendar = req[r].in_calendar
    /\ req'[r].draft = req[r].draft
    /\ pc[r] # "prepare" => req'[r].existing = req[r].existing
    /\ pc[r] # "move" => req'[r].from = req[r].from

LEMMA StatementFields ==
    ASSUME TypeOK, NEW r \in Request, Statement(r), pc'[r] # "idle"
    PROVE  SameRequest(r)
<1>1. CASE UNCHANGED req
  BY <1>1 DEF SameRequest
<1>2. CASE prepare(r)
  <2>1. CASE UNCHANGED req
    BY <2>1 DEF SameRequest
  <2>2. ASSUME NEW v, req' = [req EXCEPT ![r].existing = v] PROVE SameRequest(r)
    <3>1. req[r] \in RequestType /\ req'[r] = [req[r] EXCEPT !.existing = v]
      BY <2>2 DEF TypeOK
    <3>. QED BY <1>2, <3>1 DEF SameRequest, RequestType, prepare
  <2>. QED BY <1>2, <2>1, <2>2, PrepareSteps
<1>3. CASE move(r)
  <2>1. pc[r] = "move" /\ req' = [req EXCEPT ![r].from = target(r)]
    BY <1>3, MoveSteps DEF move
  <2>2. req[r] \in RequestType /\ req'[r] = [req[r] EXCEPT !.from = target(r)]
    BY <2>1 DEF TypeOK
  <2>. QED BY <2>1, <2>2 DEF SameRequest, RequestType
<1>4. CASE insert(r) \/ rename(r)
  BY <1>4, LeaveIsLocal DEF insert, rename
<1>. QED BY <1>1, <1>2, <1>3, <1>4
         DEF Statement, demoteComponents, demote, insertComponents, moveComponents

LEMMA StatementIsLocal ==
    ASSUME TypeOK, NEW r \in Request, Statement(r)
    PROVE  Others(r) /\ UNCHANGED <<term, requests>>
<1>1. CASE prepare(r)
  BY <1>1, PrepareSteps
<1>2. CASE move(r)
  BY <1>2, MoveSteps DEF move
<1>3. CASE insert(r) \/ rename(r)
  BY <1>3, LeaveIsLocal DEF insert, rename
<1>4. CASE demoteComponents(r) \/ demote(r) \/ insertComponents(r) \/ moveComponents(r)
  BY <1>4, GotoIsLocal DEF demoteComponents, demote, insertComponents, moveComponents
<1>. QED BY <1>1, <1>2, <1>3, <1>4 DEF Statement

\* Where each statement leads to.
LEMMA StatementSteps ==
    ASSUME TypeOK, NEW r \in Request, Statement(r)
    PROVE  \/ pc[r] = "prepare" /\ pc'[r] \in {"demoteComponents", content(req[r].isNew)}
           \/ pc[r] = "demoteComponents" /\ pc'[r] = "demote"
           \/ pc[r] = "demote" /\ pc'[r] = content(req[r].isNew)
           \/ pc[r] = "insertComponents" /\ pc'[r] = "insert"
           \/ pc[r] = "moveComponents" /\ pc'[r] = "move"
           \/ pc[r] = "move" /\ pc'[r] \in {"idle", "rename"}
           \/ pc[r] \in {"insert", "rename"} /\ pc'[r] = "idle"
<1>1. CASE prepare(r)
  BY <1>1, PrepareSteps DEF prepare
<1>2. CASE move(r)
  BY <1>2, MoveSteps DEF move
<1>3. CASE insert(r) \/ rename(r)
  BY <1>3, LeaveIsLocal DEF insert, rename
<1>4. CASE demoteComponents(r) \/ demote(r) \/ insertComponents(r) \/ moveComponents(r)
  BY <1>4, GotoIsLocal DEF demoteComponents, demote, insertComponents, moveComponents
<1>. QED BY <1>1, <1>2, <1>3, <1>4 DEF Statement

\* What a statement writes, and of which schedule.
LEMMA StatementWrites ==
    ASSUME TypeOK, NEW r \in Request, Statement(r), NEW s \in ScheduleId
    PROVE  /\ row'[s] # row[s] =>
                 \/ s = req[r].schedule
                 \/ pc[r] = "demote" /\ s = req[r].existing
           /\ components'[s] # components[s] =>
                 \/ term[s] = term[req[r].schedule]
                 \/ pc[r] = "demoteComponents" /\ term[s] = term[req[r].existing]
<1>1. row'[s] # row[s] => s = req[r].schedule \/ (pc[r] = "demote" /\ s = req[r].existing)
  BY DEF Statement, prepare, demoteComponents, demote, insertComponents, insert, moveComponents,
         move, rename, saveRow, db, TypeOK
<1>2. CASE demoteComponents(r)
  BY <1>1, <1>2 DEF demoteComponents, moveAll, sameTerm, TypeOK
<1>3. CASE moveComponents(r)
  BY <1>1, <1>3 DEF moveComponents, moveAll, sameTerm, TypeOK
<1>4. CASE insertComponents(r)
  BY <1>1, <1>4 DEF insertComponents, TypeOK
<1>5. CASE UNCHANGED components
  BY <1>1, <1>5
<1>. QED BY <1>2, <1>3, <1>4, <1>5 DEF Statement, prepare, demote, insert, move, rename, db

\* A schedule that has its term keeps it, and no other request takes notice.
LEMMA TermsStay ==
    ASSUME TermsInv, NEW r \in Request, Others(r),
           \A s \in ScheduleId : Created(s) => term'[s] = term[s],
           \A s \in ScheduleId : row'[s] # NoCalendar => Created(s),
           TermsOf(r)'
    PROVE  TermsInv'
<1>1. \A s \in ScheduleId : Created(s) => Created(s)'
  BY DEF Created
<1>2. ASSUME NEW q \in Request, q # r PROVE TermsOf(q)'
  <2>1. pc'[q] = pc[q] /\ req'[q] = req[q] /\ TermsOf(q)
    BY <1>2 DEF Others, TermsInv
  <2>. QED BY <1>1, <2>1 DEF TermsOf, FoundOfItsTerm, Created
<1>3. \A s \in ScheduleId : Exists(s)' => Created(s)'
  BY <1>1 DEF Exists
<1>. QED BY <1>2, <1>3 DEF TermsInv

LEMMA NextKeepsTerms == TypeOK /\ TermsInv /\ [Next]_vars => TermsInv'
<1> SUFFICES ASSUME TypeOK, TermsInv, [Next]_vars PROVE TermsInv'
  OBVIOUS
<1>1. ASSUME NEW r \in Request, NEW in_cal \in BOOLEAN, NEW t \in Term, create(r, in_cal, t)
      PROVE  TermsInv'
  <2>1. PICK s \in ScheduleId :
            /\ term[s] = NoTerm /\ term' = [term EXCEPT ![s] = t]
            /\ begin(r, s, TRUE, in_cal, FALSE, NoCalendar)
    BY <1>1 DEF create
  <2>2. PICK step : goto(r, step) /\ step \notin {"demoteComponents", "demote"}
    BY <1>1 DEF create, content
  <2>3. /\ Others(r) /\ pc'[r] \notin {"demoteComponents", "demote"}
        /\ req'[r].schedule = s /\ req'[r].existing = NoSchedule
    BY <2>1, <2>2, BeginIsLocal
  <2>4. term'[s] = t /\ \A v \in ScheduleId : v # s => term'[v] = term[v]
    BY <2>1 DEF TypeOK
  <2>5. t # NoTerm
    BY StoreAssumption DEF NoTerm, Term
  <2>6. TermsOf(r)'
    BY <2>3, <2>4, <2>5 DEF TermsOf, Created
  <2>7. UNCHANGED row
    BY <1>1 DEF create
  <2>. QED BY <2>1, <2>3, <2>4, <2>6, <2>7, TermsStay DEF Created, TermsInv, Exists
<1>2. ASSUME NEW r \in Request, NEW s \in ScheduleId, NEW in_cal \in BOOLEAN,
             NEW named \in BOOLEAN, update(r, s, in_cal, named)
      PROVE  TermsInv'
  <2>1. begin(r, s, FALSE, in_cal, named, row[s]) /\ UNCHANGED <<term, row>> /\ Exists(s)
    BY <1>2 DEF update, db, Exists
  <2>2. PICK step : goto(r, step) /\ step \notin {"demoteComponents", "demote"}
    BY <1>2 DEF update, content
  <2>3. /\ Others(r) /\ pc'[r] \notin {"demoteComponents", "demote"}
        /\ req'[r].schedule = s /\ req'[r].existing = NoSchedule
    BY <2>1, <2>2, BeginIsLocal
  <2>4. TermsOf(r)'
    BY <2>1, <2>3 DEF TermsOf, Created, TermsInv
  <2>. QED BY <2>1, <2>3, <2>4, TermsStay DEF TermsInv, Exists
<1>3. ASSUME NEW r \in Request, NEW s \in ScheduleId, destroy(r, s) PROVE TermsInv'
  <2>1. /\ UNCHANGED <<term, pc, req>>
        /\ \A v \in ScheduleId : row'[v] # NoCalendar => row[v] # NoCalendar
    BY <1>3 DEF destroy, TypeOK
  <2>. QED BY <2>1 DEF TermsInv, TermsOf, FoundOfItsTerm, Created, Exists
<1>4. ASSUME NEW r \in Request, crash(r) PROVE TermsInv'
  <2>1. Others(r) /\ pc'[r] = "idle" /\ UNCHANGED <<term, row>>
    BY <1>4, LeaveIsLocal DEF crash, db
  <2>2. TermsOf(r)'
    BY <2>1 DEF TermsOf
  <2>. QED BY <2>1, <2>2, TermsStay DEF TermsInv, Exists
<1>5. ASSUME NEW r \in Request, Statement(r) PROVE TermsInv'
  <2>1. Others(r) /\ UNCHANGED term
    BY <1>5, StatementIsLocal
  <2>2. pc[r] # "idle" /\ TermsOf(r)
    BY <1>5, StatementSteps DEF TermsInv
  <2>3. ASSUME NEW s \in ScheduleId, row'[s] # NoCalendar PROVE Created(s)
    <3>1. Exists(s) => Created(s)
      BY DEF TermsInv
    <3>. QED BY <1>5, <2>2, <2>3, <3>1, StatementWrites
             DEF TermsOf, FoundOfItsTerm, Exists, Created
  <2>4. TermsOf(r)'
    <3>1. CASE pc'[r] = "idle"
      BY <3>1 DEF TermsOf
    <3>2. CASE pc'[r] # "idle" /\ pc[r] # "prepare"
      <4>1. SameRequest(r)
        BY <1>5, <3>2, StatementFields
      <4>2. pc'[r] \in {"demoteComponents", "demote"} => pc[r] \in {"demoteComponents", "demote"}
        BY <1>5, <3>2, StatementSteps DEF content
      <4>. QED BY <2>1, <2>2, <3>2, <4>1, <4>2 DEF SameRequest, TermsOf, FoundOfItsTerm, Created
    <3>3. CASE pc[r] = "prepare" /\ pc'[r] # "idle"
      <4>1. SameRequest(r)
        BY <1>5, <3>3, StatementFields
      <4>2. prepare(r)
        BY <1>5, <3>3 DEF Statement, demoteComponents, demote, insertComponents, insert,
                          moveComponents, move, rename
      <4>3. CASE UNCHANGED req /\ pc'[r] = content(req[r].isNew)
        BY <2>1, <2>2, <4>3 DEF TermsOf, FoundOfItsTerm, Created, content
      <4>4. ASSUME NEW v \in ScheduleId, term[v] = term[req[r].schedule],
                   req' = [req EXCEPT ![r].existing = v]
            PROVE  TermsOf(r)'
        <5>1. req'[r].existing = v /\ v # NoSchedule
          BY <4>4, CalendarFacts DEF TypeOK, RequestType
        <5>. QED BY <2>1, <2>2, <4>1, <4>4, <5>1
                 DEF SameRequest, TermsOf, FoundOfItsTerm, Created
      <4>. QED BY <4>2, <4>3, <4>4, PrepareSteps
    <3>. QED BY <3>1, <3>2, <3>3
  <2>. QED BY <2>1, <2>3, <2>4, TermsStay
<1>6. ASSUME UNCHANGED vars PROVE TermsInv'
  BY <1>6 DEF vars, TermsInv, TermsOf, FoundOfItsTerm, Created, Exists
<1>. QED BY <1>1, <1>2, <1>3, <1>4, <1>5, <1>6 DEF Next

LEMMA InitTerms == Init => TermsInv
BY DEF Init, TermsInv, TermsOf, Exists

LEMMA StepLeavesOtherTerms ==
    TypeOK /\ TermsInv /\ Next =>
        \A s \in ScheduleId :
            <<row[s], components[s]>>' # <<row[s], components[s]>> =>
                \/ row'[s] = NoCalendar
                \/ \E r \in Request : pc'[r] # pc[r] /\ term[req[r].schedule] = term[s]
<1> SUFFICES ASSUME TypeOK, TermsInv, Next, NEW s \in ScheduleId,
                    row'[s] # row[s] \/ components'[s] # components[s], row'[s] # NoCalendar
             PROVE  \E r \in Request : pc'[r] # pc[r] /\ term[req[r].schedule] = term[s]
  OBVIOUS
<1>1. PICK r \in Request : Statement(r)
  <2>1. ASSUME NEW r \in Request, NEW v \in ScheduleId, destroy(r, v) PROVE FALSE
    BY <2>1 DEF destroy, TypeOK
  <2>2. ASSUME NEW r \in Request PROVE ~crash(r)
    BY <2>2 DEF crash, db
  <2>. QED BY <2>1, <2>2 DEF Next, create, update, db
<1>2. pc'[r] # pc[r] /\ pc[r] # "idle"
  BY <1>1, StatementSteps DEF content
<1>3. term[req[r].schedule] = term[s]
  BY <1>1, <1>2, StatementWrites DEF TermsInv, TermsOf, FoundOfItsTerm
<1>. QED BY <1>2, <1>3

\* No request disturbs a schedule of another term, the same season of another year
\* included (the filters of _prepare_calendar and migrate_to_calendar), whatever requests
\* overlap, delete or die half-way.
THEOREM OtherTermsKept == Spec => OtherTermsUntouched
<1>1. TypeOK /\ TermsInv /\ [Next]_vars =>
        [\A s \in ScheduleId :
            <<row[s], components[s]>>' # <<row[s], components[s]>> =>
                \/ row'[s] = NoCalendar
                \/ \E r \in Request : pc'[r] # pc[r] /\ term[req[r].schedule] = term[s]]_vars
  BY StepLeavesOtherTerms
<1>. QED BY <1>1, InitType, NextType, InitTerms, NextKeepsTerms, PTL DEF Spec, OtherTermsUntouched

-----------------------------------------------------------------------------
(* Terms whose requests did not overlap.  Whatever happens in other terms, *)
(* the request of such a term finds the rows as it left them, the courses  *)
(* of a schedule are at most one statement ahead of it, and the calendar   *)
(* they move to holds no other schedule of the season.                     *)

\* Two schedules of one season are never in the primary calendar.
PrimaryAlone ==
    \A s, v \in ScheduleId :
        s # v /\ row[s] = Primary /\ row[v] = Primary => term[s].season # term[v].season

\* Requests of one term are under way at the same time only if they have overlapped.
Alone ==
    \A q, r \in Request :
        /\ q # r /\ pc[q] # "idle" /\ pc[r] # "idle"
        /\ term[req[q].schedule] = term[req[r].schedule]
        => term[req[r].schedule] \in overlapped

Preparing == {"prepare", "demoteComponents", "demote"}
Placing == {"insertComponents", "insert", "moveComponents", "move"}

\* The request knows where its schedule is, and has courses there before the row.
KnowsItsSchedule(r) ==
    /\ row[req[r].schedule] = IF req[r].isNew THEN NoCalendar ELSE req[r].from
    /\ ~req[r].isNew => req[r].from # NoCalendar
    /\ pc[r] \in Preparing => row[req[r].schedule] # Primary
    /\ pc[r] \in {"insertComponents", "insert"} => req[r].isNew
    /\ pc[r] \in {"moveComponents", "move", "rename"} => ~req[r].isNew
    /\ pc[r] = "insert" => components[req[r].schedule] = target(r)

\* And what it moves out is in the calendar before it is moved, and in the draft after.
KnowsWhatMakesRoom(r) ==
    /\ pc[r] = "prepare" => req[r].existing = NoSchedule
    /\ pc[r] \in {"demoteComponents", "demote"} => row[req[r].existing] = Primary
    /\ pc[r] \in Placing /\ req[r].existing # NoSchedule =>
           /\ req[r].in_calendar
           /\ req[r].existing # req[r].schedule
           /\ row[req[r].existing] = req[r].draft

InOrder(r) ==
    pc[r] # "idle" /\ term[req[r].schedule] \notin overlapped =>
        KnowsItsSchedule(r) /\ KnowsWhatMakesRoom(r)

\* Where the courses of s are that have been moved ahead of it.
Destination(r) == IF pc[r] = "demote" THEN req[r].draft ELSE target(r)

Together(s) ==
    Exists(s) /\ s \notin torn /\ term[s] \notin overlapped =>
        /\ \A r \in Request : HalfWay(r, s) => components[s] = Destination(r)
        /\ (\A r \in Request : ~HalfWay(r, s)) => components[s] = row[s]

OrderInv ==
    /\ PrimaryAlone
    /\ Alone
    /\ \A r \in Request : InOrder(r)
    /\ \A s \in ScheduleId : Together(s)

StoreInv == TypeOK /\ TermsInv /\ DraftInv

\* The history variables restrict no step.
LEMMA HistoryStep == [HistoryNext]_historyVars => [Next]_vars
BY DEF HistoryNext, historyVars, Next, vars

LEMMA HistoryInitStep == HistoryInit => Init
BY DEF HistoryInit

THEOREM HistoryIsStore == HistorySpec => Spec
BY HistoryStep, HistoryInitStep, PTL DEF HistorySpec, Spec

LEMMA StoreInvStays == StoreInv /\ [Next]_vars => StoreInv'
BY NextType, NextKeepsTerms, NextKeepsDrafts DEF StoreInv

LEMMA StoreInvariant == HistorySpec => []StoreInv
<1>1. Init => StoreInv
  BY InitType, InitTerms, InitDrafts DEF StoreInv
<1>. QED BY <1>1, StoreInvStays, HistoryIsStore, PTL DEF Spec

LEMMA HistoryGrows ==
    [HistoryNext]_historyVars => overlapped \subseteq overlapped' /\ torn \subseteq torn'
BY DEF HistoryNext, historyVars, arrive, proceed

LEMMA ActiveRequest ==
    ASSUME StoreInv, NEW r \in Request, pc[r] # "idle"
    PROVE  /\ req[r].schedule \in ScheduleId
           /\ term[req[r].schedule] \in Term
           /\ req[r].draft \in Calendar /\ req[r].draft # Primary
           /\ target(r) \in Calendar /\ target(r) # NoCalendar
           /\ req[r].existing # NoSchedule => FoundOfItsTerm(r)
           /\ pc[r] \in {"demoteComponents", "demote"} => FoundOfItsTerm(r)
<1>1. TermsOf(r) /\ TypeOK
  BY DEF StoreInv, TermsInv
<1>2. req[r].draft \in 1..requests /\ requests \in 0..MaxRequests
  BY DEF StoreInv, DraftInv, TypeOK
<1>3. req[r].draft \in 1..MaxRequests
  BY <1>2
<1>4. req[r].draft \in Calendar /\ req[r].draft # Primary
  BY <1>3, CalendarFacts
<1>5. target(r) \in Calendar /\ target(r) # NoCalendar
  BY <1>4, CalendarFacts DEF target
<1>. QED BY <1>1, <1>4, <1>5 DEF TermsOf, Created, TypeOK

\* A schedule that is half-way is of the term of the request that moves it.
LEMMA HalfWayOfItsTerm ==
    ASSUME StoreInv, NEW r \in Request, NEW s \in ScheduleId, HalfWay(r, s)
    PROVE  pc[r] \in {"demote", "move"} /\ term[s] = term[req[r].schedule]
BY ActiveRequest DEF HalfWay, FoundOfItsTerm

\* A statement leaves the other terms alone.
LEMMA OtherTermStays ==
    ASSUME StoreInv, NEW r \in Request, Statement(r), NEW s \in ScheduleId,
           term[s] # term[req[r].schedule]
    PROVE  row'[s] = row[s] /\ components'[s] = components[s]
<1>1. pc[r] # "idle"
  BY StatementSteps DEF StoreInv
<1>. QED BY <1>1, ActiveRequest, StatementWrites DEF StoreInv, FoundOfItsTerm

-----------------------------------------------------------------------------

\* A request keeps its order when what it knows stays as it is.
LEMMA OrderStays ==
    ASSUME StoreInv, NEW q \in Request, InOrder(q), overlapped \subseteq overlapped',
           pc'[q] = pc[q], req'[q] = req[q],
           \A s \in ScheduleId : Created(s) => term'[s] = term[s],
           pc[q] # "idle" /\ term[req[q].schedule] \notin overlapped' =>
               \A s \in ScheduleId : term[s] = term[req[q].schedule] =>
                   row'[s] = row[s] /\ components'[s] = components[s]
    PROVE  InOrder(q)'
<1>1. SUFFICES ASSUME pc[q] # "idle", term'[req[q].schedule] \notin overlapped'
               PROVE  KnowsItsSchedule(q)' /\ KnowsWhatMakesRoom(q)'
  BY DEF InOrder
<1>2. /\ req[q].schedule \in ScheduleId /\ term'[req[q].schedule] = term[req[q].schedule]
      /\ req[q].existing # NoSchedule => FoundOfItsTerm(q)
      /\ pc[q] \in {"demoteComponents", "demote"} => FoundOfItsTerm(q)
  BY <1>1, ActiveRequest DEF StoreInv, TermsInv, TermsOf
<1>3. KnowsItsSchedule(q) /\ KnowsWhatMakesRoom(q)
  BY <1>1, <1>2 DEF InOrder
<1>4. /\ row'[req[q].schedule] = row[req[q].schedule]
      /\ components'[req[q].schedule] = components[req[q].schedule]
  BY <1>1, <1>2
<1>5. FoundOfItsTerm(q) => row'[req[q].existing] = row[req[q].existing]
  BY <1>1, <1>2 DEF FoundOfItsTerm
<1>6. target(q)' = target(q)
  BY DEF target
<1>7. KnowsItsSchedule(q)'
  BY <1>3, <1>4, <1>6 DEF KnowsItsSchedule
<1>8. KnowsWhatMakesRoom(q)'
  BY <1>2, <1>3, <1>5 DEF KnowsWhatMakesRoom
<1>. QED BY <1>7, <1>8

\* The schedules a statement of r does not write are as far from their courses as before.
LEMMA TogetherStays ==
    ASSUME NEW s \in ScheduleId, Together(s), overlapped \subseteq overlapped', torn \subseteq torn',
           Exists(s)' => row'[s] = row[s] /\ components'[s] = components[s] /\ term'[s] = term[s],
           \A q \in Request : HalfWay(q, s)' <=> HalfWay(q, s),
           \A q \in Request : HalfWay(q, s) => Destination(q)' = Destination(q)
    PROVE  Together(s)'
BY DEF Together, Exists

\* A statement of r keeps the order of r itself.
LEMMA StatementKeepsOrder ==
    ASSUME StoreInv, NEW r \in Request, InOrder(r), Statement(r), overlapped' = overlapped
    PROVE  InOrder(r)'
<1>1. /\ TypeOK /\ Others(r) /\ UNCHANGED term /\ pc[r] # "idle"
      /\ pc'[r] # "idle" => SameRequest(r)
  BY StatementIsLocal, StatementSteps, StatementFields DEF StoreInv
<1> SUFFICES ASSUME pc'[r] # "idle", term'[req'[r].schedule] \notin overlapped
             PROVE  KnowsItsSchedule(r)' /\ KnowsWhatMakesRoom(r)'
  BY DEF InOrder
<1>2. /\ req'[r].schedule = req[r].schedule /\ req'[r].isNew = req[r].isNew
      /\ req'[r].in_calendar = req[r].in_calendar /\ req'[r].draft = req[r].draft
      /\ target(r)' = target(r)
  BY <1>1 DEF SameRequest, target
<1>3. KnowsItsSchedule(r) /\ KnowsWhatMakesRoom(r)
  BY <1>1, <1>2 DEF InOrder
<1>4. /\ req[r].schedule \in ScheduleId /\ target(r) \in Calendar /\ target(r) # NoCalendar
      /\ req[r].draft # Primary
      /\ pc[r] \in {"demoteComponents", "demote"} => req[r].existing \in ScheduleId
  BY <1>1, ActiveRequest DEF FoundOfItsTerm
<1>5. CASE prepare(r)
  <2>1. pc[r] = "prepare" /\ UNCHANGED <<row, components>> /\ req[r].existing = NoSchedule
        /\ req[r].in_calendar
    BY <1>3, <1>5 DEF prepare, db, KnowsWhatMakesRoom, StoreInv, DraftInv
  <2>2. req'[r].from = req[r].from
    BY <1>1, <2>1 DEF SameRequest
  <2>3. row[req[r].schedule] # Primary
    BY <1>3, <2>1 DEF KnowsItsSchedule, Preparing
  <2>4. CASE UNCHANGED req /\ pc'[r] = content(req[r].isNew)
    <3>1. KnowsItsSchedule(r)'
      BY <1>2, <1>3, <2>1, <2>2, <2>3, <2>4 DEF KnowsItsSchedule, Preparing, content
    <3>2. KnowsWhatMakesRoom(r)'
      BY <2>1, <2>4 DEF KnowsWhatMakesRoom, content
    <3>. QED BY <3>1, <3>2
  <2>5. ASSUME pc'[r] = "demoteComponents", NEW v \in ScheduleId, row[v] = Primary,
               req' = [req EXCEPT ![r].existing = v]
        PROVE  KnowsItsSchedule(r)' /\ KnowsWhatMakesRoom(r)'
    <3>1. req'[r].existing = v
      BY <1>1, <2>5 DEF TypeOK, RequestType
    <3>2. KnowsItsSchedule(r)'
      BY <1>2, <1>3, <2>1, <2>2, <2>3, <2>5 DEF KnowsItsSchedule, Preparing
    <3>3. KnowsWhatMakesRoom(r)'
      BY <2>1, <2>5, <3>1 DEF KnowsWhatMakesRoom, Placing
    <3>. QED BY <3>2, <3>3
  <2>. QED BY <1>1, <1>5, <2>4, <2>5, PrepareSteps
<1>6. CASE demoteComponents(r)
  <2>1. /\ pc[r] = "demoteComponents" /\ pc'[r] = "demote" /\ UNCHANGED <<row, req>>
    BY <1>1, <1>6, GotoIsLocal DEF demoteComponents
  <2>2. KnowsItsSchedule(r)'
    BY <1>3, <2>1 DEF KnowsItsSchedule, Preparing
  <2>3. KnowsWhatMakesRoom(r)'
    BY <1>3, <2>1 DEF KnowsWhatMakesRoom, Placing
  <2>. QED BY <2>2, <2>3
<1>7. CASE demote(r)
  <2>1. /\ pc[r] = "demote" /\ pc'[r] = content(req[r].isNew) /\ UNCHANGED <<components, req>>
        /\ row' = [row EXCEPT ![req[r].existing] = req[r].draft]
        /\ req[r].in_calendar
    BY <1>1, <1>7, GotoIsLocal DEF demote, saveRow, StoreInv, DraftInv
  <2>2. row[req[r].schedule] # Primary /\ row[req[r].existing] = Primary
    BY <1>3, <2>1 DEF KnowsItsSchedule, KnowsWhatMakesRoom, Preparing
  <2>3. /\ row'[req[r].schedule] = row[req[r].schedule]
        /\ row'[req[r].existing] = req[r].draft
        /\ req[r].existing # req[r].schedule
    BY <1>1, <1>4, <2>1, <2>2 DEF TypeOK
  <2>4. KnowsItsSchedule(r)'
    BY <1>3, <2>1, <2>3 DEF KnowsItsSchedule, Preparing, content
  <2>5. KnowsWhatMakesRoom(r)'
    BY <2>1, <2>3 DEF KnowsWhatMakesRoom, content
  <2>. QED BY <2>4, <2>5
<1>8. CASE insertComponents(r)
  <2>1. /\ pc[r] = "insertComponents" /\ pc'[r] = "insert" /\ UNCHANGED <<row, req>>
        /\ components' = [components EXCEPT ![req[r].schedule] = target(r)]
    BY <1>1, <1>8, GotoIsLocal DEF insertComponents
  <2>2. components'[req[r].schedule] = target(r)
    BY <1>1, <1>4, <2>1 DEF TypeOK
  <2>3. KnowsItsSchedule(r)'
    BY <1>2, <1>3, <2>1, <2>2 DEF KnowsItsSchedule, Preparing
  <2>4. KnowsWhatMakesRoom(r)'
    BY <1>3, <2>1 DEF KnowsWhatMakesRoom, Placing
  <2>. QED BY <2>3, <2>4
<1>9. CASE moveComponents(r)
  <2>1. pc[r] = "moveComponents" /\ pc'[r] = "move" /\ UNCHANGED <<row, req>>
    BY <1>1, <1>9, GotoIsLocal DEF moveComponents
  <2>2. KnowsItsSchedule(r)'
    BY <1>3, <2>1 DEF KnowsItsSchedule, Preparing
  <2>3. KnowsWhatMakesRoom(r)'
    BY <1>3, <2>1 DEF KnowsWhatMakesRoom, Placing
  <2>. QED BY <2>2, <2>3
<1>10. CASE move(r)
  <2>1. pc[r] = "move" /\ pc'[r] = "rename" /\ req' = [req EXCEPT ![r].from = target(r)]
    BY <1>1, <1>10, MoveSteps DEF move
  <2>2. row' = [row EXCEPT ![req[r].schedule] = target(r)]
    <3>1. ~leave(r)
      BY <1>1, <2>1, LeaveIsLocal
    <3>. QED BY <1>10, <3>1 DEF move, saveRow
  <2>3. row'[req[r].schedule] = target(r) /\ req'[r].from = target(r) /\ ~req[r].isNew
    BY <1>1, <1>3, <1>4, <2>1, <2>2 DEF TypeOK, RequestType, KnowsItsSchedule
  <2>4. KnowsItsSchedule(r)'
    BY <1>2, <1>4, <2>1, <2>3 DEF KnowsItsSchedule, Preparing
  <2>5. KnowsWhatMakesRoom(r)'
    BY <2>1 DEF KnowsWhatMakesRoom, Placing
  <2>. QED BY <2>4, <2>5
<1>11. CASE insert(r) \/ rename(r)
  BY <1>1, <1>11, LeaveIsLocal DEF insert, rename
<1>. QED BY <1>5, <1>6, <1>7, <1>8, <1>9, <1>10, <1>11 DEF Statement

\* Courses are moved from a calendar that holds no other schedule of the term.
LEMMA OnlyItsCoursesMove ==
    ASSUME StoreInv, PrimaryAlone, NEW s \in ScheduleId, NEW v \in ScheduleId,
           Exists(s), row[v] = row[s], term[v] = term[s]
    PROVE  v = s
<1>1. CASE row[s] = Primary
  BY <1>1 DEF PrimaryAlone
<1>2. CASE row[s] # Primary
  BY <1>2, HeldAlone DEF StoreInv, DraftsAreAlone, Exists
<1>. QED BY <1>1, <1>2

LEMMA StatementKeepsTogether ==
    ASSUME StoreInv, OrderInv, NEW r \in Request, Statement(r), proceed(r), NEW s \in ScheduleId
    PROVE  Together(s)'
<1>0. /\ TypeOK /\ PrimaryAlone /\ Alone /\ InOrder(r) /\ Together(s)
      /\ Others(r) /\ UNCHANGED <<term, overlapped>> /\ pc[r] # "idle" /\ torn \subseteq torn'
  BY StatementIsLocal, StatementSteps DEF StoreInv, OrderInv, proceed
<1>1. ASSUME NEW q \in Request, q # r
      PROVE  (HalfWay(q, s)' <=> HalfWay(q, s)) /\ Destination(q)' = Destination(q)
  <2>1. pc'[q] = pc[q] /\ req'[q] = req[q]
    BY <1>0, <1>1 DEF Others
  <2>. QED BY <2>1 DEF HalfWay, Destination, target
<1> SUFFICES ASSUME Exists(s)', s \notin torn', term[s] \notin overlapped
             PROVE  Together(s)'
  BY <1>0 DEF Together
<1>2. CASE term[s] # term[req[r].schedule]
  <2>1. row'[s] = row[s] /\ components'[s] = components[s]
    BY <1>0, <1>2, OtherTermStays
  <2>2. ~HalfWay(r, s)
    BY <1>2, HalfWayOfItsTerm
  <2>3. ~HalfWay(r, s)'
    <3>1. StoreInv'
      BY StoreInvStays, <1>0 DEF Next
    <3>2. CASE pc'[r] = "idle"
      BY <3>2 DEF HalfWay
    <3>3. CASE pc'[r] # "idle"
      BY <1>0, <1>2, <3>1, <3>3, HalfWayOfItsTerm, StatementFields
         DEF SameRequest, HalfWay, StoreInv, TermsInv, TermsOf, FoundOfItsTerm
    <3>. QED BY <3>2, <3>3
  <2>. QED BY <1>0, <1>1, <2>1, <2>2, <2>3, TogetherStays
<1>3. CASE term[s] = term[req[r].schedule]
  <2>1. /\ KnowsItsSchedule(r) /\ KnowsWhatMakesRoom(r)
        /\ req[r].schedule \in ScheduleId /\ req[r].draft \in Calendar
        /\ target(r) \in Calendar
        /\ pc[r] \in {"demoteComponents", "demote"} => FoundOfItsTerm(r)
    BY <1>0, <1>3, ActiveRequest DEF InOrder
  <2>2. \A q \in Request : q # r => ~HalfWay(q, s) /\ ~HalfWay(q, s)'
    <3>1. ASSUME NEW q \in Request, q # r, HalfWay(q, s) PROVE FALSE
      <4>1. pc[q] # "idle" /\ term[req[q].schedule] = term[req[r].schedule]
        BY <1>3, <3>1, HalfWayOfItsTerm
      <4>. QED BY <1>0, <1>3, <3>1, <4>1 DEF Alone
    <3>. QED BY <1>1, <3>1
  \* What the statement does to a schedule that is not written by it.
  <2>3. ASSUME row'[s] = row[s], components'[s] = components[s], ~HalfWay(r, s), ~HalfWay(r, s)'
        PROVE  Together(s)'
    BY <1>0, <2>2, <2>3 DEF Together, Exists
  <2>4. CASE prepare(r)
    BY <1>0, <2>3, <2>4, PrepareSteps DEF HalfWay, prepare, content
  <2>5. CASE demoteComponents(r)
    <3>1. /\ pc[r] = "demoteComponents" /\ pc'[r] = "demote" /\ UNCHANGED <<row, req>>
          /\ moveAll(req[r].existing, Primary, req[r].draft)
      BY <1>0, <2>5, GotoIsLocal DEF demoteComponents
    <3>2. /\ req[r].existing \in ScheduleId /\ row[req[r].existing] = Primary
          /\ term[req[r].existing] = term[s] /\ Exists(req[r].existing)
      BY <1>3, <2>1, <3>1, CalendarFacts DEF KnowsWhatMakesRoom, FoundOfItsTerm, Exists
    <3>3. ~HalfWay(r, s) /\ components[s] = row[s]
      <4>1. ~HalfWay(r, s)
        BY <3>1 DEF HalfWay
      <4>. QED BY <1>0, <2>2, <3>1, <4>1 DEF Together, Exists
    <3>4. CASE s = req[r].existing
      <4>1. components'[s] = req[r].draft
        BY <3>1, <3>2, <3>3, <3>4 DEF moveAll, sameTerm
      <4>2. HalfWay(r, s)' /\ Destination(r)' = req[r].draft
        BY <3>1, <3>4 DEF HalfWay, Destination
      <4>. QED BY <2>2, <4>1, <4>2 DEF Together
    <3>5. CASE s # req[r].existing
      <4>1. components[s] # Primary
        BY <1>0, <3>2, <3>3, <3>5, OnlyItsCoursesMove
      <4>2. components'[s] = components[s] /\ ~HalfWay(r, s)'
        BY <3>1, <3>5, <4>1 DEF moveAll, HalfWay
      <4>. QED BY <2>3, <3>1, <3>3, <4>2
    <3>. QED BY <3>4, <3>5
  <2>6. CASE demote(r)
    <3>1. /\ pc[r] = "demote" /\ pc'[r] = content(req[r].isNew) /\ UNCHANGED <<components, req>>
          /\ row' = [row EXCEPT ![req[r].existing] = req[r].draft]
      BY <1>0, <2>6, GotoIsLocal DEF demote, saveRow
    <3>2. ~HalfWay(r, s)' /\ \A q \in Request : ~HalfWay(q, s)'
      <4>1. ~HalfWay(r, s)'
        BY <3>1 DEF HalfWay, content
      <4>. QED BY <2>2, <4>1
    <3>3. CASE s = req[r].existing
      <4>1. row'[s] = req[r].draft /\ HalfWay(r, s) /\ Exists(s)
        BY <1>0, <2>1, <3>1, <3>3, CalendarFacts
           DEF TypeOK, HalfWay, KnowsWhatMakesRoom, Exists
      <4>2. components[s] = req[r].draft
        BY <1>0, <3>1, <4>1 DEF Together, Destination
      <4>. QED BY <3>1, <3>2, <4>1, <4>2 DEF Together
    <3>4. CASE s # req[r].existing
      <4>1. row'[s] = row[s] /\ ~HalfWay(r, s)
        BY <1>0, <3>1, <3>4 DEF TypeOK, HalfWay
      <4>. QED BY <2>3, <3>1, <3>2, <4>1
    <3>. QED BY <3>3, <3>4
  <2>7. CASE insertComponents(r)
    <3>1. /\ pc[r] = "insertComponents" /\ pc'[r] = "insert" /\ UNCHANGED <<row, req>>
          /\ components' = [components EXCEPT ![req[r].schedule] = target(r)]
      BY <1>0, <2>7, GotoIsLocal DEF insertComponents
    <3>2. s # req[r].schedule
      BY <2>1, <3>1 DEF KnowsItsSchedule, Exists
    <3>3. components'[s] = components[s] /\ ~HalfWay(r, s) /\ ~HalfWay(r, s)'
      BY <1>0, <3>1, <3>2 DEF TypeOK, HalfWay
    <3>. QED BY <2>3, <3>1, <3>3
  <2>8. CASE insert(r)
    <3>1. /\ pc[r] = "insert" /\ pc'[r] = "idle" /\ UNCHANGED components
          /\ UNCHANGED row \/ row' = [row EXCEPT ![req[r].schedule] = target(r)]
      BY <1>0, <2>8, LeaveIsLocal DEF insert, saveRow
    <3>2. ~HalfWay(r, s) /\ ~HalfWay(r, s)'
      BY <3>1 DEF HalfWay
    <3>3. CASE row'[s] = row[s]
      BY <2>3, <3>1, <3>2, <3>3
    <3>4. CASE row'[s] # row[s]
      <4>1. s = req[r].schedule /\ row'[s] = target(r)
        BY <1>0, <3>1, <3>4 DEF TypeOK
      <4>2. components'[s] = row'[s]
        BY <2>1, <3>1, <4>1 DEF KnowsItsSchedule
      <4>. QED BY <2>2, <3>2, <4>2 DEF Together
    <3>. QED BY <3>3, <3>4
  <2>9. CASE moveComponents(r)
    <3>1. /\ pc[r] = "moveComponents" /\ pc'[r] = "move" /\ UNCHANGED <<row, req>>
          /\ moveAll(req[r].schedule, req[r].from, target(r))
      BY <1>0, <2>9, GotoIsLocal DEF moveComponents
    <3>2. row[req[r].schedule] = req[r].from
      BY <2>1, <3>1 DEF KnowsItsSchedule
    <3>3. ~HalfWay(r, s) /\ components[s] = row[s]
      <4>1. ~HalfWay(r, s)
        BY <3>1 DEF HalfWay
      <4>. QED BY <1>0, <2>2, <3>1, <4>1 DEF Together, Exists
    <3>4. CASE s = req[r].schedule
      <4>1. components'[s] = target(r)
        BY <1>3, <3>1, <3>2, <3>3, <3>4 DEF moveAll, sameTerm
      <4>2. HalfWay(r, s)' /\ Destination(r)' = target(r)
        BY <3>1, <3>4 DEF HalfWay, Destination, target
      <4>. QED BY <2>2, <4>1, <4>2 DEF Together
    <3>5. CASE s # req[r].schedule
      <4>1. components[s] # req[r].from
        BY <1>0, <1>3, <2>1, <3>1, <3>2, <3>3, <3>5, OnlyItsCoursesMove DEF Exists
      <4>2. components'[s] = components[s] /\ ~HalfWay(r, s)'
        BY <3>1, <3>5, <4>1 DEF moveAll, HalfWay
      <4>. QED BY <2>3, <3>1, <3>3, <4>2
    <3>. QED BY <3>4, <3>5
  <2>10. CASE move(r)
    <3>1. /\ pc[r] = "move" /\ pc'[r] \in {"idle", "rename"} /\ UNCHANGED components
          /\ UNCHANGED row \/ row' = [row EXCEPT ![req[r].schedule] = target(r)]
      BY <1>0, <2>10, MoveSteps DEF move
    <3>2. \A q \in Request : ~HalfWay(q, s)'
      <4>1. ~HalfWay(r, s)'
        BY <3>1 DEF HalfWay
      <4>. QED BY <2>2, <4>1
    <3>3. CASE s # req[r].schedule
      <4>1. row'[s] = row[s] /\ ~HalfWay(r, s)
        BY <1>0, <3>1, <3>3 DEF TypeOK, HalfWay
      <4>. QED BY <2>3, <3>1, <3>2, <4>1
    <3>4. CASE s = req[r].schedule /\ row'[s] = row[s] /\ pc'[r] = "idle"
      <4>1. s \in torn'
        BY <3>1, <3>4 DEF proceed, HalfWay
      <4>. QED BY <4>1
    <3>5. CASE s = req[r].schedule /\ row'[s] = target(r)
      <4>1. HalfWay(r, s) /\ Exists(s)
        BY <1>0, <2>1, <3>1, <3>5 DEF HalfWay, Exists, KnowsItsSchedule
      <4>2. components[s] = target(r)
        BY <1>0, <3>1, <4>1 DEF Together, Destination
      <4>. QED BY <3>1, <3>2, <3>5, <4>2 DEF Together
    <3>6. row' = [row EXCEPT ![req[r].schedule] = target(r)] \/ (UNCHANGED row /\ pc'[r] = "idle")
      BY <1>0, <2>10, LeaveIsLocal DEF move, saveRow
    <3>. QED BY <1>0, <2>1, <3>3, <3>4, <3>5, <3>6 DEF TypeOK
  <2>11. CASE rename(r)
    <3>1. /\ pc[r] = "rename" /\ pc'[r] = "idle" /\ UNCHANGED components
          /\ UNCHANGED row \/ row' = [row EXCEPT ![req[r].schedule] = req[r].from]
      BY <1>0, <2>11, LeaveIsLocal DEF rename, saveRow
    <3>2. row[req[r].schedule] = req[r].from
      BY <2>1, <3>1 DEF KnowsItsSchedule
    <3>3. row'[s] = row[s] /\ ~HalfWay(r, s) /\ ~HalfWay(r, s)'
      BY <1>0, <2>1, <3>1, <3>2 DEF TypeOK, HalfWay
    <3>. QED BY <2>3, <3>1, <3>3
  <2>. QED BY <2>4, <2>5, <2>6, <2>7, <2>8, <2>9, <2>10, <2>11 DEF Statement
<1>. QED BY <1>2, <1>3

\* The uniqueness constraint, and the drafts nobody else holds, keep the seasons of the
\* primary calendar apart.
LEMMA StatementKeepsPrimary ==
    ASSUME StoreInv, PrimaryAlone, NEW r \in Request, Statement(r)
    PROVE  PrimaryAlone'
<1>1. TypeOK /\ UNCHANGED term /\ pc[r] # "idle"
  BY StatementIsLocal, StatementSteps DEF StoreInv
<1>2. CASE UNCHANGED row
  BY <1>1, <1>2 DEF PrimaryAlone
<1>3. CASE demote(r)
  <2>1. row' = [row EXCEPT ![req[r].existing] = req[r].draft] /\ req[r].draft # Primary
    BY <1>1, <1>3, ActiveRequest DEF demote, saveRow
  <2>2. \A s \in ScheduleId : row'[s] = Primary => row[s] = Primary
    BY <1>1, <2>1 DEF TypeOK
  <2>. QED BY <1>1, <2>2 DEF PrimaryAlone
<1>4. ASSUME NEW s \in ScheduleId, NEW c, ~clash(s, c), saveRow(s, c)
      PROVE  PrimaryAlone'
  <2>1. \A v \in ScheduleId \ {s} : row[v] = c => term[v].season # term[s].season
    BY <1>4 DEF clash
  <2>2. row'[s] = c /\ \A v \in ScheduleId \ {s} : row'[v] = row[v]
    BY <1>1, <1>4 DEF saveRow, TypeOK
  <2>. QED BY <1>1, <2>1, <2>2 DEF PrimaryAlone
<1>5. req[r].schedule \in ScheduleId
  BY <1>1, ActiveRequest
<1>. QED BY <1>2, <1>3, <1>4, <1>5
         DEF Statement, prepare, demoteComponents, insertComponents, insert, moveComponents,
             move, rename, db

LEMMA StatementKeepsAlone ==
    ASSUME StoreInv, Alone, NEW r \in Request, Statement(r), overlapped' = overlapped
    PROVE  Alone'
<1>1. /\ Others(r) /\ UNCHANGED term /\ pc[r] # "idle"
      /\ pc'[r] # "idle" => SameRequest(r)
  BY StatementIsLocal, StatementSteps, StatementFields DEF StoreInv
<1>2. \A q \in Request : pc'[q] # "idle" => pc[q] # "idle" /\ req'[q].schedule = req[q].schedule
  BY <1>1 DEF Others, SameRequest
<1>. QED BY <1>1, <1>2 DEF Alone

LEMMA StatementKeepsOrderInv ==
    ASSUME StoreInv, OrderInv, NEW r \in Request, Statement(r), proceed(r)
    PROVE  OrderInv'
<1>1. overlapped' = overlapped /\ Others(r) /\ UNCHANGED term /\ pc[r] # "idle"
  BY StatementIsLocal, StatementSteps DEF proceed, StoreInv
<1>2. PrimaryAlone' /\ Alone' /\ InOrder(r)'
  BY <1>1, StatementKeepsPrimary, StatementKeepsAlone, StatementKeepsOrder DEF OrderInv
<1>3. ASSUME NEW q \in Request, q # r PROVE InOrder(q)'
  <2>1. pc'[q] = pc[q] /\ req'[q] = req[q]
    BY <1>1, <1>3 DEF Others
  <2>2. ASSUME pc[q] # "idle", term[req[q].schedule] \notin overlapped, NEW s \in ScheduleId,
               term[s] = term[req[q].schedule]
        PROVE  row'[s] = row[s] /\ components'[s] = components[s]
    <3>1. term[req[q].schedule] # term[req[r].schedule]
      BY <1>1, <1>3, <2>2 DEF OrderInv, Alone
    <3>. QED BY <2>2, <3>1, OtherTermStays
  <2>. QED BY <1>1, <2>1, <2>2, OrderStays DEF OrderInv
<1>4. \A s \in ScheduleId : Together(s)'
  BY StatementKeepsTogether
<1>. QED BY <1>2, <1>3, <1>4 DEF OrderInv

-----------------------------------------------------------------------------
(* Requests that come in or die.                                           *)

LEMMA CrashKeepsOrderInv ==
    ASSUME StoreInv, OrderInv, NEW r \in Request, crash(r), proceed(r)
    PROVE  OrderInv'
<1>1. /\ Others(r) /\ pc'[r] = "idle" /\ UNCHANGED <<term, row, components, overlapped>>
      /\ torn \subseteq torn'
  BY LeaveIsLocal DEF crash, db, proceed, StoreInv
<1>2. PrimaryAlone'
  BY <1>1 DEF OrderInv, PrimaryAlone
<1>3. Alone'
  BY <1>1 DEF OrderInv, Alone, Others
<1>4. ASSUME NEW q \in Request PROVE InOrder(q)'
  <2>1. CASE q = r
    BY <1>1, <2>1 DEF InOrder
  <2>2. CASE q # r
    BY <1>1, <2>2, OrderStays DEF Others, OrderInv
  <2>. QED BY <2>1, <2>2
<1>5. ASSUME NEW s \in ScheduleId PROVE Together(s)'
  <2>1. ASSUME NEW q \in Request, q # r
        PROVE  (HalfWay(q, s)' <=> HalfWay(q, s)) /\ Destination(q)' = Destination(q)
    <3>1. pc'[q] = pc[q] /\ req'[q] = req[q]
      BY <1>1, <2>1 DEF Others
    <3>. QED BY <3>1 DEF HalfWay, Destination, target
  <2>2. ~HalfWay(r, s)'
    BY <1>1 DEF HalfWay
  <2>3. CASE HalfWay(r, s)
    BY <1>1, <2>3 DEF proceed, Together
  <2>4. CASE ~HalfWay(r, s)
    BY <1>1, <2>1, <2>2, <2>4, TogetherStays DEF OrderInv
  <2>. QED BY <2>3, <2>4
<1>. QED BY <1>2, <1>3, <1>4, <1>5 DEF OrderInv

\* A new request: of what is there it changes nothing but what other requests of its term
\* may rely on, and it is half-way with no schedule.
LEMMA ArrivalKeepsOrderInv ==
    ASSUME StoreInv, OrderInv, NEW r \in Request, NEW t, NEW s0 \in ScheduleId,
           Others(r), pc[r] = "idle", UNCHANGED <<row, components>>, arrive(t),
           pc'[r] \in {"prepare", "insertComponents", "moveComponents", "rename"},
           req'[r].schedule = s0, term'[s0] = t,
           \A s \in ScheduleId : Created(s) => term'[s] = term[s],
           KnowsItsSchedule(r)', KnowsWhatMakesRoom(r)'
    PROVE  OrderInv'
<1>1. overlapped \subseteq overlapped' /\ torn' = torn
  BY DEF arrive
<1>2. \A s \in ScheduleId : Exists(s) => Created(s)
  BY DEF StoreInv, TermsInv
<1>3. PrimaryAlone'
  <2>1. \A s \in ScheduleId : row[s] = Primary => term'[s] = term[s]
    BY <1>2, CalendarFacts DEF Exists
  <2>. QED BY <2>1 DEF OrderInv, PrimaryAlone
<1>4. \A q \in Request : pc[q] # "idle" =>
          req[q].schedule \in ScheduleId /\ term'[req[q].schedule] = term[req[q].schedule]
  BY DEF StoreInv, TermsInv, TermsOf
<1>5. Alone'
  <2>1. ASSUME NEW q \in Request, q # r, pc[q] # "idle", term[req[q].schedule] = t
        PROVE  t \in overlapped'
    BY <2>1 DEF arrive, UnderWay
  <2>2. \A q \in Request \ {r} : pc'[q] = pc[q] /\ req'[q] = req[q]
    BY DEF Others
  <2>. QED BY <1>1, <1>4, <2>1, <2>2 DEF OrderInv, Alone
<1>6. ASSUME NEW q \in Request PROVE InOrder(q)'
  <2>1. CASE q = r
    BY <2>1 DEF InOrder
  <2>2. CASE q # r
    <3>1. pc'[q] = pc[q] /\ req'[q] = req[q] /\ InOrder(q)
      BY <2>2 DEF Others, OrderInv
    <3>. QED BY <1>1, <3>1, OrderStays
  <2>. QED BY <2>1, <2>2
<1>7. ASSUME NEW s \in ScheduleId PROVE Together(s)'
  <2>1. ASSUME NEW q \in Request
        PROVE  /\ HalfWay(q, s)' <=> HalfWay(q, s)
               /\ HalfWay(q, s) => Destination(q)' = Destination(q)
    <3>1. CASE q = r
      BY <3>1 DEF HalfWay
    <3>2. CASE q # r
      <4>1. pc'[q] = pc[q] /\ req'[q] = req[q]
        BY <3>2 DEF Others
      <4>. QED BY <4>1 DEF HalfWay, Destination, target
    <3>. QED BY <3>1, <3>2
  <2>2. Exists(s)' => term'[s] = term[s]
    BY <1>2 DEF Exists
  <2>. QED BY <1>1, <2>1, <2>2, TogetherStays DEF OrderInv
<1>. QED BY <1>3, <1>5, <1>6, <1>7 DEF OrderInv

LEMMA CreateKeepsOrderInv ==
    ASSUME StoreInv, OrderInv, NEW r \in Request, NEW in_cal \in BOOLEAN, NEW t \in Term,
           create(r, in_cal, t), arrive(t)
    PROVE  OrderInv'
<1>1. PICK s \in ScheduleId :
          /\ term[s] = NoTerm /\ term' = [term EXCEPT ![s] = t]
          /\ begin(r, s, TRUE, in_cal, FALSE, NoCalendar)
  BY DEF create
<1>2. PICK step : goto(r, step) /\ step \in {"prepare", "insertComponents"}
  BY DEF create, content
<1>3. /\ Others(r) /\ pc'[r] = step /\ req'[r].schedule = s /\ req'[r].isNew
      /\ req'[r].existing = NoSchedule
  BY <1>1, <1>2, BeginIsLocal DEF StoreInv
<1>4. pc[r] = "idle" /\ UNCHANGED <<row, components>>
  BY DEF create
<1>5. term'[s] = t /\ \A v \in ScheduleId : Created(v) => term'[v] = term[v]
  BY <1>1 DEF StoreInv, TypeOK, Created
<1>6. row[s] = NoCalendar
  BY <1>1 DEF StoreInv, TermsInv, Exists, Created
<1>7. KnowsItsSchedule(r)'
  BY <1>2, <1>3, <1>4, <1>6, CalendarFacts DEF KnowsItsSchedule, Preparing
<1>8. KnowsWhatMakesRoom(r)'
  BY <1>2, <1>3 DEF KnowsWhatMakesRoom
<1>. QED BY <1>2, <1>3, <1>4, <1>5, <1>7, <1>8, ArrivalKeepsOrderInv

LEMMA UpdateKeepsOrderInv ==
    ASSUME StoreInv, OrderInv, NEW r \in Request, NEW s \in ScheduleId,
           NEW in_cal \in BOOLEAN, NEW named \in BOOLEAN,
           update(r, s, in_cal, named), arrive(term[s])
    PROVE  OrderInv'
<1>1. /\ begin(r, s, FALSE, in_cal, named, row[s]) /\ row[s] # NoCalendar
      /\ pc[r] = "idle" /\ UNCHANGED <<term, row, components>>
  BY DEF update, db
<1>2. PICK step \in {"prepare", "moveComponents", "rename"} :
          goto(r, step) /\ (step = "prepare" => row[s] # Primary)
  BY DEF update, content
<1>3. PICK from : from = row[s]
  OBVIOUS
<1>4. /\ Others(r) /\ pc'[r] = step /\ req'[r].schedule = s /\ ~req'[r].isNew
      /\ req'[r].from = from /\ req'[r].existing = NoSchedule
  <2>1. begin(r, s, FALSE, in_cal, named, from)
    BY <1>1, <1>3
  <2>. QED BY <1>2, <2>1, BeginIsLocal DEF StoreInv
<1>5. KnowsItsSchedule(r)'
  BY <1>1, <1>2, <1>3, <1>4 DEF KnowsItsSchedule, Preparing
<1>6. KnowsWhatMakesRoom(r)'
  BY <1>2, <1>4 DEF KnowsWhatMakesRoom
<1>. QED BY <1>1, <1>2, <1>4, <1>5, <1>6, ArrivalKeepsOrderInv

LEMMA DestroyKeepsOrderInv ==
    ASSUME StoreInv, OrderInv, NEW r \in Request, NEW s0 \in ScheduleId,
           destroy(r, s0), arrive(term[s0])
    PROVE  OrderInv'
<1>1. /\ UNCHANGED <<term, components, pc, req>> /\ overlapped \subseteq overlapped' /\ torn' = torn
      /\ row'[s0] = NoCalendar /\ \A s \in ScheduleId \ {s0} : row'[s] = row[s]
  BY DEF destroy, arrive, StoreInv, TypeOK
<1>2. PrimaryAlone' /\ Alone'
  BY <1>1, CalendarFacts DEF OrderInv, PrimaryAlone, Alone
<1>3. ASSUME NEW q \in Request PROVE InOrder(q)'
  <2>1. pc[q] # "idle" /\ term[req[q].schedule] \notin overlapped' =>
            term[req[q].schedule] # term[s0]
    BY DEF arrive, UnderWay
  <2>. QED BY <1>1, <1>3, <2>1, OrderStays DEF OrderInv
<1>4. ASSUME NEW s \in ScheduleId PROVE Together(s)'
  BY <1>1, <1>4, TogetherStays DEF OrderInv, Exists, HalfWay, Destination, target
<1>. QED BY <1>2, <1>3, <1>4 DEF OrderInv

LEMMA NextKeepsOrder == StoreInv /\ OrderInv /\ [HistoryNext]_historyVars => OrderInv'
<1> SUFFICES ASSUME StoreInv, OrderInv, [HistoryNext]_historyVars PROVE OrderInv'
  OBVIOUS
<1>1. CASE UNCHANGED historyVars
  BY <1>1 DEF historyVars, OrderInv, PrimaryAlone, Alone, InOrder, KnowsItsSchedule,
              KnowsWhatMakesRoom, Together, HalfWay, Destination, target, Exists
<1>. QED BY <1>1, CreateKeepsOrderInv, UpdateKeepsOrderInv, DestroyKeepsOrderInv,
            StatementKeepsOrderInv, CrashKeepsOrderInv DEF HistoryNext

LEMMA InitInOrder == HistoryInit => OrderInv
BY CalendarFacts DEF HistoryInit, Init, OrderInv, PrimaryAlone, Alone, InOrder, Together, Exists

LEMMA OrderInvariant == HistorySpec => []OrderInv
BY InitInOrder, NextKeepsOrder, StoreInvariant, PTL DEF HistorySpec

\* The courses of a settled schedule are in the calendar it is in.
LEMMA SettledTogether ==
    ASSUME StoreInv, OrderInv, NEW s \in ScheduleId, Settled(s)
    PROVE  components[s] = row[s]
<1>1. ASSUME NEW r \in Request, HalfWay(r, s) PROVE FALSE
  BY <1>1, HalfWayOfItsTerm DEF Settled, UnderWay
<1>. QED BY <1>1 DEF Settled, OrderInv, Together

\* The courses of a schedule are in the calendar the schedule is in (models.py:195) as soon
\* as its last request was answered, if the requests of its term never overlapped and none
\* failed between moving its courses and moving it: for any number of requests, terms and
\* years, whatever is refused, deleted or dies.
THEOREM CoursesTogether == HistorySpec => []CoursesStayTogether
<1>1. StoreInv /\ OrderInv => CoursesStayTogether
  BY SettledTogether DEF CoursesStayTogether
<1>. QED BY <1>1, StoreInvariant, OrderInvariant, PTL

\* Such a schedule shows its own courses and those of no other such schedule, though
\* to_representation finds them by calendar and season alone.
THEOREM OwnCoursesShown == HistorySpec => []ShowsItsOwnCourses
<1>1. ASSUME StoreInv, OrderInv PROVE ShowsItsOwnCourses
  <2>1. ASSUME NEW s \in ScheduleId, Settled(s), NEW v \in ScheduleId, Settled(v), v \in shown(s)
        PROVE  v = s
    <3>1. row[v] = row[s] /\ term[v].season = term[s].season /\ Exists(s) /\ Exists(v)
      BY <1>1, <2>1, SettledTogether DEF shown, Settled
    <3>2. CASE row[s] = Primary
      BY <1>1, <2>1, <3>1, <3>2 DEF OrderInv, PrimaryAlone
    <3>3. CASE row[s] # Primary
      BY <1>1, <2>1, <3>1, <3>3, HeldAlone DEF StoreInv, DraftsAreAlone
    <3>. QED BY <3>2, <3>3
  <2>2. ASSUME NEW s \in ScheduleId, Settled(s) PROVE s \in shown(s)
    BY <1>1, <2>2, SettledTogether DEF shown
  <2>. QED BY <2>1, <2>2 DEF ShowsItsOwnCourses, shown
<1>. QED BY <1>1, StoreInvariant, OrderInvariant, PTL

-----------------------------------------------------------------------------
(* The promise of the endpoints: the planner changes when the last row is  *)
(* written, or the request fails; all other statements are steps it does   *)
(* not see.                                                                *)

placeNow ==
    [s \in ScheduleId |->
        IF ~Followed(s) THEN "absent"
        ELSE IF row[s] = Primary \/ MakesRoom(s) THEN "calendar" ELSE "draft"]
termNow == [s \in ScheduleId |-> IF Followed(s) THEN term[s] ELSE NoTerm]

\* What Planner!put makes of the places.
putNow(s, t, p) ==
    [v \in ScheduleId |->
        CASE v = s -> p
          [] v # s /\ p = "calendar" /\ placeNow[v] = "calendar" /\ termNow[v] = t -> "draft"
          [] OTHER -> placeNow[v]]

LEMMA CreateOfPlanner ==
    ASSUME NEW s \in ScheduleId, NEW p \in {"draft", "calendar"}, NEW t \in Term,
           placeNow[s] = "absent", t \notin overlapped, placeNow' = putNow(s, t, p),
           termNow' = [termNow EXCEPT ![s] = t], overlapped' = overlapped
    PROVE  Promise!Next
<1>1. Promise!Create(s, t, p)
  BY Zenon DEF Promise!Create, Promise!put, placeNow, termNow, putNow
<1>. QED BY <1>1 DEF Promise!Next

LEMMA SwitchOfPlanner ==
    ASSUME NEW s \in ScheduleId, NEW p \in {"draft", "calendar"},
           placeNow[s] # "absent", placeNow' = putNow(s, termNow[s], p),
           UNCHANGED <<termNow, overlapped>>
    PROVE  Promise!Next
<1>1. Promise!Switch(s, p)
  BY Zenon DEF Promise!Switch, Promise!put, placeNow, termNow, putNow
<1>. QED BY <1>1 DEF Promise!Next

LEMMA DeleteOfPlanner ==
    ASSUME NEW s \in ScheduleId,
           placeNow[s] # "absent", placeNow' = [placeNow EXCEPT ![s] = "absent"],
           termNow' = [termNow EXCEPT ![s] = NoTerm], overlapped' = overlapped
    PROVE  Promise!Next
<1>1. Promise!Delete(s)
  BY Zenon DEF Promise!Delete, placeNow, termNow
<1>. QED BY <1>1 DEF Promise!Next

LEMMA HurryOfPlanner ==
    ASSUME NEW t \in Term, overlapped' = overlapped \cup {t},
           placeNow' = [s \in ScheduleId |-> IF termNow[s] = t THEN "absent" ELSE placeNow[s]],
           termNow' = [s \in ScheduleId |-> IF termNow[s] = t THEN NoTerm ELSE termNow[s]]
    PROVE  Promise!Next
<1>1. Promise!Hurry(t)
  BY Zenon DEF Promise!Hurry, placeNow, termNow
<1>. QED BY <1>1 DEF Promise!Next

\* Nobody sees a step that leaves the rows, and who is making room, as they are for the
\* schedules that are followed.
LEMMA Unseen ==
    ASSUME \A s \in ScheduleId : Followed(s)' <=> Followed(s),
           \A s \in ScheduleId : Followed(s) =>
               /\ term'[s] = term[s]
               /\ (row'[s] = Primary \/ MakesRoom(s)') <=> (row[s] = Primary \/ MakesRoom(s))
    PROVE  UNCHANGED <<placeNow, termNow>>
<1>1. \A s \in ScheduleId : placeNow'[s] = placeNow[s]
  BY DEF placeNow
<1>2. \A s \in ScheduleId : termNow'[s] = termNow[s]
  BY DEF termNow
<1>. QED BY <1>1, <1>2 DEF placeNow, termNow

\* Only the request of its own term makes a schedule that is followed leave its place.
LEMMA MakesRoomByOwnTerm ==
    ASSUME StoreInv, OrderInv, NEW r \in Request, pc[r] # "idle", NEW s \in ScheduleId,
           term[s] = term[req[r].schedule], term[s] \notin overlapped
    PROVE  MakesRoom(s) <=> pc[r] \in Placing /\ req[r].existing = s
<1>1. ASSUME NEW q \in Request, pc[q] \in Placing, req[q].existing = s PROVE q = r
  <2>1. pc[q] # "idle" /\ term[req[q].schedule] = term[s]
    BY <1>1, ActiveRequest, CalendarFacts DEF Placing, FoundOfItsTerm
  <2>. QED BY <2>1 DEF OrderInv, Alone
<1>. QED BY <1>1 DEF MakesRoom, Placing

\* And a request leaves those of other terms where they are.
LEMMA MakesRoomOfOthers ==
    ASSUME StoreInv, StoreInv', NEW r \in Request, Others(r), NEW s \in ScheduleId,
           pc[r] # "idle" => term[s] # term[req[r].schedule],
           pc'[r] # "idle" => term'[s] # term'[req'[r].schedule]
    PROVE  MakesRoom(s)' <=> MakesRoom(s)
<1>1. ~(pc[r] \in Placing /\ req[r].existing = s)
  BY ActiveRequest, CalendarFacts DEF Placing, FoundOfItsTerm
<1>2. ~(pc'[r] \in Placing /\ req'[r].existing = s)
  BY CalendarFacts DEF Placing, FoundOfItsTerm, StoreInv, TermsInv, TermsOf
<1>3. \A q \in Request \ {r} : pc'[q] = pc[q] /\ req'[q] = req[q]
  BY DEF Others
<1>. QED BY <1>1, <1>2, <1>3 DEF MakesRoom, Placing

\* A step of r within a term that is not followed is not seen.
LEMMA HurriedUnseen ==
    ASSUME StoreInv, StoreInv', NEW r \in Request, pc[r] # "idle", Others(r),
           UNCHANGED <<term, overlapped>>,
           pc'[r] # "idle" => req'[r].schedule = req[r].schedule,
           term[req[r].schedule] \in overlapped,
           \A s \in ScheduleId : term[s] # term[req[r].schedule] => row'[s] = row[s]
    PROVE  UNCHANGED <<placeNow, termNow>>
<1>1. ASSUME NEW s \in ScheduleId, term[s] = term[req[r].schedule]
      PROVE  ~Followed(s) /\ ~Followed(s)'
  BY <1>1 DEF Followed
<1>2. ASSUME NEW s \in ScheduleId, term[s] # term[req[r].schedule]
      PROVE  row'[s] = row[s] /\ (MakesRoom(s)' <=> MakesRoom(s)) /\ (Followed(s)' <=> Followed(s))
  BY <1>2, MakesRoomOfOthers DEF Followed, Exists
<1>. QED BY <1>1, <1>2, Unseen

\* The last step of the request of a followed term: the schedule takes its place, and what
\* made room for it is a draft from now on; or nothing is written, and it is a draft too.
LEMMA PlacedAsPromised ==
    ASSUME StoreInv, StoreInv', OrderInv, PrimaryAlone', NEW r \in Request, pc[r] # "idle",
           Others(r), UNCHANGED <<term, overlapped>>,
           pc'[r] \notin Placing,
           pc'[r] # "idle" => req'[r].schedule = req[r].schedule,
           term[req[r].schedule] \notin overlapped,
           pc[r] \in {"insert", "move"}, NEW s \in ScheduleId, s = req[r].schedule,
           row' = [row EXCEPT ![s] = target(r)]
    PROVE  \E p \in {"draft", "calendar"} :
              placeNow' = putNow(s, term[s], p) /\ termNow' = [termNow EXCEPT ![s] = term[s]]
<1>1. KnowsWhatMakesRoom(r) /\ TypeOK /\ pc[r] \in Placing
  BY DEF OrderInv, InOrder, StoreInv, Placing
<1>2. PICK p \in {"draft", "calendar"} : p = IF req[r].in_calendar THEN "calendar" ELSE "draft"
  OBVIOUS
<1>3. /\ row'[s] = target(r) /\ \A v \in ScheduleId \ {s} : row'[v] = row[v]
      /\ target(r) # NoCalendar /\ (p = "calendar" <=> target(r) = Primary)
  BY <1>1, <1>2, ActiveRequest DEF TypeOK, target
<1>4. ASSUME NEW v \in ScheduleId, term[v] = term[s]
      PROVE  /\ Followed(v) <=> row[v] # NoCalendar
             /\ Followed(v)' <=> row'[v] # NoCalendar
             /\ MakesRoom(v) <=> req[r].existing = v
             /\ ~MakesRoom(v)'
  <2>1. MakesRoom(v) <=> req[r].existing = v
    BY <1>1, <1>4, MakesRoomByOwnTerm
  <2>2. ASSUME NEW q \in Request, q # r, pc'[q] \in Placing, req'[q].existing = v PROVE FALSE
    <3>1. pc[q] \in Placing /\ req[q].existing = v
      BY <2>2 DEF Others
    <3>2. pc[q] # "idle" /\ term[req[q].schedule] = term[v]
      BY <3>1, ActiveRequest, CalendarFacts DEF Placing, FoundOfItsTerm
    <3>. QED BY <1>4, <2>2, <3>2 DEF OrderInv, Alone
  <2>3. ~MakesRoom(v)'
    BY <2>2 DEF MakesRoom, Placing
  <2>. QED BY <1>4, <2>1, <2>3 DEF Followed, Exists
<1>5. ASSUME NEW v \in ScheduleId, term[v] # term[s]
      PROVE  /\ row'[v] = row[v]
             /\ Followed(v)' <=> Followed(v)
             /\ MakesRoom(v)' <=> MakesRoom(v)
  <2>1. row'[v] = row[v]
    BY <1>3, <1>5
  <2>. QED BY <1>5, <2>1, MakesRoomOfOthers DEF Followed, Exists
<1>6. ASSUME NEW v \in ScheduleId PROVE placeNow'[v] = putNow(s, term[s], p)[v]
  <2>1. CASE v = s
    BY <1>3, <1>4, <2>1 DEF placeNow, putNow
  <2>2. CASE v # s /\ term[v] # term[s]
    <3>1. placeNow'[v] = placeNow[v] /\ termNow[v] # term[s]
      BY <1>5, <2>2, ActiveRequest, StoreAssumption DEF placeNow, termNow, NoTerm, Term
    <3>. QED BY <2>2, <3>1 DEF putNow
  <2>3. CASE v # s /\ term[v] = term[s] /\ row[v] = NoCalendar
    <3>1. placeNow[v] = "absent" /\ placeNow'[v] = "absent"
      BY <1>3, <1>4, <2>3 DEF placeNow
    <3>. QED BY <2>3, <3>1 DEF putNow
  <2>4. CASE v # s /\ term[v] = term[s] /\ row[v] = Primary
    <3>1. p # "calendar" /\ row'[v] = row[v] /\ row[v] # NoCalendar
      BY <1>3, <2>4, CalendarFacts DEF PrimaryAlone
    <3>2. placeNow[v] = "calendar" /\ placeNow'[v] = "calendar"
      BY <1>4, <2>4, <3>1 DEF placeNow
    <3>. QED BY <2>4, <3>1, <3>2 DEF putNow
  <2>5. CASE v # s /\ term[v] = term[s] /\ row[v] # NoCalendar /\ row[v] # Primary
    <3>1. row'[v] = row[v] /\ placeNow'[v] = "draft" /\ termNow[v] = term[s]
      BY <1>3, <1>4, <2>5 DEF placeNow, termNow
    <3>2. placeNow[v] = IF req[r].existing = v THEN "calendar" ELSE "draft"
      BY <1>4, <2>5 DEF placeNow
    <3>3. req[r].existing = v => p = "calendar"
      BY <1>1, <1>2, CalendarFacts DEF KnowsWhatMakesRoom
    <3>. QED BY <2>5, <3>1, <3>2, <3>3 DEF putNow
  <2>. QED BY <2>1, <2>2, <2>3, <2>4, <2>5
<1>7. ASSUME NEW v \in ScheduleId PROVE termNow'[v] = [termNow EXCEPT ![s] = term[s]][v]
  <2>1. CASE v = s
    BY <1>3, <1>4, <2>1 DEF termNow
  <2>2. CASE v # s /\ term[v] = term[s]
    BY <1>3, <1>4, <2>2 DEF termNow
  <2>3. CASE v # s /\ term[v] # term[s]
    BY <1>5, <2>3 DEF termNow
  <2>. QED BY <2>1, <2>2, <2>3
<1>8. placeNow' = putNow(s, term[s], p)
  BY <1>6 DEF placeNow, putNow
<1>9. termNow' = [termNow EXCEPT ![s] = term[s]]
  BY <1>7 DEF termNow
<1>. QED BY <1>8, <1>9

\* A request that fails writes nothing: what made room for it is a draft.
LEMMA FailsAsPromised ==
    ASSUME StoreInv, StoreInv', OrderInv, NEW r \in Request, pc[r] # "idle", Others(r),
           UNCHANGED <<term, row, overlapped>>, pc'[r] = "idle",
           term[req[r].schedule] \notin overlapped
    PROVE  Promise!Next \/ UNCHANGED <<placeNow, termNow>>
<1>1. KnowsWhatMakesRoom(r) /\ TypeOK
  BY DEF OrderInv, InOrder, StoreInv
<1>2. \A s \in ScheduleId : Followed(s)' <=> Followed(s)
  BY DEF Followed, Exists
<1>3. ASSUME NEW s \in ScheduleId, ~(pc[r] \in Placing /\ req[r].existing = s)
      PROVE  MakesRoom(s)' <=> MakesRoom(s)
  <2>1. \A q \in Request \ {r} : pc'[q] = pc[q] /\ req'[q] = req[q]
    BY DEF Others
  <2>. QED BY <1>3, <2>1 DEF MakesRoom, Placing
<1>4. CASE pc[r] \in Placing /\ req[r].existing # NoSchedule
  <2>1. PICK e \in ScheduleId : e = req[r].existing /\ term[e] = term[req[r].schedule]
    BY <1>4, ActiveRequest DEF FoundOfItsTerm
  <2>2. row[e] = req[r].draft /\ row[e] \in Calendar /\ row[e] # Primary
    BY <1>1, <1>4, <2>1, ActiveRequest DEF KnowsWhatMakesRoom
  <2>3. Followed(e) /\ MakesRoom(e)
    BY <1>4, <2>1, <2>2, CalendarFacts DEF Followed, Exists, MakesRoom, Placing
  <2>4. ~MakesRoom(e)'
    <3>1. ASSUME NEW q \in Request, q # r, pc'[q] \in Placing, req'[q].existing = e PROVE FALSE
      <4>1. pc[q] \in Placing /\ req[q].existing = e
        BY <3>1 DEF Others
      <4>2. pc[q] # "idle" /\ term[req[q].schedule] = term[e]
        BY <4>1, ActiveRequest, CalendarFacts DEF Placing, FoundOfItsTerm
      <4>. QED BY <2>1, <3>1, <4>2 DEF OrderInv, Alone
    <3>. QED BY <3>1 DEF MakesRoom, Placing
  <2>5. placeNow[e] = "calendar" /\ placeNow'[e] = "draft"
    BY <1>2, <2>2, <2>3, <2>4 DEF placeNow
  <2>6. \A v \in ScheduleId : v # e => placeNow'[v] = placeNow[v]
    BY <1>2, <1>3, <2>1 DEF placeNow
  <2>7. placeNow' = putNow(e, termNow[e], "draft")
    BY <2>5, <2>6 DEF placeNow, putNow
  <2>8. termNow' = termNow
    BY <1>2 DEF termNow
  <2>. QED BY <2>5, <2>7, <2>8, SwitchOfPlanner
<1>5. CASE ~(pc[r] \in Placing /\ req[r].existing # NoSchedule)
  BY <1>2, <1>3, <1>5, CalendarFacts, Unseen
<1>. QED BY <1>4, <1>5

LEMMA StatementUnseen ==
    ASSUME StoreInv, StoreInv', OrderInv, NEW r \in Request,
           term[req[r].schedule] \notin overlapped, overlapped' = overlapped,
           \/ prepare(r) \/ demoteComponents(r) \/ demote(r)
           \/ insertComponents(r) \/ moveComponents(r) \/ rename(r)
    PROVE  UNCHANGED <<placeNow, termNow>>
<1>1. /\ TypeOK /\ Others(r) /\ UNCHANGED term /\ pc[r] # "idle" /\ Statement(r)
      /\ pc'[r] # "idle" => SameRequest(r)
  BY StatementIsLocal, StatementSteps, StatementFields DEF StoreInv, Statement
<1>2. /\ KnowsItsSchedule(r) /\ KnowsWhatMakesRoom(r)
      /\ req[r].schedule \in ScheduleId /\ req[r].draft \in Calendar
  BY <1>1, ActiveRequest DEF OrderInv, InOrder
<1>3. ASSUME UNCHANGED row,
             \A s \in ScheduleId : (pc'[r] \in Placing /\ req'[r].existing = s)
                                   <=> (pc[r] \in Placing /\ req[r].existing = s)
      PROVE  UNCHANGED <<placeNow, termNow>>
  <2>1. \A q \in Request \ {r} : pc'[q] = pc[q] /\ req'[q] = req[q]
    BY <1>1 DEF Others
  <2>2. \A s \in ScheduleId : MakesRoom(s)' <=> MakesRoom(s)
    BY <1>3, <2>1 DEF MakesRoom, Placing
  <2>. QED BY <1>1, <1>3, <2>2, Unseen DEF Followed, Exists
<1>4. CASE prepare(r)
  <2>1. UNCHANGED row /\ pc[r] = "prepare" /\ req[r].existing = NoSchedule
    BY <1>2, <1>4 DEF prepare, db, KnowsWhatMakesRoom
  <2>2. pc'[r] \in Placing => req'[r].existing = NoSchedule
    BY <1>1, <1>4, <2>1, PrepareSteps DEF Placing
  <2>. QED BY <1>3, <2>1, <2>2, CalendarFacts DEF Placing
<1>5. CASE demoteComponents(r)
  <2>1. UNCHANGED row /\ pc[r] = "demoteComponents" /\ pc'[r] = "demote"
    BY <1>1, <1>5, GotoIsLocal DEF demoteComponents
  <2>. QED BY <1>3, <2>1 DEF Placing
<1>6. CASE demote(r)
  <2>1. /\ pc[r] = "demote" /\ pc'[r] \in Placing /\ UNCHANGED req
        /\ row' = [row EXCEPT ![req[r].existing] = req[r].draft]
    BY <1>1, <1>6, GotoIsLocal DEF demote, saveRow, Placing, content
  <2>2. PICK e \in ScheduleId : e = req[r].existing /\ row[e] = Primary
    BY <1>1, <1>2, <2>1, ActiveRequest DEF FoundOfItsTerm, KnowsWhatMakesRoom
  <2>3. /\ row'[e] # NoCalendar /\ row[e] # NoCalendar
        /\ \A v \in ScheduleId : v # e => row'[v] = row[v]
    BY <1>1, <1>2, <2>1, <2>2, CalendarFacts DEF TypeOK
  <2>4. MakesRoom(e)'
    BY <2>1, <2>2 DEF MakesRoom, Placing
  <2>5. \A v \in ScheduleId : v # e => (MakesRoom(v)' <=> MakesRoom(v))
    <3>1. \A q \in Request \ {r} : pc'[q] = pc[q] /\ req'[q] = req[q]
      BY <1>1 DEF Others
    <3>. QED BY <2>1, <2>2, <3>1 DEF MakesRoom, Placing
  <2>6. \A v \in ScheduleId : Followed(v)' <=> Followed(v)
    BY <1>1, <2>3 DEF Followed, Exists
  <2>7. \A v \in ScheduleId : (row'[v] = Primary \/ MakesRoom(v)') <=> (row[v] = Primary \/ MakesRoom(v))
    BY <2>2, <2>3, <2>4, <2>5
  <2>. QED BY <1>1, <2>6, <2>7, Unseen
<1>7. CASE insertComponents(r) \/ moveComponents(r)
  <2>1. UNCHANGED <<row, req>> /\ pc[r] \in Placing /\ pc'[r] \in Placing
    BY <1>1, <1>7, GotoIsLocal DEF insertComponents, moveComponents, Placing
  <2>. QED BY <1>3, <2>1
<1>8. CASE rename(r)
  <2>1. pc[r] = "rename" /\ pc'[r] = "idle"
    BY <1>1, <1>8, LeaveIsLocal DEF rename
  <2>2. row[req[r].schedule] = req[r].from
    BY <1>2, <2>1 DEF KnowsItsSchedule
  <2>3. UNCHANGED row
    BY <1>1, <1>2, <1>8, <2>2 DEF rename, saveRow, TypeOK
  <2>. QED BY <1>3, <2>1, <2>3 DEF Placing
<1>. QED BY <1>4, <1>5, <1>6, <1>7, <1>8

LEMMA StatementIsPromised ==
    ASSUME StoreInv, StoreInv', OrderInv, OrderInv', NEW r \in Request, Statement(r), proceed(r)
    PROVE  Promise!Next \/ UNCHANGED <<placeNow, termNow, overlapped>>
<1>1. /\ TypeOK /\ Others(r) /\ UNCHANGED <<term, overlapped>> /\ pc[r] # "idle"
      /\ pc'[r] # "idle" => req'[r].schedule = req[r].schedule
  BY StatementIsLocal, StatementSteps, StatementFields DEF StoreInv, proceed, SameRequest
<1>2. CASE term[req[r].schedule] \in overlapped
  BY <1>1, <1>2, OtherTermStays, HurriedUnseen
<1>3. CASE term[req[r].schedule] \notin overlapped
  <2>1. CASE insert(r) \/ move(r)
    <3>1. pc[r] \in {"insert", "move"} /\ pc'[r] \in {"idle", "rename"}
      BY <1>1, <2>1, MoveSteps, LeaveIsLocal DEF insert, move
    <3>2. row' = [row EXCEPT ![req[r].schedule] = target(r)] \/ (UNCHANGED row /\ pc'[r] = "idle")
      BY <1>1, <2>1, LeaveIsLocal DEF insert, move, saveRow
    <3>3. CASE UNCHANGED row /\ pc'[r] = "idle"
      BY <1>1, <1>3, <3>3, FailsAsPromised
    <3>4. CASE row' = [row EXCEPT ![req[r].schedule] = target(r)]
      <4>1. PICK s \in ScheduleId : s = req[r].schedule /\ term[s] \in Term
        BY <1>1, ActiveRequest
      <4>2. pc'[r] \notin Placing /\ PrimaryAlone'
        BY <3>1 DEF Placing, OrderInv
      <4>3. PICK p \in {"draft", "calendar"} :
              placeNow' = putNow(s, term[s], p) /\ termNow' = [termNow EXCEPT ![s] = term[s]]
        BY <1>1, <1>3, <3>1, <3>4, <4>1, <4>2, PlacedAsPromised
      <4>4. CASE row[s] = NoCalendar
        <5>1. placeNow[s] = "absent"
          BY <4>4 DEF placeNow, Followed, Exists
        <5>2. PICK t \in Term : t = term[s]
          BY <4>1
        <5>. QED BY <1>1, <1>3, <4>1, <4>3, <5>1, <5>2, CreateOfPlanner
      <4>5. CASE row[s] # NoCalendar
        <5>1. termNow[s] = term[s] /\ placeNow[s] # "absent"
          BY <1>3, <4>1, <4>5 DEF placeNow, termNow, Followed, Exists
        <5>2. termNow' = termNow
          BY <4>3, <5>1 DEF termNow
        <5>. QED BY <1>1, <4>3, <5>1, <5>2, SwitchOfPlanner
      <4>. QED BY <4>4, <4>5
    <3>. QED BY <3>2, <3>3, <3>4
  <2>2. CASE ~(insert(r) \/ move(r))
    BY <1>1, <1>3, <2>2, StatementUnseen DEF Statement
  <2>. QED BY <2>1, <2>2
<1>. QED BY <1>2, <1>3

\* A request that comes while another one of its term is under way: the planner loses sight
\* of the term, and of no other.
LEMMA OverlapIsPromised ==
    ASSUME StoreInv, NEW t \in Term, overlapped' = overlapped \cup {t},
           \A s \in ScheduleId : Created(s) => term'[s] = term[s],
           \A s \in ScheduleId : ~Created(s) => term'[s] \in {term[s], t},
           \A s \in ScheduleId : term'[s] # t => row'[s] = row[s] /\ (MakesRoom(s)' <=> MakesRoom(s))
    PROVE  Promise!Next
<1>1. \A s \in ScheduleId : Exists(s) => Created(s)
  BY DEF StoreInv, TermsInv
<1>2. NoTerm # t
  BY StoreAssumption DEF NoTerm, Term
<1>3. ASSUME NEW s \in ScheduleId
      PROVE  /\ termNow'[s] = (IF termNow[s] = t THEN NoTerm ELSE termNow[s])
             /\ placeNow'[s] = (IF termNow[s] = t THEN "absent" ELSE placeNow[s])
  <2>1. CASE term'[s] = t
    <3>1. ~Followed(s)'
      BY <2>1 DEF Followed
    <3>2. Followed(s) => term[s] = t
      BY <1>1, <2>1 DEF Followed
    <3>. QED BY <1>2, <3>1, <3>2 DEF placeNow, termNow
  <2>2. CASE term'[s] # t
    <3>1. term'[s] = term[s] /\ row'[s] = row[s] /\ (MakesRoom(s)' <=> MakesRoom(s))
      BY <2>2
    <3>2. Followed(s)' <=> Followed(s)
      BY <2>2, <3>1 DEF Followed, Exists
    <3>. QED BY <1>2, <2>2, <3>1, <3>2 DEF placeNow, termNow
  <2>. QED BY <2>1, <2>2
<1>4. placeNow' = [s \in ScheduleId |-> IF termNow[s] = t THEN "absent" ELSE placeNow[s]]
  BY <1>3 DEF placeNow
<1>5. termNow' = [s \in ScheduleId |-> IF termNow[s] = t THEN NoTerm ELSE termNow[s]]
  BY <1>3 DEF termNow
<1>. QED BY <1>4, <1>5, HurryOfPlanner

\* A request that comes in is not seen unless it overlaps.
LEMMA ArrivalIsPromised ==
    ASSUME StoreInv, NEW r \in Request, pc[r] = "idle", Others(r), UNCHANGED row,
           req'[r].existing = NoSchedule, NEW t \in Term, arrive(t),
           \A s \in ScheduleId : Created(s) => term'[s] = term[s],
           \A s \in ScheduleId : ~Created(s) => term'[s] \in {term[s], t}
    PROVE  Promise!Next \/ UNCHANGED <<placeNow, termNow, overlapped>>
<1>1. \A s \in ScheduleId : MakesRoom(s)' <=> MakesRoom(s)
  <2>1. \A q \in Request \ {r} : pc'[q] = pc[q] /\ req'[q] = req[q]
    BY DEF Others
  <2>. QED BY <2>1, CalendarFacts DEF MakesRoom
<1>2. CASE overlapped' = overlapped \cup {t}
  BY <1>1, <1>2, OverlapIsPromised
<1>3. CASE overlapped' = overlapped
  <2>1. \A s \in ScheduleId : Exists(s) => Created(s)
    BY DEF StoreInv, TermsInv
  <2>2. \A s \in ScheduleId : Followed(s)' <=> Followed(s)
    BY <1>3, <2>1 DEF Followed, Exists
  <2>3. \A s \in ScheduleId : Followed(s) => term'[s] = term[s]
    BY <2>1 DEF Followed
  <2>. QED BY <1>1, <1>3, <2>2, <2>3, Unseen
<1>. QED BY <1>2, <1>3 DEF arrive

LEMMA DestroyIsPromised ==
    ASSUME StoreInv, StoreInv', NEW r \in Request, NEW s \in ScheduleId,
           destroy(r, s), arrive(term[s])
    PROVE  Promise!Next \/ UNCHANGED <<placeNow, termNow, overlapped>>
<1>1. /\ UNCHANGED <<term, pc, req>> /\ row[s] # NoCalendar
      /\ row'[s] = NoCalendar /\ \A v \in ScheduleId : v # s => row'[v] = row[v]
  BY DEF destroy, StoreInv, TypeOK
<1>2. \A v \in ScheduleId : MakesRoom(v)' <=> MakesRoom(v)
  BY <1>1 DEF MakesRoom
<1>3. PICK t \in Term : t = term[s]
  BY <1>1 DEF StoreInv, TermsInv, TypeOK, Exists, Created
<1>4. CASE overlapped' = overlapped \cup {t}
  BY <1>1, <1>2, <1>3, <1>4, OverlapIsPromised
<1>5. CASE overlapped' = overlapped /\ t \in overlapped
  <2>1. \A v \in ScheduleId : Followed(v)' <=> Followed(v)
    BY <1>1, <1>3, <1>5 DEF Followed, Exists
  <2>2. \A v \in ScheduleId : Followed(v) => row'[v] = row[v]
    BY <1>1, <1>3, <1>5 DEF Followed
  <2>. QED BY <1>1, <1>2, <1>5, <2>1, <2>2, Unseen
<1>6. CASE overlapped' = overlapped /\ t \notin overlapped
  <2>1. Followed(s) /\ ~Followed(s)'
    BY <1>1, <1>3, <1>6 DEF Followed, Exists
  <2>2. \A v \in ScheduleId : v # s => (Followed(v)' <=> Followed(v))
    BY <1>1, <1>6 DEF Followed, Exists
  <2>3. \A v \in ScheduleId : placeNow'[v] = [placeNow EXCEPT ![s] = "absent"][v]
    BY <1>1, <1>2, <2>1, <2>2 DEF placeNow
  <2>4. \A v \in ScheduleId : termNow'[v] = [termNow EXCEPT ![s] = NoTerm][v]
    BY <1>1, <2>1, <2>2 DEF termNow
  <2>5. placeNow' = [placeNow EXCEPT ![s] = "absent"] /\ termNow' = [termNow EXCEPT ![s] = NoTerm]
    BY <2>3, <2>4 DEF placeNow, termNow
  <2>6. placeNow[s] # "absent"
    BY <2>1 DEF placeNow
  <2>. QED BY <1>6, <2>5, <2>6, DeleteOfPlanner
<1>. QED BY <1>3, <1>4, <1>5, <1>6 DEF arrive

LEMMA StepIsPromised ==
    ASSUME StoreInv, StoreInv', OrderInv, OrderInv', [HistoryNext]_historyVars
    PROVE  Promise!Next \/ UNCHANGED <<placeNow, termNow, overlapped>>
<1>1. ASSUME NEW r \in Request, NEW in_cal \in BOOLEAN, NEW t \in Term, create(r, in_cal, t),
             arrive(t)
      PROVE  Promise!Next \/ UNCHANGED <<placeNow, termNow, overlapped>>
  <2>1. PICK s \in ScheduleId :
            /\ term[s] = NoTerm /\ term' = [term EXCEPT ![s] = t]
            /\ begin(r, s, TRUE, in_cal, FALSE, NoCalendar)
    BY <1>1 DEF create
  <2>2. PICK step : goto(r, step)
    BY <1>1 DEF create
  <2>3. Others(r) /\ req'[r].existing = NoSchedule /\ pc[r] = "idle" /\ UNCHANGED row
    BY <1>1, <2>1, <2>2, BeginIsLocal DEF create, StoreInv
  <2>4. /\ \A v \in ScheduleId : Created(v) => term'[v] = term[v]
        /\ \A v \in ScheduleId : ~Created(v) => term'[v] \in {term[v], t}
    BY <2>1 DEF StoreInv, Created, TypeOK
  <2>. QED BY <1>1, <2>3, <2>4, ArrivalIsPromised
<1>2. ASSUME NEW r \in Request, NEW s \in ScheduleId, NEW in_cal \in BOOLEAN,
             NEW named \in BOOLEAN, update(r, s, in_cal, named), arrive(term[s])
      PROVE  Promise!Next \/ UNCHANGED <<placeNow, termNow, overlapped>>
  <2>1. /\ begin(r, s, FALSE, in_cal, named, row[s]) /\ pc[r] = "idle" /\ UNCHANGED <<row, term>>
        /\ row[s] # NoCalendar
    BY <1>2 DEF update, db
  <2>2. PICK step : goto(r, step)
    BY <1>2 DEF update
  <2>3. Others(r) /\ req'[r].existing = NoSchedule
    BY <2>1, <2>2, BeginIsLocal DEF StoreInv
  <2>4. PICK t \in Term : t = term[s]
    BY <2>1 DEF StoreInv, TermsInv, TypeOK, Exists, Created
  <2>. QED BY <1>2, <2>1, <2>3, <2>4, ArrivalIsPromised
<1>3. ASSUME NEW r \in Request, crash(r), proceed(r)
      PROVE  Promise!Next \/ UNCHANGED <<placeNow, termNow, overlapped>>
  <2>1. /\ Others(r) /\ pc'[r] = "idle" /\ pc[r] # "idle"
        /\ UNCHANGED <<term, row, overlapped>>
    BY <1>3, LeaveIsLocal DEF crash, db, proceed, StoreInv
  <2>2. CASE term[req[r].schedule] \in overlapped
    BY <2>1, <2>2, HurriedUnseen
  <2>3. CASE term[req[r].schedule] \notin overlapped
    BY <2>1, <2>3, FailsAsPromised
  <2>. QED BY <2>1, <2>2, <2>3
<1>4. CASE UNCHANGED historyVars
  BY <1>4 DEF historyVars, placeNow, termNow, MakesRoom, Followed, Exists
<1>. QED BY <1>1, <1>2, <1>3, <1>4, DestroyIsPromised, StatementIsPromised DEF HistoryNext

\* For the terms whose requests never overlapped the requests are the steps of the planner,
\* whatever happens in the other terms: whatever a request does statement by statement, the
\* user sees one schedule take its place and the one that had it become a draft, at once
\* (serializers.py:322-327), also when years share a season, and a request that is refused
\* or dies moves at most the schedule that made room.
THEOREM StoreImplementsPlanner == HistorySpec => ImplementsPlanner
<1>1. HistoryInit => Promise!Init
  <2> SUFFICES ASSUME HistoryInit PROVE Promise!Init
    OBVIOUS
  <2>1. \A s \in ScheduleId : ~Followed(s)
    BY DEF HistoryInit, Init, Followed, Exists
  <2>2. /\ placeNow = [s \in ScheduleId |-> "absent"]
        /\ termNow = [s \in ScheduleId |-> NoTerm]
    BY <2>1 DEF placeNow, termNow
  <2>3. overlapped = {}
    BY DEF HistoryInit
  <2>. QED BY <2>2, <2>3, Zenon DEF Promise!Init, placeNow, termNow
<1>2. StoreInv /\ StoreInv' /\ OrderInv /\ OrderInv' /\ [HistoryNext]_historyVars
        => [Promise!Next]_(Promise!plannerVars)
  BY StepIsPromised DEF Promise!plannerVars, placeNow, termNow
<1>. QED BY <1>1, <1>2, StoreInvariant, OrderInvariant, PTL
         DEF HistorySpec, ImplementsPlanner, Promise!Spec

====
