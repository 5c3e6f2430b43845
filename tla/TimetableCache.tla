---- MODULE TimetableCache ----
(***************************************************************************)
(* The timetable of one course in the data access service, which serves as *)
(* a cache of what the university's site says (TimetableViewSet.list and   *)
(* put in data_access/views.py), with the updater that fills it            *)
(* (updater/timetables.py), run inside a request or as a batch.            *)
(*                                                                         *)
(* A request for the course holds one of the THREAD_COUNT threads of the   *)
(* service from start to end.  The updater it calls sends what it scraped  *)
(* to the same service, by a PUT which needs a thread of its own.          *)
(*                                                                         *)
(* The code compares Unix times with the clock, so only ages matter: a     *)
(* tick makes everything older, up to an age past which nothing changes.   *)
(***************************************************************************)
EXTENDS Naturals, FiniteSets

CONSTANTS
    Reader,          \* clients that ask for the course
    Batch,           \* runs of the batch updater; one that is a Reader too is either at a time
    Version,         \* the timetables the course may have
    THREAD_COUNT,
    Day,             \* 24 hours in ticks
    HasTimestamp,    \* whether the Timestamp table holds a row, a subset of BOOLEAN
    ScrapeMayFail    \* whether the site, the parsing or the PUT may fail

Absent == "absent"          \* the course is not offered: no timetable, or a stub
Content == Version \cup {Absent}

ASSUME CacheAssumption ==
    /\ {Absent, "none", "error"} \cap Version = {}
    /\ THREAD_COUNT \in Nat \ {0}
    /\ Day \in Nat \ {0}
    /\ HasTimestamp \subseteq BOOLEAN
    /\ ScrapeMayFail \in BOOLEAN

Process == Reader \cup Batch         \* whoever may be at work on the course
Oldest == 2 * Day + 2                 \* bound: ages are not told apart beyond it
Age == 0..Oldest
older(age) == IF age = Oldest THEN Oldest ELSE age + 1

NoRow == [sections |-> "none", age |-> Oldest]
NoTimestamp == Oldest + 1

VARIABLES
    row,             \* the Timetable row: its sections and the age of date_updated
    timestamp,       \* the age of the fullscrape Timestamp row
    offered,         \* what the university's site says
    lastOffered,     \* history: how long ago each content was what the site says
    updateFailed,    \* history: an update has failed
    doing,           \* the step a process is at
    inRequest,       \* the process is a request to the service, not a batch
    ticked,          \* a tick has passed since the process began
    missing,         \* the row was missing when the process looked
    toSend,          \* what the updater is about to send
    body             \* the body of the response sent in this step, if any

siteVars == <<offered, lastOffered>>
local == <<doing, inRequest, ticked, missing, toSend>>
vars == <<row, timestamp, siteVars, updateFailed, local, body>>

CacheInit ==
    /\ row = NoRow
    /\ timestamp \in {IF has THEN 0 ELSE NoTimestamp : has \in HasTimestamp}
    /\ offered \in Content
    /\ lastOffered = [c \in Content |-> IF c = offered THEN 0 ELSE Oldest]
    /\ updateFailed = FALSE
    /\ doing = [p \in Process |-> "idle"]
    /\ inRequest = [p \in Process |-> FALSE]
    /\ ticked = [p \in Process |-> FALSE]
    /\ missing = [p \in Process |-> FALSE]
    /\ toSend = [p \in Process |-> Absent]
    /\ body = "none"

-----------------------------------------------------------------------------
(* Helpers                                                                 *)

\* Threads a process occupies: its own request and the PUT being served for it.
ownThread(p) == inRequest[p] /\ doing[p] # "connecting"
putThread(p) == doing[p] \in {"putLook", "putCreate", "putSave"}
\* Mutation: one thread is never used.
threadIsFree_Reserve ==
    Cardinality({p \in Process : ownThread(p)}) + Cardinality({p \in Process : putThread(p)})
        < THREAD_COUNT - 1

threadIsFree ==
    Cardinality({p \in Process : ownThread(p)}) + Cardinality({p \in Process : putThread(p)})
        < THREAD_COUNT

\* Mutation: without a Timestamp row two days count as recent.
fullscrapeAge_TwoDays == 2 * Day

\* The age of get_fullscrape_timestamp: without a row 24 hours, with one at most 48.
fullscrapeAge ==
    IF timestamp = NoTimestamp THEN Day
    ELSE IF timestamp <= 2 * Day THEN timestamp ELSE 2 * Day
\* Mutation: whatever is in the table is recent.
timetable_is_recent_Always == TRUE

timetable_is_recent == row.age <= fullscrapeAge

\* Timetable.save() stamps the row.
saveRow(content) == row' = [sections |-> content, age |-> 0]

\* The process goes on with the given step, or is through and forgets everything.
goto(p, step) == doing' = [doing EXCEPT ![p] = step] /\ body' = "none"
forget(p) ==
    /\ doing' = [doing EXCEPT ![p] = "idle"]
    /\ inRequest' = [inRequest EXCEPT ![p] = FALSE]
    /\ ticked' = [ticked EXCEPT ![p] = FALSE]
    /\ missing' = [missing EXCEPT ![p] = FALSE]
    /\ toSend' = [toSend EXCEPT ![p] = Absent]
respondWith(r, what) == forget(r) /\ body' = what

-----------------------------------------------------------------------------
(* TimetableViewSet.list of a specific course in an available term          *)

request(r) ==
    /\ doing[r] = "idle"
    /\ goto(r, "connecting")
    /\ inRequest' = [inRequest EXCEPT ![r] = TRUE]
    /\ UNCHANGED <<row, timestamp, updateFailed, siteVars, ticked, missing, toSend>>

accept(r) ==
    /\ doing[r] = "connecting"
    /\ threadIsFree
    /\ goto(r, "look")
    /\ UNCHANGED <<row, timestamp, updateFailed, siteVars, inRequest, ticked, missing, toSend>>

\* A recent row is the answer; a missing or an old one calls the updater.
look(r) ==
    /\ doing[r] = "look"
    /\ IF row # NoRow /\ timetable_is_recent
       THEN respondWith(r, row.sections)
       ELSE /\ goto(r, "scrape")
            /\ missing' = [missing EXCEPT ![r] = (row = NoRow)]
            /\ UNCHANGED <<inRequest, ticked, toSend>>
    /\ UNCHANGED <<row, timestamp, updateFailed, siteVars>>

\* After an update that raised nothing: a row that was missing before is returned as it
\* is, one that was old must be recent now, else a stub is put.
lookAgain(r) ==
    /\ doing[r] = "again"
    /\ IF row # NoRow /\ (missing[r] \/ timetable_is_recent)
       THEN respondWith(r, row.sections)
       ELSE IF row = NoRow /\ ~missing[r]
            THEN respondWith(r, Absent)
            ELSE goto(r, "stub") /\ UNCHANGED <<inRequest, ticked, missing, toSend>>
    /\ UNCHANGED <<row, timestamp, updateFailed, siteVars>>

\* put_timetable_stub: empty the row there is, or create one.
stub(r) ==
    /\ doing[r] = "stub"
    /\ missing' = [missing EXCEPT ![r] = (row = NoRow)]
    /\ goto(r, "stubSave")
    /\ UNCHANGED <<row, timestamp, updateFailed, siteVars, inRequest, ticked, toSend>>

\* update_or_create matches a row by its empty sections too: against one that has been
\* filled meanwhile it tries to create a second and fails on the uniqueness constraint.
stubSave(r) ==
    /\ doing[r] = "stubSave"
    /\ IF missing[r] /\ row # NoRow /\ row.sections # Absent
       THEN respondWith(r, "error") /\ UNCHANGED row
       ELSE respondWith(r, Absent) /\ saveRow(Absent)
    /\ UNCHANGED <<timestamp, updateFailed, siteVars>>

-----------------------------------------------------------------------------
(* The updater                                                             *)

\* After the updater comes the second look of the request, or nothing for a batch.
return(p) ==
    IF inRequest[p]
    THEN goto(p, "again") /\ UNCHANGED <<inRequest, ticked, missing, toSend>>
    ELSE respondWith(p, "none")

\* A batch starts with update_timestamp, which raises before it sends anything
\* (self.config.timetamp) and swallows the exception.
startFullscrape(b) ==
    /\ doing[b] = "idle"
    /\ goto(b, "scrape")
    /\ UNCHANGED <<row, timestamp, updateFailed, siteVars, inRequest, ticked, missing, toSend>>

\* scrape_timetables: a course that is not offered yields nothing to send.
scrape(p) ==
    /\ doing[p] = "scrape"
    /\ IF offered = Absent
       THEN return(p)
       ELSE /\ toSend' = [toSend EXCEPT ![p] = offered]
            /\ goto(p, "send")
            /\ UNCHANGED <<inRequest, ticked, missing>>
    /\ UNCHANGED <<row, timestamp, updateFailed, siteVars>>

\* iter_wrap and send_timetable_to_da swallow their exceptions: nothing is sent.
updateFails(p) ==
    /\ ScrapeMayFail
    /\ doing[p] \in {"scrape", "send"}
    /\ return(p)
    /\ updateFailed' = TRUE
    /\ UNCHANGED <<row, timestamp, siteVars>>

\* normalize_course raises: update_timetables returns False and the answer is a 404.
updateRaises(p) ==
    /\ ScrapeMayFail
    /\ doing[p] = "scrape"
    /\ respondWith(p, IF inRequest[p] THEN Absent ELSE "none")
    /\ updateFailed' = TRUE
    /\ UNCHANGED <<row, timestamp, siteVars>>

\* The service takes the PUT as soon as it has a thread for it.
send(p) ==
    /\ doing[p] = "send"
    /\ threadIsFree
    /\ goto(p, "putLook")
    /\ UNCHANGED <<row, timestamp, updateFailed, siteVars, inRequest, ticked, missing, toSend>>

\* TimetableViewSet.put: look for the row, then create or overwrite it.
putLook(p) ==
    /\ doing[p] = "putLook"
    /\ goto(p, IF row = NoRow THEN "putCreate" ELSE "putSave")
    /\ UNCHANGED <<row, timestamp, updateFailed, siteVars, inRequest, ticked, missing, toSend>>

\* A create that finds a row by now is refused, which the updater only logs.
putCreate(p) ==
    /\ doing[p] = "putCreate"
    /\ IF row = NoRow THEN saveRow(toSend[p]) ELSE UNCHANGED row
    /\ return(p)
    /\ UNCHANGED <<timestamp, updateFailed, siteVars>>

putSave(p) ==
    /\ doing[p] = "putSave"
    /\ saveRow(toSend[p])
    /\ return(p)
    /\ UNCHANGED <<timestamp, updateFailed, siteVars>>

-----------------------------------------------------------------------------
(* The world                                                               *)

\* The university changes the course.
change ==
    /\ \E c \in Content \ {offered} :
        /\ offered' = c
        /\ lastOffered' = [lastOffered EXCEPT ![c] = 0]
    /\ body' = "none"
    /\ UNCHANGED <<row, timestamp, updateFailed, local>>

\* A request or a batch takes well under a tick for one course, so it sees one at most.
tick ==
    /\ \A p \in Process : ~ticked[p]
    /\ ticked' = [p \in Process |-> doing[p] # "idle"]
    /\ row' = [row EXCEPT !.age = older(@)]
    /\ timestamp' = IF timestamp = NoTimestamp THEN NoTimestamp ELSE older(timestamp)
    /\ lastOffered' = [c \in Content |-> IF c = offered THEN 0 ELSE older(lastOffered[c])]
    /\ body' = "none"
    /\ UNCHANGED <<updateFailed, offered, doing, inRequest, missing, toSend>>

Serve(r) == accept(r) \/ look(r) \/ lookAgain(r) \/ stub(r) \/ stubSave(r)
Update(p) == scrape(p) \/ updateFails(p) \/ updateRaises(p) \/ send(p)
                \/ putLook(p) \/ putCreate(p) \/ putSave(p)

CacheNext ==
    \/ \E r \in Reader : request(r) \/ Serve(r)
    \/ \E b \in Batch : startFullscrape(b)
    \/ \E p \in Process : Update(p)
    \/ change
    \/ tick

CacheSpec == CacheInit /\ [][CacheNext]_vars

\* The service serves what it has accepted, and in the end a waiting connection; the
\* scraper and the PUT end.  Clients, batches and the university owe nothing.
Fairness ==
    /\ \A r \in Reader : WF_vars(Serve(r) /\ doing[r] # "connecting") /\ SF_vars(accept(r))
    /\ \A p \in Process : WF_vars(Update(p) /\ doing[p] # "send") /\ SF_vars(send(p))
FairSpec == CacheSpec /\ Fairness

-----------------------------------------------------------------------------
(* Properties                                                              *)

\* How old an answer may be: what get_fullscrape_timestamp allows (views.py:171-183), a
\* tick between the scrape and the stamp.
MaxAge == 1 + IF timestamp = NoTimestamp THEN Day ELSE 2 * Day

\* Until an update fails every answer, a 404 included, is what the site said at most a
\* day ago (two days with a Timestamp row), whatever the readers and batches did to the
\* row in between and in whichever order their writes arrived.
AnswersAreFresh ==
    ~updateFailed /\ body \in Content => lastOffered[body] <= MaxAge

\* Failing scrapes and PUTs never make the service hand out an outdated timetable.
TimetablesAreFresh == body \in Version => lastOffered[body] <= MaxAge

\* Every request for the course gets an answer: with a thread to spare for a PUT, requests
\* that wait for their updaters cannot keep each other waiting for ever.
EveryRequestIsAnswered == \A r \in Reader : doing[r] = "connecting" ~> doing[r] = "idle"

\* "Call the updater on this course and then check again" (views.py:262-264): a request
\* whose updater has something to send comes to its second look.
UpdaterReturns == \A r \in Reader : doing[r] = "send" ~> doing[r] \in {"again", "idle"}
====
