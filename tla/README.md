# uSchedule, specified in TLA+

uSchedule lets students search for timetables and keep them in a planner.  This directory
holds TLA+ models of the parts of it whose behaviour is hard to test, the TLC
configurations that check them on small instances, and proofs, checked by TLAPS, that
hold for every instance.  `PROJECT.json` lists every run, the source lines every
definition stands for, the hazards of the code with the properties that guard against
them, and for every checked property a mutation of the code's logic that breaks it (the
operators with a suffix, `X_Bug`, that stand before `X`).

Paths below are relative to the repository's source root: `scheduler/`, `data_access/`,
`updater/`, `webapp/`, `notifier/`.

## 1. The system

| Component | State it keeps | Operations | Talks to |
|---|---|---|---|
| Worker pool (`scheduler/src/utils/worker_pool`) | map of workers, map of active workers, job queue, listeners on each worker | `run`, `closePool`, listeners for `message`, `messageerror`, `error` | route handlers call `run`; threads run `workers/main_pool.ts` |
| Schedule generator (`scheduler/src/modules/schedule_generator`, copied in `webapp/src/modules`) | stack of partial schedules, complete schedules, the best cost | `generateSchedules`, `limitWasReached` | a pool thread, or a worker of the browser |
| First generator (`scheduler/src/schedules`, `scheduler/src/courses`) | queue of partial schedules | `generate`, `getResult` | a pool thread; every expansion of a saved schedule |
| Schedule services (`scheduler/src/services`, `route_handlers`, `webapp/src/services`) | none | generate (two versions and the browser's own), save, expand | data access; the pool |
| Schedule download (`scheduler/src/schedules/download.ts`, `services/ScheduleDownload`) | none | a calendar file by query, in two versions | data access, or the local database |
| Sign-in and tokens (`scheduler/src/route_handlers/auth.ts`, `utils/tokens`, `id_providers`; `webapp/src/stores/UserStore`) | none on the server: two cookies; what each tab knows of the user | sign in, identify, refresh, sign out | data access |
| Users and accounts (`data_access/`) | users, identities, e-mail addresses | look up, create row by row, delete | the scheduler |
| Schedules, calendars, shares (`data_access/`) | rows of schedules, calendars, their components, shares | REST viewsets | the scheduler |
| Timetable cache (`data_access/`) | timetable rows, time stamps | list, PUT, stub | runs the updater inside a request |
| Available terms (`data_access/`, `updater/`) | the table of terms | PUT; retrieve, scrape what is new | updater |
| Batch updater (`updater/`) | what is left to search, messages | scrape a term in rounds, normalise, PUT, mail | the university's site; data access; notifier |
| Notifier (`notifier/`) | none | post to a webhook | Discord |
| Builder page (`webapp/src/components/Scheduler`, `stores/ScheduleBuilderStore`, `hooks/useAsync.ts`) | courses by term, filters, settings, schedule sets of earlier visits, pending requests | look up, configure, generate, generate with conflicts | scheduler, workers of the browser |
| Pages of a user (`webapp/src/components/Users`, `ShareSheet`) | lists of drafts, calendar and friends; selections; pending requests | move, deny, delete, share, remove | scheduler, data access |
| Catalogue and accreditation (`data_access/`) | read-mostly tables | generic viewsets | none |

What makes the system hard:

* **Threads beside an event loop.** The pool's bookkeeping runs in atomic handlers, but
  threads fail in four ways (they throw, cannot be loaded, run out of memory, or send what
  cannot be deserialised), at any point, and the handlers must pick up the queue from each.
* **Requests that interleave statement by statement.** The data access service runs one
  process with `THREAD_COUNT` threads (`data_access/config/startup.sh:20`) and opens no
  transactions, so every database statement commits by itself.
* **A service that calls itself.** A request for a course that is missing or old runs the
  updater inside its own thread; the updater sends what it found to the same service,
  without a time limit, and needs a second thread there.
* **Failures that are swallowed.** The updater logs and passes over failed scrapes and
  PUTs, so its caller cannot tell "failed" from "not offered", and only its mails say what
  was lost.
* **Searches with several cut-offs at once**: pruning against the best so far, a limit on
  the number of schedules, a clock, and filters checked as courses are added.
* **Two versions of almost everything.** Two generators (the second twice), two readers of
  the timetables, two downloads; a schedule made on one path is opened on the other, by
  ids that the updater counts anew at every scrape.
* **Answers out of order and shared state in the browser.** Tabs share cookies and answers
  write them when they arrive; pages update their lists from what they knew at the click;
  courses are objects that lists, stores and running requests share and change in place.

What makes each component correct:

* Worker pool: every call of `run()` is answered, once, with its own output, in FIFO order,
  and no failure of a thread loses a job or shrinks the pool.
* Generators: the acceptable schedules with the least cost, all of them unless the answer
  says it was cut off; both versions offer the same weeks.
* Schedule services: no course is passed over in silence; what is drawn was found; what is
  saved is shown again.
* Schedules: a schedule and its courses move together; nobody else's term is touched; what
  the endpoints promise is a planner with one place per schedule.
* Timetable cache: an answer is no older than the recency rule allows; every request is
  answered.
* Updater: the table of terms is what was sent, what came in is scraped, what was lost was
  told, and a component saved under an id means the same meeting after the next scrape.
* Sign-in: who signs in ends in the own account; the two cookies speak for one user; a
  sign-out lasts.
* Builder: what is shown was generated from what is set; nothing loads for ever.
* Pages: with nothing under way they show what is stored.

## 2. Modules

| Module | Models | Extends |
|---|---|---|
| `WorkerPool` | `WorkerPool.ts`, with the threads of `main_pool.ts` | |
| `JobService` | what the pool promises: a work-conserving FIFO service | |
| `CourseConfigurations` | `Course`, `CourseSection`, `ScheduleComponent`: what a course offers the search; the search for a break, which both versions make alike | |
| `ScheduleGenerator` | `ScheduleGenerator.ts` and `Schedule.ts` | `CourseConfigurations` |
| `FirstGenerator` | `Generator.ts` with its `CourseSchedule` and `Course` | `CourseConfigurations` |
| `ScheduleRequests` | a request through the services, the client, the store and back | `ScheduleGenerator`; an instance of `FirstGenerator` |
| `Planner` | what the schedule endpoints promise: a place per schedule, moved in one step | |
| `CalendarStore` | `ScheduleSerializer` with `Calendar`, `CalendarComponents` and `Schedule` | |
| `CalendarHistory` | the same, with a memory of overlapping requests and of those that failed half-way | `CalendarStore`; an instance of `Planner` |
| `CalendarShares` | shares in data access and the share sheet | |
| `SchedulePages` | the pages of drafts and calendar | `CalendarShares` |
| `TimetableCache` | `TimetableViewSet.list` and `put` with the updater for one course and the thread pool both need | |
| `AvailableTerms` | `AvailableTermsBackendViewSet.put` with its updater | |
| `CourseTimetables` | a section from the site to the page: normalised, read in two ways, drawn | |
| `Downloads` | the calendar file in two versions, with the HTTP client between the services | `CourseTimetables` |
| `Notifier` | the post to the webhook and what its failures become | |
| `TimetableUpdater` | `TimetableUpdater`, `iter_wrap`, the mails, and students who save components | `AvailableTerms`, `Downloads`, `Notifier` |
| `Accounts` | accounts in data access and the logins that look them up or create them | |
| `SignIn` | cookies, tokens, tabs | `Accounts` |
| `ScheduleBuilder` | the builder page, its store, `useAsync`, the workers of the browser | |
| `WorkerPoolProofs`, `CalendarStoreProofs`, `SignInProofs`, `ScheduleBuilderProofs`, `SchedulePagesProofs` | theorems | the module they are about |
| `TimetableProofs` | theorems about the cache and the updater | `TimetableCache`, `TimetableUpdater` |
| `ScheduleGeneratorProofs` | theorems about version 2 and its answer | `ScheduleRequests` |
| `FirstGeneratorProofs` | theorems about version 1, about expansions, and that the versions agree | `ScheduleGeneratorProofs` |
| `MC...` | instances for TLC: catalogues, symmetry, bounds | |

### WorkerPool

A call of `run()` and the delivery of one worker event are atomic (`run`, `onMessage`,
`onMessageError`, `onError`, `onOutOfMemory`, `closePool`); the threads take steps of their
own between them (`threadOnline`, `threadAnswers`, and the failures).  `workers`,
`active_workers` and `job_queue` are the fields of the class; `listeners` says for which job
a once-listener is attached to which event of a worker.  `removeWorker` and
`active_workers.set` use `worker.threadId`, which is -1 as soon as the handle of a thread
is gone: `threadId(w)` reproduces this, so a pool may mark "-1" as active.  What Node does
(it drains the ports before it drops the handle, an `error` event without a listener ends
the process, a post to an exited thread is lost) is external and described where it is used.

`onError` and `onOutOfMemory` carry the guard `spawned < MaxThreads`, which is always true:
each uses up one of the `MaxFaults` failures.

`JobService` may take any step until `closePool()`, which promises nothing: the refinement
is stated as `Service!Init /\ [][closed \/ Service!Next]`.

### CourseConfigurations, ScheduleGenerator, FirstGenerator, ScheduleRequests

One step of the generator expands one partial schedule with one configuration of its next
course (`tryConfiguration`) or leaves the course out (`pop`).  The order in which
configurations are tried is left open: the properties hold for all of them.  `acceptable`,
`Candidates` and `BestCandidates` are the reference: choices over all courses, filtered by
what the filters are documented to mean, not by how the search checks them.

The first generator is a breadth-first search whose step is one turn of its queue loop; it
reads the clock once per turn, so it may stop at every turn (`timeOut`).

`ScheduleRequests` starts a request with a list of courses, of which data access may fail to
deliver some, and puts it to the second generator; it is answered by the service (with
messages about lost courses) or, where the browser has the same courses loaded, by its own
worker.  Then the same request goes to version 1, or the client draws one of the schedules,
swaps alternates, saves, and opens the schedule again, for which the first generator runs on
the saved components of a timetable that may have changed meanwhile.

### Planner, CalendarStore and CalendarHistory

A request is a sequence of statements, each an action on `row` (the calendar a Schedule row
points at) and `components` (the calendar its courses point at).  What a request has read
is kept in `req[r]` until it is used, so the stale calendar `save()` writes back is in the
model.  A schedule's courses move as one, since no statement of the code separates the
courses of one schedule; `sameTerm` is the filter of the UPDATE, `clash` the uniqueness
constraint, which ignores the year.

`CalendarHistory` adds two history variables, which no step of the store reads: `overlapped`
has the terms of which a request came while another was under way, `torn` the schedules
that a failed request left with their courses in one calendar and their row in another.  A
schedule is `Settled` when it is not torn, its term is not in `overlapped`, and nothing about
its term is under way.

The store implements `Planner` for every term that is not in `overlapped`, with the requests
of other terms going on at the same time: a schedule is where its row says, except that the
one making room counts as in the calendar until the newcomer is there.  A refused request
and one that dies map to steps of the planner too, as what made room is a draft by then.
When the requests of a term overlap, its schedules leave the planner (`Hurry`).

### CalendarShares and SchedulePages

Each page asks for its lists once and then applies its own requests to them.  A handler is
an action at the click, which notes what the page knew then, and an action at the answer.
Requests are served one at a time in any order, as `Planner` says (with nothing in
`hurried`); what happens to rows when data access works on several at once is the subject of
`CalendarStore`.  Another tab may
change rows (`disturbed`), an answer may be lost or late, a page may be left, and a PATCH may
succeed and fail to expand its row (`unreadable`).  The share sheet mounts when the calendar
page has loaded; a click adds to the list it was rendered with.  A removal whose sheet is gone
(`removalsLeft`) is still served, and the next sheet lets another one through meanwhile.

### TimetableCache

One course.  The code compares Unix times with the clock, so a state keeps ages and `tick`
makes everything older; beyond `Oldest` nothing changes any more, so no bound on time is
needed.  `Day` is 24 hours in ticks.  A process that is under way sees one tick at most (a
scrape takes minutes, not half a day).  `accept` and `send` take one of `THREAD_COUNT`
threads; the thread of a request is held until the response.  `doing` is the place of a
process in the handlers, `body` what it responds; `lastOffered` and `updateFailed`
are histories, which only properties read.

### AvailableTerms, TimetableUpdater, Notifier

The PUT's two loops row by row, with a reader able to look in between and a failure possible
at every point (`fail`).  `isIn` is what `__eq__` computes: it compares two bound methods
(`models.py:289-292`), which are equal only for the very same object, so every PUT deletes
and adds every term again.

The updater scrapes the new terms one after the other, or one term by hand.  A search of a
round is answered by the scraper (`uoapi`, external) with courses and perhaps a message, of
too many results or of an error; or the scraper throws and ends the round (`iter_wrap`).
Data access may refuse any course.  The assumptions about the scraper are named where they
are used: its message names subject and level (one that does not is dropped without a word,
`timetables.py:196-214`); the two halves of a level cover it and may
overlap; each loss is reported.  The subjects are one, with one level.  A mail per term goes
to the notifier (`Notifier`), which answers 500 whatever goes wrong with the webhook; the
mail may have arrived all the same.  Unconfirmed messages are kept for the next term's mail
and are gone when the updater ends.

### CourseTimetables and Downloads

A slot of a section is a label, a type and a place in the order the updater sorts in; dates
are numbers, multiples of seven are Sundays, and a slot may be on no day of the week.  The
updater counts the slots of a type and id in that order; the reader of data access and the
reader of the scheduler turn them into components with ids in two different ways; a schedule
stores ids.  `drawnAt` is where the grid puts an id, `downloadSchedule` which events its
calendar file has.

### Accounts and SignIn

A login is a request of the scheduler that asks data access for the account of the identity,
then for one with the same address, and posts a new one, whose rows are inserted one by one.
The scheduler keeps no sessions: an action that sends a request computes its answer from the
cookies as they are then, another one delivers it and writes the cookies.  `ended`,
`overlapped` and `signedInAs` are histories.  The middleware throws before the handler of
`refresh_get`, so the code there that clears the cookies is never reached.

### ScheduleBuilder

The tabs with the options and the schedules unmount when left, the tab with the courses
stays.  Requests to the worker of one term are answered in order, those to the server in any;
answers that come after the tab was left still go to the store.  A course is an object shared
by list, store and requests: `config` is its one configuration, and what `memoizeState`
remembers are the signatures at the moment it runs.

## 3. Runs

| Run | Checks | Instance | Distinct states |
|---|---|---|---|
| `Pool` | type, `NoIdleWhileQueued`, `NoLostJob`, `OwnAnswer`, `WorkersAreAccountedFor`, refinement of `JobService`, `EveryJobIsAnswered` | 4 jobs, 2 workers, 2 failures of all four kinds, `closePool` at any time | 137 000 |
| `Search` | `KeptAreAcceptable`, `AnswerIsComplete`, `NothingBetterIsLost`, `EveryCourseIsAccountedFor`, `FirstResultIsComplete`, `SameAnswer`, `DrawnAsFound`, `SavedIsShownAgain`, `RequestsEnd` | 10 requests of up to 3 courses out of 9, each of which may fail to load, 6 filters, 3 limits, two timetables, the clock may stop the first generator | 218 000 |
| `SwapShown` | `GridShowsSchedule`: violated | the same with one limit | |
| `CalendarConcurrent` | `DraftsAreAlone`, `CoursesAreStored`, `CoursesStayTogether`, `ShowsItsOwnCourses`, `OtherTermsUntouched`, refinement of `Planner` | 2 requests that may overlap, 3 schedules, one season in 2 years, 4 creations and patches, deletions, crashes | 402 000 |
| `CalendarMoves` | `MovesWithItsCourses`: violated | one request at a time, no crashes | |
| `Cache` | `AnswersAreFresh`, `TimetablesAreFresh`, `EveryRequestIsAnswered` | 2 requests at a time, one of which may be a batch, with and without a time stamp, 3 threads, failures | 273 000 |
| `CacheThreads` | `UpdaterReturns`: violated | 2 requests, 2 threads | |
| `Terms` | `ReplacesAll`, `AddedAreScraped`, `EveryLossIsTold`, `SavedMeansTheSame` | 2 terms with 2 courses in 2 halves, 2 rounds, failures anywhere, sections of up to 3 slots out of 5 | 343 000 |
| `SignIn` | `SignedInToOwnAccount`, `AccountsAreWhole`, `OneUserPerBrowser`, `SignOutLasts` | 2 tabs, 3 identities of 2 addresses, 2 logins, lost answers, expiry, deletions | 3 905 000 |
| `Builder` | `CoursesInTheirTerm`, `ShownIsCurrent`, `OverridesAreMarked`, `LoadingEnds` | a course in each of 2 terms, 2 filters, 2 visits, 2 changes | 149 000 |
| `BuilderReuse` | `ReusedIsCurrent`: violated | the same | |
| `Pages` | `PageShowsStored`, `SelectedDraftExists`, `ShareSheetShowsAccess` | 2 terms, 3 schedules, 1 left behind, 2 friends, 2 clicks | 633 000 |

`Cache`, `Terms`, `SignIn`, `Builder` and `Pages` also check that the system never comes to a
stand (`Builder`, `Pages` and `SignIn` because a page can always be left or opened again).
The other systems do stop, when all jobs are answered, the search is over or the requests of
a model are used up.

What the properties are about and where they stop is said at each of them.  Several have a
premise that a history variable records; each premise names a case the code does get wrong
or does not decide, and the runs contain those cases:

* `AnswersAreFresh` and `AddedAreScraped` hold until an update fails (`updateFailed`,
  `failed`).  After a failure a stub may cover a course that is offered, and a term may stay without its
  scrape; `TimetablesAreFresh` holds even then.
* `EveryLossIsTold` needs the last mail to have got through (`mailLost`): what the last mail
  of an updater says is not said again.
* `SavedMeansTheSame` speaks of components whose own slots are unchanged; everything else in
  the section may change.
* `CoursesStayTogether` and `ShowsItsOwnCourses` are about settled schedules, and
  `ImplementsPlanner` about terms whose requests did not overlap (`overlapped`).  Overlapping
  requests can separate the schedules of their term from their courses; a request that fails
  half-way separates the one it was moving (`torn`), which `CalendarMoves` shows.  The
  properties say that nothing else suffers.
* `AccountsAreWhole` needs logins with one address not to overlap (`overlapped`):
  `SignedInToOwnAccount` holds all the same.
* `OneUserPerBrowser` and `SignOutLasts` leave out answers that were on their way when
  another login or sign-out arrived (`ended = "mixed"`).
* `ShownIsCurrent` needs every generation to have been waited for and to have found
  something (`disturbed`); `BuilderReuse` shows what happens otherwise.
* `PageShowsStored` and `SelectedDraftExists` leave out changes from elsewhere (`disturbed`)
  and drafts moved before the calendar had come (`early`); `ShareSheetShowsAccess` leaves out requests about a friend
  that overlap with the list or with one about another friend (`unsettled`).
* `KeptAreAcceptable`, `AnswerIsComplete` and `SameAnswer` need the break filter to be exact
  (`Exact`): no breaks are asked for, or no two components may overlap and each takes some
  time.  Otherwise a component may lie inside another one, and the search judges the time
  after it wrongly.  `NothingBetterIsLost` holds without: no schedule that has its breaks is
  ever taken to have none.
* `SameAnswer` compares where the two versions mean the same (`Comparable`): no course is
  asked for twice, no empty section stands before another, and no section has two lectures
  at one time.  Section 4 says what each version does with these.  The last was found by the
  proof; the run has such a section, and without the clause TLC finds weeks that one
  version alone offers.

### Bounds, and why they are enough

* `Pool`: with two workers and four jobs two jobs wait, so their order shows, and both
  workers can fail while both jobs wait.  Two failures reach a failure of a replacement and
  a failure of each worker.  Jobs are submitted in their numbers' order
  (`SubmittedInOrder`), which loses nothing up to renaming of jobs.
* `Search`: courses with several sections, alternates, closed and unscheduled components,
  overlaps, nested components, two lectures at one time, an optional course, a course asked for twice, one without
  configurations and one with an empty section; limits below and above the number of
  results; filters with either time bound, both, a break, and all three conflict rules.
* `CalendarConcurrent`: `MaxRequests` creations and patches (deletions do not count).  A
  conflict of two requests takes one to set up and two to overlap, and a fourth can find
  what they left.  With one season the two years are the two terms that share a place under
  `unique_together`; terms of two seasons never meet in a statement but a look-up by both.
* `Cache`: two processes at a time, each client starting over for ever.  `THREAD_COUNT` is 3,
  one more than the requests that can need one; `CacheThreads` has 2.
* `Terms`: two terms give one that goes and comes back while another is scraped; two courses
  give a search that finds some and not all.  `AtRest` keeps sections from changing and from
  being saved while a scrape meets trouble: what a row holds depends on the last section
  that was sent, not on how.  `OneSaved` and `FewLosses` bound histories, `OneChange` and
  `AnnouncedAtRest` leave out changes nobody reads in between.
* `SignIn`: two tabs, an identity of each kind, two logins one after the other or at once.
  `LoginsFirst` holds the pages still while a login is inside data access: its steps touch
  rows that no page or token knows of.  `maxLoadAttempts` is 2 and not 3: one repetition.
* `Builder`: two terms tell a term's own set from another one's; two visits and two changes
  reach a set kept, changed, and shown again.
* `Pages`: two drafts of one term and one of another reach every form of moving and deleting;
  `SheetApart` works with the share sheet before the first schedule is saved, as the two
  share no state but the page.

### Fairness

* `Pool`: the event loop delivers what is on its ports and takes note of threads that have
  exited; a thread comes online and finishes its job (the generators stop at their limits).
  Callers, `closePool` and failures are not fair.
* `Search`: the loops of the two generators take their steps, and a finished one is answered.
  Clients are not fair.
* `Cache`, `CacheThreads`: a served request and a running scrape take their steps;
  a waiting connection or PUT is taken by gunicorn if there is a free thread again and
  again, hence strong fairness of `accept` and `send`.  The PUT has no time limit in
  `updater/timetables.py`, so there is no action that gives up on it.
  Clients, batches and the university are not fair.
* `Builder`: the service tells the terms, and the oldest request that is under way is
  answered, if with a failure.  The user is not fair.

## 4. What the code does otherwise than it says

Shown by the runs that expect a violation:

* `SwapShown`: `swapComponents` replaces the component in `components` and leaves
  `components_per_day`, from which the grid draws (`webapp/src/models/CourseSchedule.ts:99`).
  After another schedule or tab was opened the old component is drawn again, the new one is
  saved.
* `BuilderReuse`: `memoizeState` takes the signatures of all courses as they are when an
  answer arrives (`TermSchedule.tsx:135`).  A course switched while its schedules were being
  generated counts as unchanged, and the set from before is shown.
* `CalendarMoves`: a calendar may hold one schedule of a season, whatever the year
  (`models.py:179`), but the schedule that makes room is looked up by season and year
  (`serializers.py:336`).  So a draft of the second year is moved by its courses only: its row
  is refused, and nothing takes the courses back.
* `CacheThreads`: `THREAD_COUNT` requests that run the updater at a time wait for PUTs that
  no thread is left to serve.  One thread more than there are such requests is enough,
  which is what `Cache` shows.

Seen in the code without a run of their own.  Most are contained in the models and are why a
property has its premise:

* Worker pool: a worker that ran out of memory stays in the map of workers, since
  `removeWorker` (`WorkerPool.ts:171`) looks for the id -1; it stays marked as active, and
  `WorkersAreAccountedFor` counts it out.  `closePool` leaves jobs unsettled.
* Generators: the break filter visits components by their start and takes the end of the last
  one visited; inside a longer component that end is too early (`Schedule.ts:179`),
  and a schedule without the break is offered.  Version 2 asks for the breaks with every
  course, version 1 of the whole schedule only.
  `limitWasReached()` compares what the final filter has left with the limit
  (`ScheduleGenerator.ts:67`), so a search that was cut off may report that it was not.
  `getConfigurations` leaves its loop at the first section without components
  (`Course.ts:130`), where version 1 goes on.  Two lectures of one section in one slot
  conflict in version 1 and are alternates in version 2.  Version 1 merges courses asked for
  twice, version 2 does not.  Without courses version 1 answers SCHED_2001, version 2
  SCHED_2003, and version 1 drops the messages about courses that failed.
* Schedules: the courses of a schedule whose insert is refused, and those of a schedule that
  was deleted, stay in the calendar, and the next schedule of that term shows them as its
  own.  Overlapping requests can separate the schedules of their term from their courses, and
  save a schedule again that was deleted meanwhile.
* Timetable cache: a scrape that failed is taken for a course that is not offered, and a stub
  replaces its timetable until that is old again.
* Updater: `update_timestamp` reads `self.config.timetamp` (`timetables.py:329`) and swallows
  the exception, so the row that says when the last full scrape began is never written.  The
  `finally` of `AvailableTermsUpdater.update` hands `{}` to `scrape_new` after a failure,
  which is a KeyError.  A scrape of some subjects without a problem discards its messages of
  leftover searches and refused courses (`notify_maintainers(only_on_problems=True)`).
* Timetables: `getTimetableSummaries` compares the season as given, `getTimetableByUniqueProperties`
  in lower case.
* Downloads: an id that counts beyond its group is an IndexError, which `views.py:573` does not
  catch, so one stale component refuses the whole file.  A partial download (206) reaches the
  page as 200 without its messages.  `GET schedules/{id}/download` has no route in data access
  (`urls.py:41` has the POST only), and `DbScheduleService` joins on a table that is never in
  its FROM, so neither download by id answers.  Version 1 makes an event of a slot that is on
  no day of the week, version 3 leaves it out; version 3 widens the dates of everything but
  lectures, version 1 takes those of the first slot.  The two files begin on different days
  when the slot that sorts first is not the earliest (two labels that share what stands
  before the "-"), which is why `SavedMeansTheSame` is proved under `EarliestFirst`; the
  sections of the run are such (an `ASSUME` of `MCTimetableUpdater`).
* Sign-in: the code that clears the cookies when a refresh fails is never reached; `refresh()`
  of the page is false for any error, so an unavailable server signs the user out.
* Pages: every schedule that is loaded builds a `Term`, which starts a worker that nothing
  stops (`webapp/src/models/Term.ts:45`).  A draft moved to the calendar before the list of
  the calendar has come (`early`) is taken to find its place empty: the schedule it displaces
  is not put among the drafts, and where the list comes between the move and its answer the
  draft is listed twice.
* Local storage: the listener of `useSyncLocalStorage` writes what it has just been told
  (`useSyncLocalStorage.ts:60`).  When two tabs change a value at the same time each passes
  the other's value on, and they may go on for ever.

## 5. What is proved

The proofs assume only what the modules name: `PoolAssumption`, `StoreAssumption`,
`CacheAssumption`, `AccountsAssumption`, `UpdaterAssumption`, `SectionAssumption`, `BuilderAssumption`,
`SharesAssumption`, `PagesAssumption`, `GeneratorAssumption`, `RequestsAssumption` and
`GuidsAssumption`.  Most say that a bound is a number or that a name
for "none" is not taken; `UpdaterAssumption` adds that the two halves of a level cover it,
which is what the updater's ranges of course codes are for, and `BuilderAssumption` that
there are finitely many terms and each course is of one.  `RequestsAssumption` says that
requests and timetables are lists, sections finite sets of components with times that
are numbers, and ids unique within a timetable: a component's guid is made of its course's,
section's and its own id, which `CourseSectionComponent` calls globally unique, and the
lookups of the client (`getComponent`, `getSection`) rely on it.  `SectionAssumption` says that
the site lists finitely many slots in a section and none twice.  The theorems hold for any number
of jobs, workers, failures, requests, schedules, terms, courses, rounds, tabs, identities,
logins, friends, clicks, readers, batches, versions and threads, and for a day of any length
in ticks; those about the generator hold for any courses, filters and limits.  Every
inductive invariant was an invariant of a TLC run before it was proved, but for those of
the generators, which speak of all sequences: of them the runs check what follows.

**`WorkerPoolProofs!TypeCorrect`**: `Spec => []TypeOK`.  One lemma per helper (`runWorker`,
`runNextJob`, `settle`), then one step per action.

**`WorkerPoolProofs!QueueIsServed`**: `Spec => []NoIdleWhileQueued`.  The invariant is
inductive by itself.  The argument is the one a reader of `WorkerPool.ts` has to make:
whatever frees or replaces a worker calls `runNextJob` with it, and that marks it active
again if the queue is not empty (`RunNextJobServes`); `run()` queues a job only if no worker
is available, and if one is, then the queue was empty.  Note that it needs no type
invariant, so it holds whatever the id of a dead worker is.

**Jobs and workers** (`WorkerPoolProofs`): `NoJobLost` (`[]NoLostJob`), `OwnAnswers` (`[]OwnAnswer`) and
`AccountsKept` (`[]WorkersAreAccountedFor`).  None of the three is inductive.  `PoolInv` says

* of each thread (`ThreadInv`): one that is listened to has the job before it or its event on
  the port, never both; what is on the port is one event and is about the job listened for;
  a worker of the pool that has not exited is marked active just when it is listened to;
  one that has not been created is known to nobody;
* of the jobs (`JobInv`): a job is in one place, in the queue without duplicates or listened
  for on one worker, and a job that waits for its answer is in one;
* of a crash: the worker that caused it had failed with nobody listening.

`Places` states the second part of values rather than variables, so that a step which
settles a job, removes it from a worker, shifts the queue and listens for the next job is
the composition of lemmas (`JobSubmitted`, `JobQueued`, `JobShifted`, `JobListenedFor`,
`JobsSettled`), in the order in which the listeners of `WorkerPool.ts` do these things.
`NextJobKeeps` is `runNextJob` and is used by all three listeners.  `AccountsKept` adds
`PlacesKept`: the pool has `number_of_workers` live workers, as one that goes is replaced
in the same step (`OneForOne`).  Note what `PoolInv` has to say of a worker that ran out of
memory: it stays in the map under its old id, marked active for ever, and does not count.

**`WorkerPoolProofs!PoolImplementsService`**: `Spec => ImplementsJobService`.  The jobs
that run are those listened for on the active live workers, one on each
(`OneJobEach`, a bijection), so `run()` finds a worker exactly when the service has a free
place (`FreePlace`); a step that settles a job is `Finish` of the service
(`SettlingFinishes`), and every other step leaves the queue and the promises alone.

**`CalendarStoreProofs!TypeCorrect`**: `Spec => []TypeOK`.

**`CalendarStoreProofs!CoursesStored`**: `Spec => []CoursesAreStored`.  Not inductive by
itself: a request that has created the components, or found a schedule, will write a row
later.  `StoredInv` adds what each request under way holds (`HoldsStored`): the schedule it
writes last, and the one it moves out, have their courses stored, unless it still has to
create them.  No statement takes courses away (`StoredStays`).

**`CalendarStoreProofs!DraftsAlone`**: `Spec => []DraftsAreAlone`, for any number of
requests that overlap, save a calendar they read long ago, fail or die.  `Holds(s, d)` says
that schedule `s` is in draft `d` or that a request under way is going to put it there, be
it from a fresh draft or from a stale read.  `DraftInv` says that every draft is held by one
schedule at most, that the drafts of requests under way differ, and that nobody holds the
draft of a request that is still looking for the schedule to move.  Three lemmas cover the
steps: most give nothing new to hold (`NothingNewIsHeld`), a request begins with a draft
nobody holds (`NewDraftIsFree`), and `_prepare_calendar` gives it away once
(`FoundGetsDraft`).

**`CalendarStoreProofs!OtherTermsKept`**: `Spec => OtherTermsUntouched`, an action property.
The schedule that makes room was looked up by season and year (`TermsInv`), so each statement
writes rows of the request's own term only.  Overlaps and failures do not matter, which is
not obvious of a request that works with what it read long ago.

**What a user may rely on** (`CalendarStoreProofs`): `CoursesTogether`
(`[]CoursesStayTogether`), `OwnCoursesShown` (`[]ShowsItsOwnCourses`) and
`StoreImplementsPlanner` (`ImplementsPlanner`), all of `HistorySpec` and without a hypothesis
on its constants: any number of requests, seasons and years, with requests that overlap, are
refused and die.  `HistoryIsStore` says that the history variables restrict nothing, so what
is proved of `Spec` holds as well.  `OrderInv` says

* that two schedules of a term whose requests do not overlap are never both in the primary
  calendar (`PrimaryAlone`; `DraftsAlone` has the other calendars);
* that no two requests of such a term are under way (`Alone`), and of the one that is, that
  what it has loaded is still so, that the schedule it moves out is where it was, and that the
  place it moves to is free of its term (`InOrder`);
* that the courses of a schedule that is not torn are where its row is, or one statement
  ahead of it (`Together`).

A request of another term cannot disturb any of these, which is what `OtherTermsKept` and
`TermsInv` are needed for (`OrderStays`, `TogetherStays`); the same season of another year can
only have a request refused, and a refused one adds to `torn` what it leaves half-way
(`FailsAsPromised`).  The refinement maps each statement to a step of `Planner` or to none:
the planner moves when the last row is written or the request fails (`putNow` is what it
makes of the places), and `Unseen` covers the steps of terms it has lost sight of.

**The cache** (`TimetableProofs`): `TimetablesFresh` (`[]TimetablesAreFresh`) and `AnswersFresh`
(`[]AnswersAreFresh`).  `CacheInv` says of the row that what it holds was on the site when
it was written, or a tick before (`RowInv`), and of each process what it knows: what it is
about to send was on the site at most the ticks ago that it has seen (`SiteInv`), and one
that found no row knows that a row there is now is as young (`MissingInv`).  The row's age
only grows with the ticks, and an answer is given only of a row the recency rule accepts or
of what has just been scraped.  `TimetablesFresh` needs no condition about failures,
because a failed update writes a stub at most.

**The updater** (`TimetableProofs`): `TableReplaced` (`[]ReplacesAll`), `TermsScraped`
(`[]AddedAreScraped`) and `LossesTold` (`[]EveryLossIsTold`).  `UpdaterInv` consists of
`TableInv` (in the loop of deletions the table is among what is still to be deleted, in the
loop of additions table and rest make up the list), `ScrapeInv` (what was in the table had
its scrape, what comes in is on the list of the updater), and `LossInv`: of each course of the
term being scraped, it has been sent, or a message is about it, or a search that is still to
be made covers it; of each term that is done, it was sent or noted or mailed.  The last part
is what keeps unconfirmed messages from being lost between two terms.  `HalvesCover` is
where the assumption about the halves of a level is used.

`SavedKeepsMeaning` (`[]SavedMeansTheSame`, under `EarliestFirst`) is about any sections that
the site may list one after the other.  `RowsInv` says that a row is the normalised form of
the section it was made from, `SavedInv` that a saved component was read from such a row.
What carries the proof is that the updater's counts are places in an order (`EarlierHasLess`,
`OnePlaceEach`): two slots of a component never have the same, and the least is 0.  So the
reader that takes the slot numbered 0 and the reader that takes the first of the group
take the same one (`ReadTheSame`), an id names one slot (`OneIsRead`), and the place of a slot
depends on the slots of its own component only (`OwnSlots`, `StillRead`), whatever else
changed in the section.  `DownloadedThroughDataAccess` and `DownloadedFromDatabase` follow
the id through the two downloads.

**`SignInProofs`**: `OwnAccount` (`[]SignedInToOwnAccount`), `OneUser`
(`[]OneUserPerBrowser`) and `SignedOutForGood` (`[]SignOutLasts`).  `AccountsInv` adds to
the first that users are numbered by the logins that create them and no number is used
twice (`Numbering`), and what each login under way knows (`KnowsItsUser`): until it has
inserted its user nobody refers to it, and once the identity is linked it is that user's as
long as the user exists.  `CookiesInv` adds to the other two that, unless an answer was overtaken,
each refresh under way is for the user of the refresh token, and that none is under way
when nobody is signed in.

`AccountsStayWhole` (`[]AccountsAreWhole`) adds to `AccountsInv` that, until logins with one
address overlap, no two of them are in data access with the same address (`Alone`), that a
login which has still to insert a row found its place free and nobody has taken it since
(`Free`), and that a user who is not just being created can be found (`Whole`).

**`ScheduleBuilderProofs`**: `CoursesListed` (`[]CoursesInTheirTerm`), `OverridesMarked`
(`[]OverridesAreMarked`) and `ShownStaysCurrent` (`[]ShownIsCurrent`).  The first two hold
whatever comes late; the third as long as every generation was waited for and found
something.  Under that premise `BuilderInv` says of every request under way that it is still
wanted (`Wanted`: made from the courses, filters and settings as they are now, for a term
that waits for it), that a term has one at most, that what is shown is what the store has
(`ShownInv`), and that what `memoizeState` remembers of a term is what its set was generated
from (`CacheInv`).  The proof needs that each term asked for is asked for once, which is
where the number of terms has to be finite (`InOrderOnce`).

**`SchedulePagesProofs`**: `SheetShowsAccess` (`[]ShareSheetShowsAccess`), `PagesShowStored`
(`[]PageShowsStored`) and `DraftSelected` (`[]SelectedDraftExists`).  `SheetInv` says what
the list of friends is between click and answer: what it was rendered with, plus what each
request under way has done and not yet shown.  `PagesInv` is `TypedInv` (which schedules can
be where, what a request under way is about) and, when calm, `FollowInv`: each list that has
come holds `expected(l)`, that is what is stored except that a row moved by a request
whose answer is still to come counts as where it was (`kept`) or as gone (`taken`), each once;
and the selected index is within its list or -1.  The index is about positions in lists from
which a schedule is removed, so the proof needs what `selected` does to lists of any length.
The library's induction theorems take an operator and cannot be cited, but its theorem about
the minimum of a well-founded relation (`WFMin`) takes a set; `SetInduction` follows from it,
and `Steps` and the lemmas after it use that for lists.

**`ScheduleGeneratorProofs`**: `KeptSchedulesAcceptable` (`[]KeptAreAcceptable`), `NothingBetterLost`
(`[]NothingBetterIsLost`) and `AnswersComplete` (`[]AnswerIsComplete`), all of `RequestsSpec`
and from one inductive invariant (`SearchIsSound`).  `SearchInv` says that

* the courses are what the services made of the request (`CoursesInv`), so each
  configuration is a list of components with times that are numbers;
* what is on the stack, and what is being expanded, is a choice of configurations for the first courses
  with its components and its counts of early and late ones (`StackInv`, `StatusInv`), and
  each schedule kept is one for all courses with as many early ones as the best (`KeptInv`);
* no candidate is lost (`CoverInv`): one that is not worse than the best is kept, or a prefix of it is on
  the stack, or is being expanded with the configuration it has next still to be tried.

The argument has two halves.  One is about lists: the components of a choice are those of
its prefix followed by the rest (`FlattenAppend`, `FlattenPrefix`), counts add up
(`CountConcat`), and so a prefix of a candidate is never worse than the candidate, and
passes every filter (`CandidateExtends`).  The other is about what the filters decide.
`BreakFound` shows that where there is a break the search finds it, whatever the components;
`BreakMeant` that what it takes for one is one, if each component visited ends before the
next begins (`InARow`), which `Exact` gives (`BreakBefore`).  `PushOrAddKeeps` and
`PushOrAddCovers` are the one step that everything depends on, pruning and throwing away; of
`StartKeeps`, `PopKeeps`, `TryKeeps` and `FinishKeeps` each is about one action.  Sequences come from `SetToSeq` and
`FlattenSeq` of the community modules, which are recursive functions; `SetInduction` (from
the library's `WFMin`) gives what the proof needs of them.

Two more theorems follow the answer to the client.  `CoursesAccountedFor`
(`[]EveryCourseIsAccountedFor`) uses `AnsweredInv`: `SearchInv`, that nothing lost goes
unmentioned, and that what was answered is the compression of what was found.  Compression
numbers the ids of all schedules in one list (`sequenceOf`, a fold over a set:
`SequenceOfLists`) and has each slot refer to its alternates by their places; `Compressed`
shows that reading them back gives for each slot the alternate that is to be shown, and
`CoursesDelivered` that a complete schedule has a slot of each mandatory course.
`SchedulesDrawnAsFound` (`[]DrawnAsFound`) adds `DrawnInv`: what is drawn has one component
of each slot of a schedule that was found, and nothing else (`Represents`).  No component is
in two slots (`SlotsDisjoint`), which is where the uniqueness of ids is needed, so a swap
within a slot (`AlternateIsInSlot`) leaves the others as they are (`SwapRepresents`), and
there are as many components as slots (`RepresentsEach`).

**`FirstGeneratorProofs`**: `FirstAnswersComplete` (`[]FirstResultIsComplete`) is about the
first generator.  `FirstInv` says, while it runs (`Searching`), that each schedule on the queue is what a choice of
combinations for the first courses makes of the empty one (`Reached`), that each schedule
kept belongs to a choice for all of them which the filters admit (`MadeOfWanted`), and, until
the limit has been reached, that every such choice (`Wanted`) is kept or begins with one on
the queue (`Met`).  A turn replaces the head of the queue by what follows from it
(`SuccessorsReached`, `HeadExtended`), or keeps what is complete and fits (`AddAllKeeps`).
What is checked component by component while a schedule grows is what the reference asks of
it as a whole, because a combination can be added after others just when all of them can be
added in a row (`AddableConcat`).  `applyWholeScheduleFilters` judges a set by its first
schedule, and is right to, as the counts are part of the profile that `intoSets` groups by
(`Alike`, `LeastSets`).  That `limit` is not 0 matters: with 0 the answer would be an error
that does not mention the limit.

`SavedComesBack` (`[](AskedOnce => SavedIsShownAgain)`) follows a schedule through the client
and back.  Its premise says that the page has each course once, as `generateLocally` also
asks; the server does not, and with a course twice under the conflict rule `ALL` two sections of it can be in one
schedule, of which an expansion shows one.  `ClientInv` says

* of what is drawn (`DrawnOnceInv`) and what is stored (`SavedInv`, `Stored`) that it has of
  each course components of at most one section, and of those at most one of each type but LEC
  (`OneSection`), whatever was swapped (`SwapOnce`);
* while an expansion runs (`RestoredInv`), that the courses of the first generator offer what
  is left of the stored ones and nothing else (`Restores`), and that nothing of it is lost
  (`Searching`, as above).

Of a section of which one component of a type is left there is one combination, all of it
(`Whole`, `CourseWhole`), and the filters of an expansion admit everything (`AllAreWanted`)
and find all as good (`AllAreBest`), so each result shows all that is left
(`FoundRestores`).  What ties the stored ids to a timetable that was updated meanwhile is
`GuidsAssumption`: a guid is made of the ids of the course, the section and the component
(`scheduler/src/courses/models/CourseSectionComponent.ts:166`), and the last is made of the
label, the type and a number (`updater/timetables.py:550`), so it keeps its course, section
and type.

`SameWeeks` (`[]SameAnswer`) compares the two generators.  Each result is what its reference
says, but the references differ: the second chooses slots with their alternates, the first
single components.  The proof says when they mean the same and follows that upwards:

* a component `Fills` a slot of whose alternates it is one; a combination `Attends` a
  configuration if each of its components fills one slot and each slot is filled by one
  component.  Both take one component of each type (of lectures, one of each time) and prefer
  open ones (`PickAttends`, `PickAttended`), so in a section each combination attends a
  configuration and each configuration is attended;
* the same holds of a course (`CombinationPlaced`, `ConfigurationAttended`), where the first
  version goes through all sections and the second up to the first empty one (`Tidy`), and
  of a request, where the second leaves out courses without configurations (`Paired`,
  `RequestPaired`) and each version has an order of its own (`ChoiceTaken`, `TakenChoice`,
  `MatchedFlat`).
* choices that correspond have the same counts of early and late components (`SameCosts`)
  and pass the same filters (`SameAdmitted`).  For the conflict rules that is a matter of
  slots; for the breaks it goes by what a break is (`BreakFound`, `BreakMeant`), as the
  two look at the components in different orders;
* hence the best of one are the best of the other (`SameBest`), and what is compared are
  the slots, in which corresponding choices agree.

`BothInv` ties the two searches to one request and one filter and says which error each
answers with; the rest is `SearchInv` and `FirstInv`.

Every safety invariant, action property and refinement of the runs that pass is the subject
of a theorem, some under a premise that the theorem names.  Only model-checked is liveness
(`EveryJobIsAnswered`, `RequestsEnd`, `EveryRequestIsAnswered`, `LoadingEnds`), which is out
of the prover's reach.

## 6. Plan

What is left: `useSyncLocalStorage` with two tabs; the name of a user; a friend's view of a
calendar.

## 7. Not modelled

* Presentation, wording, logging, and the HTML parsing of the updater (a course is offered
  in some version, or is not).
* The catalogue and accreditation tables, whose viewsets have no logic of their own.
* `ScheduleGeneratorService`, which nothing calls; the download by id, which cannot answer.
* The initialisation of secrets (`SecretService.init` runs once before the server listens) and
  the strategies of passport.
* The csv and json files, which lay out the same data; the summaries of timetables and the
  searches for several courses, which only read; the header of a download.
* The feedback form, whose mail takes the way of the maintainers' mail.
* In the components listed as `partly` in `PROJECT.json`, what their notes name.
