---- MODULE WorkerPool ----
(***************************************************************************)
(* The scheduler's pool of worker threads                                  *)
(* (scheduler/src/utils/worker_pool/WorkerPool.ts) together with the       *)
(* threads it drives (scheduler/src/workers/main_pool.ts).                 *)
(*                                                                         *)
(* The main thread is an event loop: a call of run() and the delivery of   *)
(* one worker event are atomic.  Between them the threads work on their    *)
(* own and leave events on their message ports.                            *)
(***************************************************************************)
EXTENDS Integers, Sequences, FiniteSets

CONSTANTS
    Job,              \* the jobs ever handed to run()
    NoJob,            \* stands for "no job" in the event of a thread that fails to load
    number_of_workers,
    Faults,           \* the ways a thread may fail in this model, a subset of FaultKind
    MaxFaults,        \* bound: threads that fail
    AllowClose        \* whether closePool() may be called

FaultKind == {"throw", "load", "oom", "messageerror"}

ASSUME PoolAssumption ==
    /\ NoJob \notin Job
    /\ number_of_workers \in Nat \ {0}
    /\ Faults \subseteq FaultKind
    /\ MaxFaults \in Nat
    /\ AllowClose \in BOOLEAN

MaxThreads == number_of_workers + MaxFaults
ThreadId == 1..MaxThreads
Exited == -1                       \* Worker.threadId once the thread has exited
PortEvent == {"message", "messageerror", "error"}
ThreadState == {"unborn", "starting", "online", "failing", "oom", "terminated", "exited"}

VARIABLES
    job_queue,        \* jobs waiting for a worker, oldest first
    workers,          \* ids in the map of workers; its insertion order is id order
    active_workers,   \* ids mapped to true; a false and a missing entry read the same
    listeners,        \* per worker and event: jobs whose once-listener is attached
    promise,          \* what the caller of run() sees
    answer,           \* the job whose output settled the promise
    thread,           \* life cycle of each thread
    inbox,            \* inputs posted to a thread it has not finished
    port,             \* events a thread has sent and the main loop has not delivered
    spawned,          \* threads created so far
    faults,           \* threads that have failed so far
    closed,           \* closePool() was called
    crashed           \* an 'error' event had no listener: the process is gone

poolVars == <<job_queue, workers, active_workers, listeners, promise, answer>>
threadVars == <<thread, inbox, port>>
vars == <<poolVars, threadVars, spawned, faults, closed, crashed>>

NoListeners == [e \in PortEvent |-> {}]

\* Worker.threadId, which is -1 as soon as the handle of the thread is gone.
threadId(w) == IF thread[w] = "exited" THEN Exited ELSE w

-----------------------------------------------------------------------------
(* The pool                                                                *)

\* Workers 1..number_of_workers have been added by the constructor.
Init ==
    /\ job_queue = <<>>
    /\ workers = 1..number_of_workers
    /\ active_workers = {}
    /\ listeners = [w \in ThreadId |-> NoListeners]
    /\ promise = [j \in Job |-> "none"]
    /\ answer = [j \in Job |-> NoJob]
    /\ thread = [w \in ThreadId |-> IF w <= number_of_workers THEN "starting" ELSE "unborn"]
    /\ inbox = [w \in ThreadId |-> {}]
    /\ port = [w \in ThreadId |-> {}]
    /\ spawned = number_of_workers
    /\ faults = 0
    /\ closed = FALSE
    /\ crashed = FALSE

\* Mutation: a worker that is active counts as available.
availableWorkers_Any == workers

\* getAvailableWorker: the first worker of the map that is not active.
availableWorkers == {w \in workers : w \notin active_workers}

\* Mutation: no listener for 'error'.
runWorker_NoErrorListener(w, id, j, ls, act, in) ==
    /\ active_workers' = act \cup {id}
    /\ listeners' = [ls EXCEPT ![w] = [@ EXCEPT !["message"] = @ \cup {j}, !["messageerror"] = @ \cup {j}]]
    /\ inbox' = IF id = Exited THEN in ELSE [in EXCEPT ![w] = @ \cup {j}]

\* runWorker: mark, listen, post.  A post to a thread that has exited is lost.
\* `ls', `act' and `in' are the values the caller has reached so far.
runWorker(w, id, j, ls, act, in) ==
    /\ active_workers' = act \cup {id}
    /\ listeners' = [ls EXCEPT ![w] = [e \in PortEvent |-> @[e] \cup {j}]]
    /\ inbox' = IF id = Exited THEN in ELSE [in EXCEPT ![w] = @ \cup {j}]

\* Mutation: the worker is cleaned up and the queue forgotten.
runNextJob_Forgets(w, id, ls, act, in) ==
    /\ active_workers' = act
    /\ listeners' = ls
    /\ inbox' = in
    /\ UNCHANGED job_queue

\* Mutation: pop instead of shift.
runNextJob_Last(w, id, ls, act, in) ==
    IF job_queue = <<>>
    THEN runNextJob_Forgets(w, id, ls, act, in)
    ELSE /\ runWorker(w, id, job_queue[Len(job_queue)], ls, act, in)
         /\ job_queue' = SubSeq(job_queue, 1, Len(job_queue) - 1)

\* runNextJob: shift the queue and run what comes out, if anything does.
runNextJob(w, id, ls, act, in) ==
    IF job_queue = <<>>
    THEN /\ active_workers' = act
         /\ listeners' = ls
         /\ inbox' = in
         /\ UNCHANGED job_queue
    ELSE /\ runWorker(w, id, Head(job_queue), ls, act, in)
         /\ job_queue' = Tail(job_queue)

\* run(type, input)
run(j) ==
    /\ ~crashed
    /\ promise[j] = "none"
    /\ promise' = [promise EXCEPT ![j] = "pending"]
    /\ IF availableWorkers = {}
       THEN /\ job_queue' = Append(job_queue, j)
            /\ UNCHANGED <<active_workers, listeners, inbox>>
       ELSE /\ \E w \in availableWorkers :
                /\ \A v \in availableWorkers : w <= v
                /\ runWorker(w, threadId(w), j, listeners, active_workers, inbox)
            /\ UNCHANGED job_queue
    /\ UNCHANGED <<workers, answer, thread, port, spawned, faults, closed, crashed>>

\* The first settlement of a promise wins, later ones are ignored.
settle(js, how, from) ==
    /\ promise' = [j \in Job |-> IF j \in js /\ promise[j] = "pending" THEN how ELSE promise[j]]
    /\ answer' = [j \in Job |-> IF j \in js /\ promise[j] = "pending" THEN from ELSE answer[j]]

take(w, ev) == port' = [port EXCEPT ![w] = @ \ {ev}]

\* The 'message' and 'messageerror' listeners: settle, cleanupWorker, runNextJob.
onOutput(w, ev, how) ==
    /\ take(w, ev)
    /\ IF listeners[w][ev.event] = {}
       THEN UNCHANGED <<poolVars, inbox>>
       ELSE /\ settle(listeners[w][ev.event], how, ev.job)
            /\ runNextJob(w, threadId(w),
                          [listeners EXCEPT ![w] = NoListeners],
                          active_workers \ {threadId(w)},
                          inbox)
            /\ UNCHANGED workers
    /\ UNCHANGED <<thread, spawned, faults, closed, crashed>>

onMessage(w) == \E ev \in port[w] : ev.event = "message" /\ onOutput(w, ev, "resolved")
onMessageError(w) == \E ev \in port[w] : ev.event = "messageerror" /\ onOutput(w, ev, "rejected")

\* Mutation: the failed worker is removed and not replaced.
onErrorEvent_NotReplaced(w, id, from, th) ==
    /\ settle(listeners[w]["error"], "rejected", from)
    /\ workers' = workers \ {id}
    /\ thread' = th
    /\ listeners' = [listeners EXCEPT ![w]["error"] = {}]
    /\ active_workers' = active_workers \ {id}
    /\ crashed' = (listeners[w]["error"] = {})
    /\ UNCHANGED <<job_queue, inbox, spawned>>

\* The 'error' listener: settle, removeWorker, addWorker, runNextJob on the new
\* worker.  Without a listener Node throws in the main thread.  `id' is what
\* worker.threadId is while the listener runs, `th' the threads left behind.
onErrorEvent(w, id, from, th) ==
    IF listeners[w]["error"] = {}
    THEN /\ crashed' = TRUE
         /\ thread' = th
         /\ UNCHANGED <<poolVars, inbox, spawned>>
    ELSE LET new_worker == spawned + 1
         IN  /\ settle(listeners[w]["error"], "rejected", from)
             /\ workers' = (workers \ {id}) \cup {new_worker}
             /\ spawned' = new_worker
             /\ thread' = [th EXCEPT ![new_worker] = "starting"]
             /\ runNextJob(new_worker, new_worker,
                           [listeners EXCEPT ![w]["error"] = {}],
                           active_workers \ {id},
                           inbox)
             /\ UNCHANGED crashed

\* An uncaught exception of a thread arrives while its handle still exists.
onError(w) ==
    /\ spawned < MaxThreads
    /\ thread[w] = "failing"
    /\ \E ev \in port[w] :
        /\ ev.event = "error"
        /\ take(w, ev)
        /\ onErrorEvent(w, w, ev.job, thread)
    /\ UNCHANGED <<faults, closed>>

\* A thread that ran out of memory: Node drops the handle first, then emits 'error'.
onOutOfMemory(w) ==
    /\ spawned < MaxThreads
    /\ thread[w] = "oom"
    /\ port[w] = {}
    /\ onErrorEvent(w, Exited, NoJob, [thread EXCEPT ![w] = "exited"])
    /\ UNCHANGED <<port, faults, closed>>

\* closePool(): terminate every worker of the map, touch nothing else.
closePool ==
    /\ AllowClose
    /\ ~crashed
    /\ thread' = [w \in ThreadId |-> IF w \in workers /\ thread[w] \in {"starting", "online"}
                                     THEN "terminated" ELSE thread[w]]
    /\ closed' = TRUE
    /\ UNCHANGED <<poolVars, inbox, port, spawned, faults, crashed>>

-----------------------------------------------------------------------------
(* The threads                                                             *)

threadOnline(w) ==
    /\ thread[w] = "starting"
    /\ thread' = [thread EXCEPT ![w] = "online"]
    /\ UNCHANGED <<poolVars, inbox, port, spawned, faults, closed, crashed>>

\* main_pool.ts: the executor's result, or the error response of what it threw.
threadAnswers(w) ==
    /\ thread[w] = "online"
    /\ \E j \in inbox[w], e \in {"message"} \cup (Faults \cap {"messageerror"}) :
        /\ inbox' = [inbox EXCEPT ![w] = @ \ {j}]
        /\ port' = [port EXCEPT ![w] = @ \cup {[event |-> e, job |-> j]}]
    /\ UNCHANGED <<poolVars, thread, spawned, faults, closed, crashed>>

\* A thread fails for good: `how' is the state it is left in, `evs' what it sends.
threadFails(w, how, evs) ==
    /\ faults < MaxFaults
    /\ faults' = faults + 1
    /\ thread' = [thread EXCEPT ![w] = how]
    /\ port' = [port EXCEPT ![w] = @ \cup evs]
    /\ inbox' = [inbox EXCEPT ![w] = {}]
    /\ UNCHANGED <<poolVars, spawned, closed, crashed>>

\* Mutation: the thread reports an event the pool does not listen for.
ErrorOf_Exit(j) == {[event |-> "exit", job |-> j]}

ErrorOf(j) == {[event |-> "error", job |-> j]}

\* The worker file cannot be loaded: the error comes whether or not a job waits.
threadLoadFails(w) ==
    /\ "load" \in Faults
    /\ thread[w] = "starting"
    /\ threadFails(w, "failing", ErrorOf(NoJob))

\* postMessage throws inside the catch of main_pool.ts, or a job leaks a rejection.
threadThrows(w) ==
    /\ "throw" \in Faults
    /\ thread[w] = "online"
    /\ \E j \in inbox[w] : threadFails(w, "failing", ErrorOf(j))

threadOutOfMemory(w) ==
    /\ "oom" \in Faults
    /\ thread[w] = "online"
    /\ inbox[w] # {}
    /\ threadFails(w, "oom", {})

\* Node drains the ports of a thread before it drops the handle and emits 'exit'.
threadExits(w) ==
    /\ thread[w] \in {"failing", "terminated"}
    /\ port[w] = {}
    /\ thread' = [thread EXCEPT ![w] = "exited"]
    /\ UNCHANGED <<poolVars, inbox, port, spawned, faults, closed, crashed>>

-----------------------------------------------------------------------------
\* A crash of the main thread takes the whole process, threads included, with it.
MainLoop(w) ==
    /\ ~crashed
    /\ onMessage(w) \/ onMessageError(w) \/ onError(w) \/ onOutOfMemory(w) \/ threadExits(w)

ThreadStep(w) ==
    /\ ~crashed
    /\ threadOnline(w) \/ threadAnswers(w)

Fault(w) ==
    /\ ~crashed
    /\ threadLoadFails(w) \/ threadThrows(w) \/ threadOutOfMemory(w)

Next ==
    \/ \E j \in Job : run(j)
    \/ closePool
    \/ \E w \in ThreadId : MainLoop(w) \/ ThreadStep(w) \/ Fault(w)

Spec == Init /\ [][Next]_vars

\* The event loop delivers what is on the ports and every thread comes online and
\* finishes its jobs (the generators stop at their limits).  Callers owe nothing.
Fairness == \A w \in ThreadId : WF_vars(MainLoop(w)) /\ WF_vars(ThreadStep(w))
FairSpec == Spec /\ Fairness

-----------------------------------------------------------------------------
(* Properties                                                              *)

Output == [event : PortEvent, job : Job \cup {NoJob}]

TypeOK ==
    /\ job_queue \in Seq(Job)
    /\ workers \subseteq ThreadId
    /\ active_workers \subseteq ThreadId \cup {Exited}
    /\ listeners \in [ThreadId -> [PortEvent -> SUBSET Job]]
    /\ promise \in [Job -> {"none", "pending", "resolved", "rejected"}]
    /\ answer \in [Job -> Job \cup {NoJob}]
    /\ thread \in [ThreadId -> ThreadState]
    /\ inbox \in [ThreadId -> SUBSET Job]
    /\ port \in [ThreadId -> SUBSET Output]
    /\ spawned \in number_of_workers..MaxThreads
    /\ faults \in 0..MaxFaults
    /\ closed \in BOOLEAN
    /\ crashed \in BOOLEAN

Queued(j) == \E i \in DOMAIN job_queue : job_queue[i] = j
InFlightOn(j, w) == j \in listeners[w]["message"] /\ j \in listeners[w]["error"]

\* The thread still has the job before it, or what it has sent is on its way.
Owed(w) == inbox[w] # {} \/ port[w] # {} \/ thread[w] = "oom"

\* A job waits only while no worker is free: every way a worker can become free
\* (an answer, a failed thread replaced by a new one) picks up the queue.
NoIdleWhileQueued ==
    job_queue # <<>> => workers \subseteq active_workers

\* No job is lost: until closePool() every unanswered call of run() is either in
\* the queue or listened for on exactly one worker of the pool, never both, and
\* that worker still owes the event which will settle it.
NoLostJob ==
    ~closed => \A j \in Job : promise[j] = "pending" =>
        /\ Queued(j) # \E w \in workers : InFlightOn(j, w)
        /\ \A w, v \in workers : InFlightOn(j, w) /\ InFlightOn(j, v) => w = v
        /\ \A w \in workers : InFlightOn(j, w) => Owed(w)

\* A caller is answered with the output of its own job, never with what a worker
\* it shared with an earlier or a later job produced.
OwnAnswer ==
    \A j \in Job :
        /\ promise[j] = "resolved" => answer[j] = j
        /\ promise[j] = "rejected" => answer[j] \in {j, NoJob}

\* Failures never cost the pool a worker and no worker is handed two jobs: until
\* closePool() it has number_of_workers workers that have not exited, each listening for
\* one job at most and marked active just when it does, also inside the listener that
\* settles one job and starts the next.  The process dies only of a worker without a job.
WorkersAreAccountedFor ==
    /\ crashed => \E w \in workers : thread[w] = "failing" /\ w \notin active_workers
    /\ ~closed =>
        /\ Cardinality({w \in workers : thread[w] # "exited"}) = number_of_workers
        /\ \A w \in ThreadId :
            /\ Cardinality(inbox[w]) <= 1
            /\ Cardinality(listeners[w]["message"]) <= 1
            /\ w \in workers /\ thread[w] # "exited" =>
                (w \in active_workers <=> listeners[w]["message"] # {})

\* Every call of run() is answered, unless the pool is closed or the process dies.
EveryJobIsAnswered ==
    \A j \in Job : promise[j] = "pending" ~> promise[j] # "pending" \/ closed \/ crashed

\* Until closePool() the pool implements the FIFO service: a job runs from the moment it
\* leaves the queue, or never enters it, until its promise is settled.
Service == INSTANCE JobService WITH
    Places <- number_of_workers,
    waiting <- job_queue,
    running <- {j \in Job : promise[j] = "pending" /\ ~Queued(j)},
    done <- {j \in Job : promise[j] \in {"resolved", "rejected"}}

ImplementsJobService == Service!Init /\ [][closed \/ Service!Next]_(Service!vars)
====
