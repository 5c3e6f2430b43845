---- MODULE WorkerPoolProofs ----
(***************************************************************************)
(* Proofs about WorkerPool, for any number of jobs, workers and failures:  *)
(* no worker idles while jobs wait, no job is lost, none is answered with  *)
(* another's output, failures cost the pool no worker, and until it is     *)
(* closed the pool is a work-conserving FIFO service.                      *)
(***************************************************************************)
EXTENDS WorkerPool, FiniteSetTheorems, TLAPS

USE PoolAssumption DEF FaultKind

LEMMA ThreadIdFacts ==
    /\ MaxThreads \in Nat
    /\ ThreadId \subseteq Nat
    /\ 1..number_of_workers \subseteq ThreadId
    /\ number_of_workers \in number_of_workers..MaxThreads
    /\ Exited \notin ThreadId
BY DEF MaxThreads, ThreadId, Exited

\* What runWorker and runNextJob leave well typed, for the callers below.
LEMMA RunWorkerType ==
    ASSUME TypeOK,
           NEW w \in ThreadId, NEW id \in ThreadId \cup {Exited}, NEW j \in Job,
           NEW ls \in [ThreadId -> [PortEvent -> SUBSET Job]],
           NEW act \in SUBSET (ThreadId \cup {Exited}),
           NEW in \in [ThreadId -> SUBSET Job],
           runWorker(w, id, j, ls, act, in)
    PROVE  /\ active_workers' \subseteq ThreadId \cup {Exited}
           /\ listeners' \in [ThreadId -> [PortEvent -> SUBSET Job]]
           /\ inbox' \in [ThreadId -> SUBSET Job]
BY DEF runWorker

LEMMA RunNextJobType ==
    ASSUME TypeOK,
           NEW w \in ThreadId, NEW id \in ThreadId \cup {Exited},
           NEW ls \in [ThreadId -> [PortEvent -> SUBSET Job]],
           NEW act \in SUBSET (ThreadId \cup {Exited}),
           NEW in \in [ThreadId -> SUBSET Job],
           runNextJob(w, id, ls, act, in)
    PROVE  /\ job_queue' \in Seq(Job)
           /\ active_workers' \subseteq ThreadId \cup {Exited}
           /\ listeners' \in [ThreadId -> [PortEvent -> SUBSET Job]]
           /\ inbox' \in [ThreadId -> SUBSET Job]
<1>1. CASE job_queue = <<>>
  BY <1>1 DEF runNextJob, TypeOK
<1>2. CASE job_queue # <<>>
  <2>1. Head(job_queue) \in Job /\ Tail(job_queue) \in Seq(Job)
    BY <1>2 DEF TypeOK
  <2>2. runWorker(w, id, Head(job_queue), ls, act, in) /\ job_queue' = Tail(job_queue)
    BY <1>2 DEF runNextJob
  <2>. QED BY <2>1, <2>2, RunWorkerType
<1>. QED BY <1>1, <1>2

LEMMA SettleType ==
    ASSUME TypeOK,
           NEW js \in SUBSET Job, NEW how \in {"resolved", "rejected"},
           NEW from \in Job \cup {NoJob},
           settle(js, how, from)
    PROVE  /\ promise' \in [Job -> {"none", "pending", "resolved", "rejected"}]
           /\ answer' \in [Job -> Job \cup {NoJob}]
BY DEF settle, TypeOK

LEMMA InitType == Init => TypeOK
<1> SUFFICES ASSUME Init PROVE TypeOK
  OBVIOUS
<1>1. job_queue \in Seq(Job) /\ workers \subseteq ThreadId
  BY ThreadIdFacts DEF Init
<1>2. listeners \in [ThreadId -> [PortEvent -> SUBSET Job]]
  BY DEF Init, NoListeners
<1>3. thread \in [ThreadId -> ThreadState]
  BY DEF Init, ThreadState
<1>4. spawned \in number_of_workers..MaxThreads /\ faults \in 0..MaxFaults
  BY ThreadIdFacts DEF Init
<1>. QED BY <1>1, <1>2, <1>3, <1>4 DEF Init, TypeOK

LEMMA OnOutputType ==
    ASSUME TypeOK, NEW w \in ThreadId, NEW ev \in port[w],
           ev.event \in {"message", "messageerror"}, NEW how \in {"resolved", "rejected"},
           onOutput(w, ev, how)
    PROVE  TypeOK'
<1>1. port' \in [ThreadId -> SUBSET Output]
  BY DEF onOutput, take, TypeOK
<1>2. UNCHANGED <<thread, spawned, faults, closed, crashed>>
  BY DEF onOutput
<1>3. CASE listeners[w][ev.event] = {}
  BY <1>1, <1>2, <1>3 DEF onOutput, TypeOK, poolVars
<1>4. CASE listeners[w][ev.event] # {}
  <2>1. listeners[w][ev.event] \in SUBSET Job /\ ev.job \in Job \cup {NoJob}
    BY DEF TypeOK, Output, PortEvent
  <2>2. threadId(w) \in ThreadId \cup {Exited}
    BY DEF threadId
  <2>3. [listeners EXCEPT ![w] = NoListeners] \in [ThreadId -> [PortEvent -> SUBSET Job]]
    BY DEF NoListeners, TypeOK
  <2>4. /\ settle(listeners[w][ev.event], how, ev.job)
        /\ runNextJob(w, threadId(w), [listeners EXCEPT ![w] = NoListeners],
                      active_workers \ {threadId(w)}, inbox)
        /\ workers' = workers
    BY <1>4 DEF onOutput
  <2>5. /\ promise' \in [Job -> {"none", "pending", "resolved", "rejected"}]
        /\ answer' \in [Job -> Job \cup {NoJob}]
    BY ZenonT(60), <2>1, <2>4, SettleType
  <2>6. /\ active_workers \ {threadId(w)} \in SUBSET (ThreadId \cup {Exited})
        /\ inbox \in [ThreadId -> SUBSET Job]
    BY DEF TypeOK
  <2>7. /\ job_queue' \in Seq(Job)
        /\ active_workers' \subseteq ThreadId \cup {Exited}
        /\ listeners' \in [ThreadId -> [PortEvent -> SUBSET Job]]
        /\ inbox' \in [ThreadId -> SUBSET Job]
    BY <2>2, <2>3, <2>4, <2>6, RunNextJobType
  <2>. QED BY <1>1, <1>2, <2>4, <2>5, <2>7 DEF TypeOK
<1>. QED BY <1>3, <1>4

LEMMA OnErrorEventType ==
    ASSUME TypeOK, spawned < MaxThreads,
           NEW w \in ThreadId, NEW id \in ThreadId \cup {Exited},
           NEW from \in Job \cup {NoJob},
           NEW th \in [ThreadId -> ThreadState],
           onErrorEvent(w, id, from, th),
           port' \in [ThreadId -> SUBSET Output],
           UNCHANGED <<faults, closed>>
    PROVE  TypeOK'
<1>1. CASE listeners[w]["error"] = {}
  BY <1>1 DEF onErrorEvent, TypeOK, poolVars
<1>2. CASE listeners[w]["error"] # {}
  <2> DEFINE new == spawned + 1
  <2>1. new \in ThreadId /\ new \in number_of_workers..MaxThreads
    BY DEF ThreadId, TypeOK, MaxThreads
  <2>2. /\ settle(listeners[w]["error"], "rejected", from)
        /\ workers' = (workers \ {id}) \cup {new}
        /\ spawned' = new
        /\ thread' = [th EXCEPT ![new] = "starting"]
        /\ runNextJob(new, new, [listeners EXCEPT ![w]["error"] = {}],
                      active_workers \ {id}, inbox)
        /\ UNCHANGED crashed
    BY <1>2 DEF onErrorEvent
  <2>3. listeners[w]["error"] \in SUBSET Job
    BY DEF TypeOK, PortEvent
  <2>4. [listeners EXCEPT ![w]["error"] = {}] \in [ThreadId -> [PortEvent -> SUBSET Job]]
    BY DEF TypeOK, PortEvent
  <2>5. /\ promise' \in [Job -> {"none", "pending", "resolved", "rejected"}]
        /\ answer' \in [Job -> Job \cup {NoJob}]
    BY <2>2, <2>3, SettleType
  <2>6. /\ active_workers \ {id} \in SUBSET (ThreadId \cup {Exited})
        /\ inbox \in [ThreadId -> SUBSET Job]
    BY DEF TypeOK
  <2>7. /\ job_queue' \in Seq(Job)
        /\ active_workers' \subseteq ThreadId \cup {Exited}
        /\ listeners' \in [ThreadId -> [PortEvent -> SUBSET Job]]
        /\ inbox' \in [ThreadId -> SUBSET Job]
    BY <2>1, <2>2, <2>4, <2>6, RunNextJobType
  <2>8. thread' \in [ThreadId -> ThreadState] /\ workers' \subseteq ThreadId
    BY <2>1, <2>2 DEF TypeOK, ThreadState
  <2>. QED BY <2>1, <2>2, <2>5, <2>7, <2>8 DEF TypeOK
<1>. QED BY <1>1, <1>2

LEMMA ThreadFailsType ==
    ASSUME TypeOK, NEW w \in ThreadId, NEW how \in ThreadState,
           NEW evs \in SUBSET Output, threadFails(w, how, evs)
    PROVE  TypeOK'
BY DEF threadFails, TypeOK, poolVars

LEMMA NextType == TypeOK /\ [Next]_vars => TypeOK'
<1> SUFFICES ASSUME TypeOK, [Next]_vars PROVE TypeOK'
  OBVIOUS
<1>1. ASSUME NEW j \in Job, run(j) PROVE TypeOK'
  <2>1. CASE availableWorkers = {}
    <3>1. Append(job_queue, j) \in Seq(Job)
      BY DEF TypeOK
    <3>2. /\ job_queue' \in Seq(Job)
          /\ UNCHANGED <<active_workers, listeners, inbox, workers, answer, thread, port>>
          /\ UNCHANGED <<spawned, faults, closed, crashed>>
      BY <1>1, <2>1, <3>1 DEF run
    <3>3. promise' \in [Job -> {"none", "pending", "resolved", "rejected"}]
      BY <1>1 DEF run, TypeOK
    <3>. QED BY <3>2, <3>3 DEF TypeOK
  <2>2. CASE availableWorkers # {}
    <3>1. PICK w \in availableWorkers :
              runWorker(w, threadId(w), j, listeners, active_workers, inbox)
      BY <1>1, <2>2 DEF run
    <3>2. w \in ThreadId /\ threadId(w) \in ThreadId \cup {Exited}
      BY DEF availableWorkers, TypeOK, threadId
    <3>3. /\ active_workers' \subseteq ThreadId \cup {Exited}
          /\ listeners' \in [ThreadId -> [PortEvent -> SUBSET Job]]
          /\ inbox' \in [ThreadId -> SUBSET Job]
      BY <3>1, <3>2, RunWorkerType DEF TypeOK
    <3>. QED BY <1>1, <2>2, <3>3 DEF run, TypeOK
  <2>. QED BY <2>1, <2>2
<1>2. ASSUME closePool PROVE TypeOK'
  BY <1>2 DEF closePool, TypeOK, ThreadState, poolVars
<1>3. ASSUME NEW w \in ThreadId, MainLoop(w) PROVE TypeOK'
  <2>1. CASE onMessage(w)
    BY <2>1, OnOutputType DEF onMessage
  <2>2. CASE onMessageError(w)
    BY <2>2, OnOutputType DEF onMessageError
  <2>3. CASE onError(w)
    <3>1. PICK ev \in port[w] : take(w, ev) /\ onErrorEvent(w, w, ev.job, thread)
      BY <2>3 DEF onError
    <3>2. /\ port' \in [ThreadId -> SUBSET Output]
          /\ ev.job \in Job \cup {NoJob}
          /\ thread \in [ThreadId -> ThreadState]
      BY <3>1 DEF take, TypeOK, Output
    <3>. QED BY <2>3, <3>1, <3>2, OnErrorEventType DEF onError
  <2>4. CASE onOutOfMemory(w)
    <3>1. /\ [thread EXCEPT ![w] = "exited"] \in [ThreadId -> ThreadState]
          /\ port' \in [ThreadId -> SUBSET Output]
      BY <2>4 DEF onOutOfMemory, TypeOK, ThreadState
    <3>. QED BY <2>4, <3>1, OnErrorEventType DEF onOutOfMemory
  <2>5. CASE threadExits(w)
    BY <2>5 DEF threadExits, TypeOK, ThreadState, poolVars
  <2>. QED BY <1>3, <2>1, <2>2, <2>3, <2>4, <2>5 DEF MainLoop
<1>4. ASSUME NEW w \in ThreadId, ThreadStep(w) PROVE TypeOK'
  <2>1. CASE threadOnline(w)
    BY <2>1 DEF threadOnline, TypeOK, ThreadState, poolVars
  <2>2. CASE threadAnswers(w)
    BY <2>2 DEF threadAnswers, TypeOK, Output, PortEvent, poolVars
  <2>. QED BY <1>4, <2>1, <2>2 DEF ThreadStep
<1>5. ASSUME NEW w \in ThreadId, Fault(w) PROVE TypeOK'
  <2>1. \A j \in Job \cup {NoJob} : ErrorOf(j) \in SUBSET Output
    BY DEF ErrorOf, Output, PortEvent
  <2>2. CASE threadLoadFails(w)
    BY <2>1, <2>2, ThreadFailsType DEF threadLoadFails, ThreadState
  <2>3. CASE threadThrows(w)
    BY <2>1, <2>3, ThreadFailsType DEF threadThrows, ThreadState, TypeOK
  <2>4. CASE threadOutOfMemory(w)
    BY <2>4, ThreadFailsType DEF threadOutOfMemory, ThreadState
  <2>. QED BY <1>5, <2>2, <2>3, <2>4 DEF Fault
<1>6. ASSUME UNCHANGED vars PROVE TypeOK'
  BY <1>6 DEF vars, poolVars, threadVars, TypeOK
<1>. QED BY <1>1, <1>2, <1>3, <1>4, <1>5, <1>6 DEF Next

\* Every variable keeps its type (the state WorkerPool.ts keeps in job_queue,
\* workers and active_workers, and that of the threads), in every instance.
THEOREM TypeCorrect == Spec => []TypeOK
BY InitType, NextType, PTL DEF Spec

-----------------------------------------------------------------------------
(* The queue is served: NoIdleWhileQueued is inductive by itself, because  *)
(* runNextJob marks the worker it is given whenever the queue is not empty.*)

LEMMA RunNextJobServes ==
    ASSUME NEW w, NEW id, NEW ls, NEW act, NEW in,
           runNextJob(w, id, ls, act, in), job_queue # <<>>
    PROVE  active_workers' = act \cup {id}
BY DEF runNextJob, runWorker

LEMMA RunNextJobEmpty ==
    ASSUME NEW w, NEW id, NEW ls, NEW act, NEW in,
           runNextJob(w, id, ls, act, in), job_queue = <<>>
    PROVE  job_queue' = <<>>
BY DEF runNextJob

LEMMA OnOutputServes ==
    ASSUME NoIdleWhileQueued, NEW w \in ThreadId, NEW ev, NEW how, onOutput(w, ev, how)
    PROVE  NoIdleWhileQueued'
<1>1. CASE listeners[w][ev.event] = {}
  BY <1>1 DEF onOutput, poolVars, NoIdleWhileQueued
<1>2. CASE listeners[w][ev.event] # {}
  <2> DEFINE t == threadId(w)
  <2>1. /\ runNextJob(w, t, [listeners EXCEPT ![w] = NoListeners], active_workers \ {t}, inbox)
        /\ workers' = workers
    BY <1>2 DEF onOutput
  <2> HIDE DEF t
  <2>2. CASE job_queue = <<>>
    BY <2>1, <2>2, RunNextJobEmpty DEF NoIdleWhileQueued
  <2>3. CASE job_queue # <<>>
    <3>1. active_workers' = (active_workers \ {t}) \cup {t}
      BY <2>1, <2>3, RunNextJobServes
    <3>. QED BY <2>1, <2>3, <3>1 DEF NoIdleWhileQueued
  <2>. QED BY <2>2, <2>3
<1>. QED BY <1>1, <1>2

LEMMA OnErrorEventServes ==
    ASSUME NoIdleWhileQueued, NEW w \in ThreadId, NEW id, NEW from, NEW th,
           onErrorEvent(w, id, from, th)
    PROVE  NoIdleWhileQueued'
<1>1. CASE listeners[w]["error"] = {}
  BY <1>1 DEF onErrorEvent, poolVars, NoIdleWhileQueued
<1>2. CASE listeners[w]["error"] # {}
  <2> DEFINE n == spawned + 1
  <2>1. /\ workers' = (workers \ {id}) \cup {n}
        /\ runNextJob(n, n, [listeners EXCEPT ![w]["error"] = {}], active_workers \ {id}, inbox)
    BY <1>2 DEF onErrorEvent
  <2> HIDE DEF n
  <2>2. CASE job_queue = <<>>
    BY <2>1, <2>2, RunNextJobEmpty DEF NoIdleWhileQueued
  <2>3. CASE job_queue # <<>>
    <3>1. active_workers' = (active_workers \ {id}) \cup {n}
      BY <2>1, <2>3, RunNextJobServes
    <3>. QED BY <2>1, <2>3, <3>1 DEF NoIdleWhileQueued
  <2>. QED BY <2>2, <2>3
<1>. QED BY <1>1, <1>2

LEMMA NextServes == NoIdleWhileQueued /\ [Next]_vars => NoIdleWhileQueued'
<1> SUFFICES ASSUME NoIdleWhileQueued, [Next]_vars PROVE NoIdleWhileQueued'
  OBVIOUS
<1>1. ASSUME NEW j \in Job, run(j) PROVE NoIdleWhileQueued'
  <2>1. CASE availableWorkers = {}
    BY <1>1, <2>1 DEF run, availableWorkers, NoIdleWhileQueued
  <2>2. CASE availableWorkers # {}
    <3>1. job_queue = <<>>
      BY <2>2 DEF availableWorkers, NoIdleWhileQueued
    <3>. QED BY <1>1, <2>2, <3>1 DEF run, NoIdleWhileQueued
  <2>. QED BY <2>1, <2>2
<1>2. ASSUME closePool PROVE NoIdleWhileQueued'
  BY <1>2 DEF closePool, poolVars, NoIdleWhileQueued
<1>3. ASSUME NEW w \in ThreadId, MainLoop(w) PROVE NoIdleWhileQueued'
  <2>1. CASE onMessage(w)
    BY <2>1, OnOutputServes DEF onMessage
  <2>2. CASE onMessageError(w)
    BY <2>2, OnOutputServes DEF onMessageError
  <2>3. CASE onError(w)
    BY <2>3, OnErrorEventServes DEF onError
  <2>4. CASE onOutOfMemory(w)
    BY <2>4, OnErrorEventServes DEF onOutOfMemory
  <2>5. CASE threadExits(w)
    BY <2>5 DEF threadExits, poolVars, NoIdleWhileQueued
  <2>. QED BY <1>3, <2>1, <2>2, <2>3, <2>4, <2>5 DEF MainLoop
<1>4. ASSUME NEW w \in ThreadId, ThreadStep(w) PROVE NoIdleWhileQueued'
  BY <1>4 DEF ThreadStep, threadOnline, threadAnswers, poolVars, NoIdleWhileQueued
<1>5. ASSUME NEW w \in ThreadId, Fault(w) PROVE NoIdleWhileQueued'
  BY <1>5 DEF Fault, threadLoadFails, threadThrows, threadOutOfMemory, threadFails,
              poolVars, NoIdleWhileQueued
<1>6. ASSUME UNCHANGED vars PROVE NoIdleWhileQueued'
  BY <1>6 DEF vars, poolVars, NoIdleWhileQueued
<1>. QED BY <1>1, <1>2, <1>3, <1>4, <1>5, <1>6 DEF Next

\* No worker of the pool is ever left inactive beside a waiting job: every listener
\* of WorkerPool.ts that frees or replaces a worker hands it the next job.
THEOREM QueueIsServed == Spec => []NoIdleWhileQueued
<1>1. Init => NoIdleWhileQueued
  BY DEF Init, NoIdleWhileQueued
<1>. QED BY <1>1, NextServes, PTL DEF Spec

-----------------------------------------------------------------------------
(* No job is lost, none is answered with another's output, and failures    *)
(* cost the pool no worker.                                                *)

HIDE PoolAssumption DEF FaultKind

\* The jobs whose callers wait for a message of the thread.
L(w) == listeners[w]["message"]
Live(w) == thread[w] # "exited" \/ ~closed

Unborn(w) ==
    /\ thread[w] = "unborn" <=> w > spawned
    /\ thread[w] = "unborn" =>
        L(w) = {} /\ inbox[w] = {} /\ port[w] = {} /\ w \notin workers /\ w \notin active_workers

\* A worker of the pool is marked active just when it is listened to, for one job.
Listening(w) ==
    /\ listeners[w]["messageerror"] = L(w)
    /\ listeners[w]["error"] \subseteq L(w)
    /\ Live(w) => \A j, k \in L(w) : j = k
    /\ w \in workers /\ thread[w] # "exited" =>
        listeners[w]["error"] = L(w) /\ (w \in active_workers <=> L(w) # {})
    /\ w \in workers /\ thread[w] = "exited" /\ ~closed =>
        listeners[w]["error"] = {} /\ w \in active_workers

\* What is on the port of a thread is one event, for the job that is listened for.
About(ev, w) ==
    \/ /\ ev.event \in {"message", "messageerror"}
       /\ L(w) = {ev.job}
       /\ thread[w] \in {"online", "terminated"}
    \/ /\ ev.event = "error"
       /\ ev.job = NoJob \/ L(w) = {ev.job}
       /\ thread[w] = "failing"
       /\ w \in workers
Sending(w) ==
    /\ \A ev, f \in port[w] : ev = f
    /\ \A ev \in port[w] : About(ev, w)

\* A thread that is listened to has the job before it or its event on the port.
Working(w) ==
    /\ Live(w) => \A j \in inbox[w] : L(w) = {j}
    /\ thread[w] \in {"starting", "online", "terminated"} /\ inbox[w] # {} => port[w] = {}
    /\ thread[w] \in {"starting", "oom", "exited"} => port[w] = {}
    /\ thread[w] \in {"starting", "online", "oom", "terminated"} => w \in workers
    /\ thread[w] = "terminated" => closed
    /\ thread[w] = "oom" => L(w) # {}
    /\ thread[w] \in {"starting", "online"} /\ L(w) # {} => inbox[w] # {} \/ port[w] # {}
    /\ thread[w] = "failing" /\ w \in workers /\ (~crashed \/ L(w) # {}) => port[w] # {}

ThreadInv(w) == Unborn(w) /\ Listening(w) /\ Sending(w) /\ Working(w)

\* A job is in one place: in the queue, listened for on one worker, or, inside a step, on
\* its way from one to the other.  q, ls, pr and ws stand for the queue, the listeners, the
\* promises and the workers.
In(q, j) == \E i \in DOMAIN q : q[i] = j
Places(q, ls, pr, ws, moving) ==
    /\ \A i, k \in DOMAIN q : q[i] = q[k] => i = k
    /\ \A j \in Job : In(q, j) \/ j \in moving =>
        pr[j] = "pending" /\ \A w \in ThreadId : j \notin ls[w]["message"]
    /\ \A j \in moving : ~In(q, j)
    /\ \A j \in Job : pr[j] = "none" => \A w \in ThreadId : j \notin ls[w]["message"]
    /\ \A w, v \in ThreadId : \A j \in Job :
        j \in ls[w]["message"] /\ j \in ls[v]["message"] => w = v
    /\ \A w \in ThreadId : \A j \in ls[w]["error"] :
        pr[j] = "pending" /\ j \in ls[w]["message"]
    /\ \A j \in Job : pr[j] = "pending" =>
        In(q, j) \/ j \in moving \/ \E w \in ws : j \in ls[w]["error"]
JobInv == Places(job_queue, listeners, promise, workers, {})

Crash == crashed => \E w \in workers : thread[w] = "failing" /\ w \notin active_workers

PlacesKept ==
    ~closed => /\ IsFiniteSet(workers)
               /\ Cardinality({w \in workers : thread[w] # "exited"}) = number_of_workers

PoolInv == /\ \A w \in ThreadId : ThreadInv(w)
           /\ JobInv
           /\ OwnAnswer
           /\ Crash

-----------------------------------------------------------------------------
(* Jobs and their places                                                   *)

ListenerType == [ThreadId -> [PortEvent -> SUBSET Job]]

LEMMA JobSubmitted ==
    ASSUME NEW q \in Seq(Job), NEW ls \in ListenerType, NEW ws \in SUBSET ThreadId,
           NEW pr \in [Job -> {"none", "pending", "resolved", "rejected"}],
           Places(q, ls, pr, ws, {}), NEW j \in Job, pr[j] = "none"
    PROVE  Places(q, ls, [pr EXCEPT ![j] = "pending"], ws, {j})
BY DEF Places, In

LEMMA AppendHolds ==
    ASSUME NEW q \in Seq(Job), NEW j \in Job, NEW k
    PROVE  In(Append(q, j), k) <=> In(q, k) \/ k = j
<1> DEFINE new == Append(q, j)
<1>1. /\ DOMAIN q = 1..Len(q) /\ DOMAIN new = 1..(Len(q) + 1) /\ Len(q) \in Nat
      /\ \A i \in 1..Len(q) : new[i] = q[i]
      /\ new[Len(q) + 1] = j
  OBVIOUS
<1> HIDE DEF new
<1>2. In(new, k) <=> In(q, k) \/ k = j
  BY <1>1 DEF In
<1>. QED BY <1>2 DEF new

LEMMA TailHolds ==
    ASSUME NEW q \in Seq(Job), q # <<>>, NEW k, \A a, b \in DOMAIN q : q[a] = q[b] => a = b
    PROVE  /\ In(Tail(q), k) <=> In(q, k) /\ k # Head(q)
           /\ In(q, Head(q)) /\ Head(q) \in Job
<1> DEFINE new == Tail(q)
<1>1. /\ DOMAIN q = 1..Len(q) /\ DOMAIN new = 1..(Len(q) - 1) /\ Len(q) \in Nat /\ Len(q) > 0
      /\ \A i \in 1..(Len(q) - 1) : new[i] = q[i + 1]
      /\ Head(q) = q[1] /\ Head(q) \in Job
  OBVIOUS
<1> HIDE DEF new
<1>2. ASSUME In(new, k) PROVE In(q, k) /\ k # Head(q)
  <2>1. PICK i \in 1..(Len(q) - 1) : q[i + 1] = k
    BY <1>1, <1>2 DEF In
  <2>2. i + 1 \in DOMAIN q /\ 1 \in DOMAIN q /\ i + 1 # 1
    BY <1>1
  <2>. QED BY <1>1, <2>1, <2>2 DEF In
<1>3. ASSUME In(q, k), k # Head(q) PROVE In(new, k)
  <2>1. PICK i \in 1..Len(q) : q[i] = k
    BY <1>1, <1>3 DEF In
  <2>2. i - 1 \in DOMAIN new /\ new[i - 1] = q[(i - 1) + 1]
    BY <1>1, <1>3, <2>1
  <2>. QED BY <2>1, <2>2 DEF In
<1>4. In(q, Head(q))
  BY <1>1 DEF In
<1>. QED BY <1>1, <1>2, <1>3, <1>4 DEF new

LEMMA JobQueued ==
    ASSUME NEW q \in Seq(Job), NEW ls \in ListenerType, NEW ws \in SUBSET ThreadId,
           NEW pr \in [Job -> {"none", "pending", "resolved", "rejected"}],
           NEW j \in Job, Places(q, ls, pr, ws, {j})
    PROVE  Places(Append(q, j), ls, pr, ws, {})
<1> DEFINE new == Append(q, j)
<1>1. /\ DOMAIN q = 1..Len(q) /\ DOMAIN new = 1..(Len(q) + 1) /\ Len(q) \in Nat
      /\ \A i \in 1..Len(q) : new[i] = q[i]
      /\ new[Len(q) + 1] = j
  OBVIOUS
<1>2. \A k \in Job : In(new, k) <=> In(q, k) \/ k = j
  BY AppendHolds
<1>3. ~In(q, j)
  BY DEF Places
<1> HIDE DEF new
<1>4. \A i, k \in DOMAIN new : new[i] = new[k] => i = k
  BY <1>1, <1>3 DEF Places, In
<1>5. Places(new, ls, pr, ws, {})
  BY <1>2, <1>4 DEF Places
<1>. QED BY <1>5 DEF new

LEMMA JobShifted ==
    ASSUME NEW q \in Seq(Job), NEW ls, NEW ws, NEW pr, q # <<>>,
           Places(q, ls, pr, ws, {})
    PROVE  Places(Tail(q), ls, pr, ws, {Head(q)})
<1> DEFINE new == Tail(q)
<1>1. /\ DOMAIN q = 1..Len(q) /\ DOMAIN new = 1..(Len(q) - 1) /\ Len(q) \in Nat /\ Len(q) > 0
      /\ \A i \in 1..(Len(q) - 1) : new[i] = q[i + 1]
      /\ Head(q) = q[1]
  OBVIOUS
<1>2. /\ \A k \in Job : In(new, k) <=> In(q, k) /\ k # Head(q)
      /\ Head(q) \in Job /\ In(q, Head(q))
  BY TailHolds DEF Places
<1> HIDE DEF new
<1>3. \A i, k \in DOMAIN new : new[i] = new[k] => i = k
  <2> SUFFICES ASSUME NEW i \in DOMAIN new, NEW k \in DOMAIN new, new[i] = new[k] PROVE i = k
    OBVIOUS
  <2>1. i + 1 \in DOMAIN q /\ k + 1 \in DOMAIN q /\ q[i + 1] = q[k + 1] /\ i \in Nat /\ k \in Nat
    BY <1>1
  <2>2. i + 1 = k + 1
    BY <2>1 DEF Places
  <2>. QED BY <2>1, <2>2
<1>4. Places(new, ls, pr, ws, {Head(q)})
  BY <1>2, <1>3 DEF Places
<1>. QED BY <1>4 DEF new

LEMMA JobListenedFor ==
    ASSUME NEW q \in Seq(Job), NEW ls \in ListenerType, NEW ws \in SUBSET ThreadId,
           NEW pr \in [Job -> {"none", "pending", "resolved", "rejected"}],
           NEW j \in Job, Places(q, ls, pr, ws, {j}), NEW x \in ws
    PROVE  Places(q, [ls EXCEPT ![x] = [e \in PortEvent |-> @[e] \cup {j}]], pr, ws, {})
<1> DEFINE new == [ls EXCEPT ![x] = [e \in PortEvent |-> @[e] \cup {j}]]
<1>1. /\ \A v \in ThreadId : v # x => new[v] = ls[v]
      /\ new[x]["message"] = ls[x]["message"] \cup {j}
      /\ new[x]["error"] = ls[x]["error"] \cup {j}
  BY DEF ListenerType, PortEvent
<1> HIDE DEF new
<1>2. \A v \in ThreadId : \A k \in Job :
        /\ k \in new[v]["message"] <=> k \in ls[v]["message"] \/ (v = x /\ k = j)
        /\ k \in new[v]["error"] <=> k \in ls[v]["error"] \/ (v = x /\ k = j)
  BY <1>1
<1>3. \A v \in ThreadId : new[v]["error"] \subseteq Job
  BY <1>1 DEF ListenerType, PortEvent
<1>4. Places(q, new, pr, ws, {})
  <2>1. \A k \in Job : In(q, k) => pr[k] = "pending" /\ \A v \in ThreadId : k \notin new[v]["message"]
    BY <1>2 DEF Places
  <2>2. \A k \in Job : pr[k] = "none" => \A v \in ThreadId : k \notin new[v]["message"]
    BY <1>2 DEF Places
  <2>3. \A y, v \in ThreadId : \A k \in Job : k \in new[y]["message"] /\ k \in new[v]["message"] => y = v
    BY <1>2 DEF Places
  <2>4. \A v \in ThreadId : \A k \in new[v]["error"] : pr[k] = "pending" /\ k \in new[v]["message"]
    BY <1>2, <1>3 DEF Places
  <2>5. \A k \in Job : pr[k] = "pending" => In(q, k) \/ \E v \in ws : k \in new[v]["error"]
    BY <1>2 DEF Places
  <2>. QED BY <2>1, <2>2, <2>3, <2>4, <2>5 DEF Places
<1>. QED BY <1>4 DEF new

\* The jobs an error would have settled are settled, and their listeners are gone.
LEMMA JobsSettled ==
    ASSUME NEW q \in Seq(Job), NEW ls \in ListenerType, NEW new \in ListenerType,
           NEW ws \in SUBSET ThreadId, NEW ws2 \in SUBSET ThreadId,
           NEW pr \in [Job -> {"none", "pending", "resolved", "rejected"}],
           NEW pr2 \in [Job -> {"none", "pending", "resolved", "rejected"}],
           Places(q, ls, pr, ws, {}), NEW w \in ThreadId,
           NEW how \in {"resolved", "rejected"},
           \A j \in Job : pr2[j] = IF j \in ls[w]["error"] /\ pr[j] = "pending" THEN how ELSE pr[j],
           \A v \in ThreadId : v # w => new[v] = ls[v],
           new[w]["message"] \subseteq ls[w]["message"], new[w]["error"] = {},
           ws \ {w} \subseteq ws2
    PROVE  Places(q, new, pr2, ws2, {})
<1>1. \A j \in Job : pr2[j] = IF j \in ls[w]["error"] THEN how ELSE pr[j]
  BY DEF Places
<1>2. \A v \in ThreadId : new[v]["message"] \subseteq ls[v]["message"]
  OBVIOUS
<1>3. \A v \in ThreadId : \A j \in new[v]["error"] :
        j \in ls[v]["error"] /\ j \in new[v]["message"] /\ j \notin ls[w]["error"] /\ j \in Job
  BY DEF Places, ListenerType, PortEvent
<1>4. Places(q, new, pr2, ws2, {})
  <2>1. \A j \in Job : In(q, j) => pr2[j] = "pending" /\ \A v \in ThreadId : j \notin new[v]["message"]
    BY <1>1, <1>2 DEF Places
  <2>2. \A j \in Job : pr2[j] = "none" => \A v \in ThreadId : j \notin new[v]["message"]
    BY <1>1, <1>2 DEF Places
  <2>3. \A x, v \in ThreadId : \A j \in Job : j \in new[x]["message"] /\ j \in new[v]["message"] => x = v
    BY <1>2 DEF Places
  <2>4. \A v \in ThreadId : \A j \in new[v]["error"] : pr2[j] = "pending" /\ j \in new[v]["message"]
    BY <1>1, <1>3 DEF Places
  <2>5. \A j \in Job : pr2[j] = "pending" => In(q, j) \/ \E v \in ws2 : j \in new[v]["error"]
    BY <1>1 DEF Places
  <2>. QED BY <2>1, <2>2, <2>3, <2>4, <2>5 DEF Places
<1>. QED BY <1>4

-----------------------------------------------------------------------------
(* One step                                                                *)

LEMMA InitPool == Init => PoolInv
<1> SUFFICES ASSUME Init PROVE PoolInv
  OBVIOUS
<1>1. \A w \in ThreadId : \A e \in PortEvent : listeners[w][e] = {}
  BY DEF Init, NoListeners
<1>2. \A w \in ThreadId : L(w) = {} /\ listeners[w]["messageerror"] = {} /\ listeners[w]["error"] = {}
  BY <1>1 DEF PortEvent, L
<1>3. ASSUME NEW w \in ThreadId PROVE ThreadInv(w)
  <2>1. /\ w \in Nat /\ inbox[w] = {} /\ port[w] = {} /\ w \notin active_workers
        /\ thread[w] = IF w <= number_of_workers THEN "starting" ELSE "unborn"
        /\ w \in workers <=> w <= number_of_workers
    BY ThreadIdFacts DEF Init, ThreadId
  <2>2. spawned = number_of_workers
    BY DEF Init
  <2>3. L(w) = {} /\ listeners[w]["messageerror"] = {} /\ listeners[w]["error"] = {}
    BY <1>2
  <2>4. Unborn(w)
    BY <2>1, <2>2, <2>3, PoolAssumption DEF Unborn
  <2>5. Listening(w)
    BY <2>1, <2>3 DEF Listening
  <2>6. Sending(w) /\ Working(w)
    BY <2>1, <2>3 DEF Sending, Working
  <2>. QED BY <2>4, <2>5, <2>6 DEF ThreadInv
<1>4. JobInv
  <2>1. job_queue = <<>> /\ promise = [j \in Job |-> "none"]
    BY DEF Init
  <2>. QED BY <1>2, <2>1 DEF JobInv, Places, In, L
<1>5. OwnAnswer /\ Crash
  BY DEF Init, OwnAnswer, Crash
<1>. QED BY <1>3, <1>4, <1>5 DEF PoolInv

\* A step that leaves a thread and what the pool knows of it alone.
LEMMA Still ==
    ASSUME NEW w \in ThreadId, ThreadInv(w),
           thread'[w] = thread[w], listeners'[w] = listeners[w],
           inbox'[w] = inbox[w], port'[w] = port[w],
           w \in workers' <=> w \in workers, w \in active_workers' <=> w \in active_workers,
           w > spawned' <=> w > spawned, closed' = closed, crashed => crashed'
    PROVE  ThreadInv(w)'
BY DEF ThreadInv, Unborn, Listening, Sending, Working, About, L, Live

LEMMA RunKeeps ==
    ASSUME TypeOK, PoolInv, NEW j \in Job, run(j)
    PROVE  PoolInv'
<1>1. /\ ~crashed /\ promise[j] = "none" /\ promise' = [promise EXCEPT ![j] = "pending"]
      /\ UNCHANGED <<workers, answer, thread, port, spawned, closed, crashed>>
  BY DEF run
<1>2. OwnAnswer' /\ Crash'
  <2>1. \A k \in Job : promise'[k] \in {"resolved", "rejected"} => promise[k] = promise'[k]
    BY <1>1 DEF TypeOK
  <2>. QED BY <1>1, <2>1 DEF OwnAnswer, Crash, PoolInv
<1>3. Places(job_queue, listeners, promise', workers, {j})
  BY <1>1, JobSubmitted DEF PoolInv, JobInv, TypeOK, ListenerType
<1>4. promise' \in [Job -> {"none", "pending", "resolved", "rejected"}]
  BY <1>1 DEF TypeOK
<1>5. CASE availableWorkers = {}
  <2>1. job_queue' = Append(job_queue, j) /\ UNCHANGED <<active_workers, listeners, inbox>>
    BY <1>5 DEF run
  <2>2. \A w \in ThreadId : ThreadInv(w)'
    BY <1>1, <2>1, Still DEF PoolInv
  <2>3. JobInv'
    BY <1>1, <1>3, <1>4, <2>1, JobQueued DEF JobInv, TypeOK, ListenerType
  <2>. QED BY <1>2, <2>2, <2>3 DEF PoolInv
<1>6. CASE availableWorkers # {}
  <2>1. PICK w \in availableWorkers : runWorker(w, threadId(w), j, listeners, active_workers, inbox)
    BY <1>6 DEF run
  <2>2. w \in workers /\ w \in ThreadId /\ w \notin active_workers /\ job_queue' = job_queue
    BY <1>6 DEF availableWorkers, TypeOK, run
  <2>3. listeners' = [listeners EXCEPT ![w] = [e \in PortEvent |-> @[e] \cup {j}]]
    BY <2>1 DEF runWorker
  <2>4. JobInv'
    <3>1. job_queue \in Seq(Job) /\ listeners \in ListenerType /\ workers \in SUBSET ThreadId
      BY DEF TypeOK, ListenerType
    <3>2. Places(job_queue, [listeners EXCEPT ![w] = [e \in PortEvent |-> @[e] \cup {j}]],
                 promise', workers, {})
      BY <1>3, <1>4, <2>2, <3>1, JobListenedFor
    <3>3. Places(job_queue, listeners', promise', workers, {})
      BY <2>3, <3>2
    <3>. QED BY <1>1, <2>2, <3>3 DEF JobInv
  <2>5. /\ \A v \in ThreadId : v # w => listeners'[v] = listeners[v] /\ inbox'[v] = inbox[v]
        /\ \A v \in ThreadId : v # w => (v \in active_workers' <=> v \in active_workers)
        /\ \A e \in PortEvent : listeners'[w][e] = listeners[w][e] \cup {j}
    BY <2>1, <2>2, <2>3, ThreadIdFacts DEF runWorker, TypeOK, threadId
  <2>6. ASSUME NEW v \in ThreadId, v # w PROVE ThreadInv(v)'
    <3>1. listeners'[v] = listeners[v] /\ inbox'[v] = inbox[v]
          /\ (v \in active_workers' <=> v \in active_workers)
      BY <2>5, <2>6
    <3>. QED BY <1>1, <3>1, Still DEF PoolInv
  <2>7. ThreadInv(w)'
    <3>1. ThreadInv(w)
      BY <2>2 DEF PoolInv
    <3>2. /\ L(w)' = L(w) \cup {j}
          /\ listeners'[w]["messageerror"] = listeners[w]["messageerror"] \cup {j}
          /\ listeners'[w]["error"] = listeners[w]["error"] \cup {j}
      BY <2>5 DEF PortEvent, L
    <3>3. /\ thread'[w] = thread[w] /\ port'[w] = port[w] /\ spawned' = spawned
          /\ closed' = closed /\ w \in workers' /\ crashed' = FALSE
      BY <1>1, <2>2 DEF TypeOK
    <3>4. CASE thread[w] = "exited"
      <4>1. closed /\ port[w] = {}
        BY <2>2, <3>1, <3>4 DEF ThreadInv, Listening, Working
      <4>. QED BY <2>2, <3>1, <3>2, <3>3, <3>4, <4>1
               DEF ThreadInv, Unborn, Listening, Sending, Working, L, Live
    <3>5. CASE thread[w] # "exited"
      <4>1. L(w) = {} /\ inbox[w] = {} /\ listeners[w]["error"] = {} /\ listeners[w]["messageerror"] = {}
        <5>1. L(w) = {} /\ listeners[w]["error"] = {} /\ listeners[w]["messageerror"] = {}
          BY <2>2, <3>1, <3>5 DEF ThreadInv, Listening
        <5>2. \A k \in inbox[w] : L(w) = {k}
          BY <3>1, <3>5 DEF ThreadInv, Working, Live
        <5>. QED BY <5>1, <5>2
      <4>2. inbox'[w] = {j} /\ w \in active_workers'
        <5>1. threadId(w) = w /\ w # Exited
          BY <2>2, <3>5, ThreadIdFacts DEF threadId
        <5>2. inbox' = [inbox EXCEPT ![w] = @ \cup {j}] /\ active_workers' = active_workers \cup {w}
          BY <2>1, <5>1 DEF runWorker
        <5>. QED BY <2>2, <4>1, <5>2 DEF TypeOK
      <4>3. L(w)' = {j} /\ listeners'[w]["messageerror"] = {j} /\ listeners'[w]["error"] = {j}
        BY <3>2, <4>1
      <4>4. thread[w] # "failing" => port[w] = {}
        BY <3>1, <4>1 DEF ThreadInv, Sending, About
      <4>5. \A ev \in port[w] : ev.event = "error" /\ ev.job = NoJob /\ thread[w] = "failing"
        BY <3>1, <4>1 DEF ThreadInv, Sending, About
      <4>6. Unborn(w)'
        BY <2>2, <3>1, <3>3 DEF ThreadInv, Unborn
      <4>7. Listening(w)'
        BY <3>3, <3>5, <4>2, <4>3 DEF Listening, L
      <4>8. Sending(w)'
        BY <3>1, <3>3, <4>5 DEF ThreadInv, Sending, About
      <4>9. Working(w)'
        BY <1>1, <2>2, <3>1, <3>3, <3>5, <4>2, <4>3, <4>4 DEF ThreadInv, Working
      <4>. QED BY <4>6, <4>7, <4>8, <4>9 DEF ThreadInv
    <3>. QED BY <3>4, <3>5
  <2>8. \A v \in ThreadId : ThreadInv(v)'
    BY <2>6, <2>7
  <2>. QED BY <1>2, <2>4, <2>8 DEF PoolInv
<1>. QED BY <1>5, <1>6

\* What runNextJob makes of the listeners, active workers, promises and workers it finds:
\* the next job, if the queue has one, is listened for on the worker and posted to it.
NextStarted(x, ls, act, ws, pr) ==
    /\ Places(job_queue', listeners', pr, ws, {})
    /\ \A v \in ThreadId : v # x =>
        /\ listeners'[v] = ls[v] /\ inbox'[v] = inbox[v]
        /\ v \in active_workers' <=> v \in act
    /\ \E js \in SUBSET Job :
        /\ \A k, l \in js : k = l
        /\ \A e \in PortEvent : listeners'[x][e] = js
        /\ inbox'[x] = js
        /\ x \in active_workers' <=> js # {}

LEMMA NextJobKeeps ==
    ASSUME TypeOK, NEW x \in ThreadId, NEW ls \in ListenerType,
           NEW act \in SUBSET (ThreadId \cup {Exited}), NEW ws \in SUBSET ThreadId, x \in ws,
           NEW pr \in [Job -> {"none", "pending", "resolved", "rejected"}],
           Places(job_queue, ls, pr, ws, {}),
           runNextJob(x, x, ls, act, inbox), x \notin act,
           inbox[x] = {}, \A e \in PortEvent : ls[x][e] = {}
    PROVE  NextStarted(x, ls, act, ws, pr)
<1>1. CASE job_queue = <<>>
  <2>1. active_workers' = act /\ listeners' = ls /\ inbox' = inbox /\ job_queue' = job_queue
    BY <1>1 DEF runNextJob
  <2>. QED BY <2>1 DEF NextStarted
<1>2. CASE job_queue # <<>>
  <2> DEFINE j == Head(job_queue)
             q == Tail(job_queue)
  <2>1. j \in Job /\ job_queue \in Seq(Job) /\ q \in Seq(Job)
    BY <1>2 DEF TypeOK
  <2>2. Places(q, ls, pr, ws, {j})
    BY <1>2, <2>1, JobShifted
  <2>3. runWorker(x, x, j, ls, act, inbox) /\ job_queue' = q
    BY <1>2 DEF runNextJob
  <2> HIDE DEF j, q
  <2>4. Places(q, [ls EXCEPT ![x] = [e \in PortEvent |-> @[e] \cup {j}]], pr, ws, {})
    BY <2>1, <2>2, JobListenedFor
  <2>5. /\ listeners' = [ls EXCEPT ![x] = [e \in PortEvent |-> @[e] \cup {j}]]
        /\ inbox' = [inbox EXCEPT ![x] = @ \cup {j}]
        /\ active_workers' = act \cup {x}
    BY <2>3, ThreadIdFacts DEF runWorker
  <2>6. Places(job_queue', listeners', pr, ws, {})
    BY <2>3, <2>4, <2>5
  <2>7. /\ \A v \in ThreadId : v # x => listeners'[v] = ls[v] /\ inbox'[v] = inbox[v]
        /\ \A e \in PortEvent : listeners'[x][e] = {j}
        /\ inbox'[x] = {j}
    BY <2>5 DEF ListenerType, TypeOK
  <2>. QED BY ZenonT(60), <2>1, <2>5, <2>6, <2>7 DEF NextStarted
<1>. QED BY <1>1, <1>2

LEMMA SettledWithOwn ==
    ASSUME TypeOK, OwnAnswer, NEW js \in SUBSET Job, NEW how \in {"resolved", "rejected"},
           NEW from, settle(js, how, from),
           \A j \in js : j = from \/ (how = "rejected" /\ from = NoJob)
    PROVE  OwnAnswer'
<1>1. \A j \in Job : \/ promise'[j] = promise[j] /\ answer'[j] = answer[j]
                     \/ j \in js /\ promise'[j] = how /\ answer'[j] = from
  BY DEF settle, TypeOK
<1>. QED BY <1>1 DEF OwnAnswer

\* A worker that has sent its event and is listened to for at most one job, which it has.
LEMMA Idle ==
    ASSUME NEW x \in ThreadId, NEW js \in SUBSET Job, \A k, l \in js : k = l,
           thread'[x] \in {"starting", "online", "terminated"},
           thread'[x] = "terminated" => closed', x \in workers', ~(x > spawned'),
           \A e \in PortEvent : listeners'[x][e] = js,
           inbox'[x] = js, port'[x] = {}, x \in active_workers' <=> js # {}
    PROVE  ThreadInv(x)'
<1>1. L(x)' = js /\ listeners'[x]["messageerror"] = js /\ listeners'[x]["error"] = js
  BY DEF PortEvent, L
<1>2. Unborn(x)'
  BY DEF Unborn
<1>3. Listening(x)'
  BY <1>1 DEF Listening
<1>4. Sending(x)'
  BY DEF Sending
<1>5. Working(x)'
  BY <1>1 DEF Working
<1>. QED BY <1>2, <1>3, <1>4, <1>5 DEF ThreadInv

LEMMA OnOutputKeeps ==
    ASSUME TypeOK, PoolInv, ~crashed, NEW w \in ThreadId, NEW ev \in port[w],
           ev.event \in {"message", "messageerror"}, NEW how \in {"resolved", "rejected"},
           onOutput(w, ev, how)
    PROVE  PoolInv'
<1> DEFINE new == [listeners EXCEPT ![w] = NoListeners]
           act == active_workers \ {w}
           pr == [j \in Job |-> IF j \in listeners[w]["error"] /\ promise[j] = "pending"
                               THEN how ELSE promise[j]]
<1>1. ThreadInv(w)
  BY DEF PoolInv
<1>2. L(w) = {ev.job} /\ thread[w] \in {"online", "terminated"}
  BY <1>1 DEF ThreadInv, Sending, About
<1>3. /\ w \in workers /\ inbox[w] = {} /\ port[w] = {ev} /\ threadId(w) = w
      /\ thread[w] = "terminated" => closed
      /\ ~(w > spawned)
  BY <1>1, <1>2 DEF ThreadInv, Working, Sending, Unborn, threadId
<1>4. listeners[w][ev.event] = {ev.job} /\ listeners[w]["error"] = {ev.job} /\ ev.job \in Job
  <2>1. listeners[w]["messageerror"] = L(w) /\ listeners[w]["error"] = L(w)
    BY <1>1, <1>2, <1>3 DEF ThreadInv, Listening
  <2>2. L(w) \in SUBSET Job
    BY DEF TypeOK, L, PortEvent
  <2>. QED BY <1>2, <2>1, <2>2 DEF L
<1>5. /\ take(w, ev) /\ settle({ev.job}, how, ev.job)
      /\ runNextJob(w, w, new, act, inbox)
      /\ UNCHANGED <<workers, thread, spawned, closed, crashed>>
  BY <1>3, <1>4 DEF onOutput
<1>6. promise' = pr /\ OwnAnswer'
  <2>1. OwnAnswer'
    BY <1>4, <1>5, SettledWithOwn DEF PoolInv
  <2>. QED BY <1>4, <1>5, <2>1 DEF settle
<1>7. /\ new \in ListenerType /\ act \in SUBSET (ThreadId \cup {Exited})
      /\ \A v \in ThreadId : v # w => new[v] = listeners[v]
      /\ \A e \in PortEvent : new[w][e] = {}
  BY DEF TypeOK, ListenerType, NoListeners
<1>8. /\ job_queue \in Seq(Job) /\ listeners \in ListenerType /\ workers \in SUBSET ThreadId
      /\ promise \in [Job -> {"none", "pending", "resolved", "rejected"}]
      /\ pr \in [Job -> {"none", "pending", "resolved", "rejected"}]
  BY DEF TypeOK, ListenerType
<1> HIDE DEF new, act
<1>9. Places(job_queue, new, pr, workers, {})
  <2>1. new[w]["message"] = {} /\ new[w]["error"] = {}
    BY <1>7 DEF PortEvent
  <2>2. Places(job_queue, listeners, promise, workers, {})
    BY DEF PoolInv, JobInv
  <2>3. new[w]["message"] \subseteq listeners[w]["message"] /\ workers \ {w} \subseteq workers
    BY <2>1
  <2>4. new \in ListenerType /\ \A v \in ThreadId : v # w => new[v] = listeners[v]
    BY <1>7
  <2>5. \A j \in Job : pr[j] = IF j \in listeners[w]["error"] /\ promise[j] = "pending"
                              THEN how ELSE promise[j]
    OBVIOUS
  <2> HIDE DEF pr
  <2>. QED BY <1>8, <2>1, <2>2, <2>3, <2>4, <2>5, JobsSettled
<1> HIDE DEF pr
<1>10. NextStarted(w, new, act, workers, pr)
  <2>1. w \notin act
    BY DEF act
  <2>2. runNextJob(w, w, new, act, inbox) /\ inbox[w] = {} /\ w \in workers
    BY <1>3, <1>5
  <2>3. /\ new \in ListenerType /\ act \in SUBSET (ThreadId \cup {Exited})
        /\ \A e \in PortEvent : new[w][e] = {}
    BY <1>7
  <2>4. workers \in SUBSET ThreadId /\ pr \in [Job -> {"none", "pending", "resolved", "rejected"}]
    BY <1>8
  <2>. QED BY <1>9, <2>1, <2>2, <2>3, <2>4, NextJobKeeps
<1>11. port'[w] = {} /\ \A v \in ThreadId : v # w => port'[v] = port[v]
  BY <1>3, <1>5 DEF take, TypeOK
<1>12. ThreadInv(w)'
  <2>1. /\ thread'[w] \in {"starting", "online", "terminated"}
        /\ thread'[w] = "terminated" => closed'
        /\ w \in workers' /\ ~(w > spawned')
    BY <1>2, <1>3, <1>5
  <2>. QED BY <1>10, <1>11, <2>1, Idle DEF NextStarted
<1>13. ASSUME NEW v \in ThreadId, v # w PROVE ThreadInv(v)'
  <2>1. /\ listeners'[v] = listeners[v] /\ inbox'[v] = inbox[v] /\ port'[v] = port[v]
        /\ v \in active_workers' <=> v \in active_workers
    BY <1>7, <1>10, <1>11, <1>13 DEF act, NextStarted
  <2>2. ThreadInv(v)
    BY DEF PoolInv
  <2>. QED BY <1>5, <2>1, <2>2, Still
<1>14. \A v \in ThreadId : ThreadInv(v)'
  BY <1>12, <1>13
<1>15. JobInv' /\ Crash'
  BY <1>5, <1>6, <1>10 DEF JobInv, Crash, NextStarted
<1>. QED BY <1>6, <1>14, <1>15 DEF PoolInv

\* A thread fails while it is listened to: what is left of it, and the worker that
\* takes its place.
LEMMA OnErrorEventKeeps ==
    ASSUME TypeOK, PoolInv, ~crashed, spawned < MaxThreads,
           NEW w \in ThreadId, NEW id, NEW from, NEW th \in [ThreadId -> ThreadState],
           onErrorEvent(w, id, from, th), listeners[w]["error"] # {}, w \in workers,
           \/ id = w /\ thread[w] = "failing" /\ th[w] = "failing"
           \/ id = Exited /\ thread[w] = "oom" /\ th[w] = "exited",
           \A v \in ThreadId : v # w => th[v] = thread[v] /\ port'[v] = port[v],
           from = NoJob \/ L(w) = {from}, port'[w] = {}, closed' = closed
    PROVE  PoolInv'
<1> PICK x : x = spawned + 1
  OBVIOUS
<1> DEFINE new == [listeners EXCEPT ![w]["error"] = {}]
           act == active_workers \ {id}
           ws == (workers \ {id}) \cup {x}
           pr == [j \in Job |-> IF j \in listeners[w]["error"] /\ promise[j] = "pending"
                               THEN "rejected" ELSE promise[j]]
<1>1. ThreadInv(w) /\ thread[w] # "exited" /\ thread[w] # "unborn"
  BY DEF PoolInv
<1>2. listeners[w]["error"] = L(w) /\ w \in active_workers /\ L(w) \in SUBSET Job
  <2>1. listeners[w]["error"] = L(w) /\ (w \in active_workers <=> L(w) # {})
    BY <1>1 DEF ThreadInv, Listening
  <2>2. L(w) \in SUBSET Job
    BY DEF TypeOK, L, PortEvent
  <2>. QED BY <2>1, <2>2
<1>3. x \in ThreadId /\ x \in Nat /\ x > spawned /\ x # w /\ spawned \in Nat
  <2>1. x \in ThreadId /\ x \in Nat /\ x > spawned /\ spawned \in Nat
    BY PoolAssumption, ThreadIdFacts DEF TypeOK, ThreadId
  <2>2. ~(w > spawned)
    BY <1>1 DEF ThreadInv, Unborn
  <2>. QED BY <2>1, <2>2
<1>4. /\ settle(listeners[w]["error"], "rejected", from)
      /\ workers' = ws /\ spawned' = x /\ thread' = [th EXCEPT ![x] = "starting"]
      /\ runNextJob(x, x, new, act, inbox)
      /\ crashed' = crashed
  BY DEF onErrorEvent
<1>5. OwnAnswer'
  <2>1. \A j \in L(w) : j = from \/ from = NoJob
    OBVIOUS
  <2>. QED BY <1>2, <1>4, <2>1, SettledWithOwn DEF PoolInv
<1>6. /\ new \in ListenerType
      /\ \A v \in ThreadId : v # w => new[v] = listeners[v]
      /\ new[w]["message"] = L(w) /\ new[w]["error"] = {}
      /\ new[w]["messageerror"] = listeners[w]["messageerror"]
  BY DEF TypeOK, ListenerType, PortEvent, L
<1>7. /\ job_queue \in Seq(Job) /\ listeners \in ListenerType
      /\ workers \in SUBSET ThreadId /\ ws \in SUBSET ThreadId
      /\ act \in SUBSET (ThreadId \cup {Exited})
      /\ promise \in [Job -> {"none", "pending", "resolved", "rejected"}]
      /\ pr \in [Job -> {"none", "pending", "resolved", "rejected"}]
  BY <1>3 DEF TypeOK, ListenerType
<1>8. /\ ThreadInv(x) /\ thread[x] = "unborn" /\ L(x) = {} /\ inbox[x] = {} /\ port[x] = {}
      /\ x \notin workers /\ x \notin active_workers
  BY <1>3 DEF PoolInv, ThreadInv, Unborn
<1>9. \A e \in PortEvent : new[x][e] = {}
  <2>1. listeners[x]["messageerror"] = {} /\ listeners[x]["error"] = {} /\ listeners[x]["message"] = {}
    BY <1>8 DEF ThreadInv, Listening, L
  <2>. QED BY <1>3, <1>6, <2>1 DEF PortEvent
<1>10. promise' = pr /\ \A j \in Job : pr[j] =
          IF j \in listeners[w]["error"] /\ promise[j] = "pending" THEN "rejected" ELSE promise[j]
  BY <1>4 DEF settle
<1>11. x \in ws /\ x \notin act /\ workers \ {w} \subseteq ws
  BY <1>8, ThreadIdFacts DEF TypeOK
<1>12. \A v \in ThreadId : v # w /\ v # x =>
          /\ v \in act <=> v \in active_workers
          /\ v \in ws <=> v \in workers
          /\ thread'[v] = thread[v]
          /\ v > x <=> v > spawned
  BY <1>3, <1>4, ThreadIdFacts
<1>13. w \in ws => id = Exited
  BY <1>3
<1>14. id = Exited => w \in act /\ w \in ws
  BY <1>2, ThreadIdFacts
<1> HIDE DEF new, act, ws, pr
<1>15. Places(job_queue, new, pr, ws, {})
  <2>1. Places(job_queue, listeners, promise, workers, {})
    BY DEF PoolInv, JobInv
  <2>2. new[w]["message"] \subseteq listeners[w]["message"]
    BY <1>6 DEF L
  <2>3. /\ new \in ListenerType /\ new[w]["error"] = {} /\ workers \ {w} \subseteq ws
        /\ \A v \in ThreadId : v # w => new[v] = listeners[v]
        /\ \A j \in Job : pr[j] = IF j \in listeners[w]["error"] /\ promise[j] = "pending"
                                  THEN "rejected" ELSE promise[j]
    BY <1>6, <1>10, <1>11
  <2>. QED BY <1>7, <2>1, <2>2, <2>3, JobsSettled
<1>16. NextStarted(x, new, act, ws, pr)
  <2>1. /\ runNextJob(x, x, new, act, inbox) /\ inbox[x] = {} /\ x \in ws /\ x \notin act
        /\ x \in ThreadId /\ new \in ListenerType
    BY <1>3, <1>4, <1>6, <1>8, <1>11
  <2>2. /\ ws \in SUBSET ThreadId /\ act \in SUBSET (ThreadId \cup {Exited})
        /\ pr \in [Job -> {"none", "pending", "resolved", "rejected"}]
    BY <1>7
  <2>. QED BY <1>9, <1>15, <2>1, <2>2, NextJobKeeps
<1>17. /\ thread'[x] = "starting" /\ ~(x > spawned') /\ x \in workers'
       /\ \/ thread[w] = "failing" /\ thread'[w] = "failing" /\ w \notin workers'
          \/ thread[w] = "oom" /\ thread'[w] = "exited" /\ w \in act
  BY <1>3, <1>4, <1>11, <1>13, <1>14, ThreadIdFacts
<1>18. ThreadInv(x)'
  <2>1. port'[x] = {}
    BY <1>3, <1>8
  <2>. QED BY <1>3, <1>16, <1>17, <2>1, Idle DEF NextStarted
<1>19. ASSUME NEW v \in ThreadId, v # w, v # x PROVE ThreadInv(v)'
  <2>1. /\ listeners'[v] = listeners[v] /\ inbox'[v] = inbox[v] /\ port'[v] = port[v]
        /\ v \in active_workers' <=> v \in active_workers
        /\ v \in workers' <=> v \in workers
        /\ thread'[v] = thread[v]
    BY <1>4, <1>6, <1>12, <1>16, <1>19 DEF NextStarted
  <2>2. ThreadInv(v)
    BY DEF PoolInv
  <2>3. v > spawned' <=> v > spawned
    BY <1>4, <1>12, <1>19
  <2>. QED BY <1>4, <2>1, <2>2, <2>3, Still
<1>20. ThreadInv(w)'
  <2>1. /\ L(w)' = L(w) /\ listeners'[w]["error"] = {}
        /\ listeners'[w]["messageerror"] = listeners[w]["messageerror"]
        /\ inbox'[w] = inbox[w]
        /\ w \in active_workers' <=> w \in act
    BY <1>3, <1>6, <1>16 DEF L, NextStarted
  <2>2. Unborn(w)'
    <3>1. ~(w > spawned) /\ w \in Nat
      BY <1>1, ThreadIdFacts DEF ThreadInv, Unborn
    <3>2. ~(w > spawned')
      BY <1>3, <1>4, <1>12, <3>1
    <3>. QED BY <1>17, <3>2 DEF Unborn
  <2>3. Listening(w)'
    BY <1>1, <1>17, <2>1 DEF ThreadInv, Listening, Live, L
  <2>4. Sending(w)'
    BY DEF Sending
  <2>5. Working(w)'
    BY <1>1, <1>17, <2>1 DEF ThreadInv, Working, Live
  <2>. QED BY <2>2, <2>3, <2>4, <2>5 DEF ThreadInv
<1>21. \A v \in ThreadId : ThreadInv(v)'
  BY <1>18, <1>19, <1>20
<1>22. JobInv' /\ Crash'
  BY <1>4, <1>10, <1>16 DEF JobInv, Crash, NextStarted
<1>. QED BY <1>5, <1>21, <1>22 DEF PoolInv

LEMMA OnErrorKeeps ==
    ASSUME TypeOK, PoolInv, ~crashed, NEW w \in ThreadId, onError(w)
    PROVE  PoolInv'
<1>1. PICK ev \in port[w] : ev.event = "error" /\ take(w, ev) /\ onErrorEvent(w, w, ev.job, thread)
  BY DEF onError
<1>2. ThreadInv(w) /\ thread[w] = "failing" /\ spawned < MaxThreads /\ closed' = closed
  BY DEF PoolInv, onError
<1>3. /\ w \in workers /\ port[w] = {ev}
      /\ ev.job = NoJob \/ L(w) = {ev.job}
  BY <1>1, <1>2 DEF ThreadInv, Sending, About
<1>4. port'[w] = {} /\ \A v \in ThreadId : v # w => port'[v] = port[v]
  BY <1>1, <1>3 DEF take, TypeOK
<1>5. CASE listeners[w]["error"] # {}
  <2>1. thread \in [ThreadId -> ThreadState]
    BY DEF TypeOK
  <2>. QED BY <1>1, <1>2, <1>3, <1>4, <1>5, <2>1, OnErrorEventKeeps
<1>6. CASE listeners[w]["error"] = {}
  <2>1. crashed' = TRUE /\ thread' = thread /\ UNCHANGED <<poolVars, inbox, spawned>>
    BY <1>1, <1>6 DEF onErrorEvent
  <2>2. L(w) = {} /\ w \notin active_workers
    BY <1>2, <1>3, <1>6 DEF ThreadInv, Listening
  <2>3. Crash'
    BY <1>2, <1>3, <2>1, <2>2 DEF Crash, poolVars
  <2>4. JobInv' /\ OwnAnswer'
    BY <2>1 DEF PoolInv, JobInv, OwnAnswer, poolVars
  <2>5. ASSUME NEW v \in ThreadId, v # w PROVE ThreadInv(v)'
    BY <1>2, <1>4, <2>1, <2>5, Still DEF PoolInv, poolVars
  <2>6. ThreadInv(w)'
    BY <1>2, <1>4, <2>1, <2>2
       DEF ThreadInv, Unborn, Listening, Sending, Working, L, Live, poolVars
  <2>7. \A v \in ThreadId : ThreadInv(v)'
    BY <2>5, <2>6
  <2>. QED BY <2>3, <2>4, <2>7 DEF PoolInv
<1>. QED BY <1>5, <1>6

LEMMA OnOutOfMemoryKeeps ==
    ASSUME TypeOK, PoolInv, ~crashed, NEW w \in ThreadId, onOutOfMemory(w)
    PROVE  PoolInv'
<1> DEFINE th == [thread EXCEPT ![w] = "exited"]
<1>1. /\ ThreadInv(w) /\ thread[w] = "oom" /\ spawned < MaxThreads /\ closed' = closed
      /\ port[w] = {} /\ port' = port /\ onErrorEvent(w, Exited, NoJob, th)
  BY DEF PoolInv, onOutOfMemory
<1>2. w \in workers /\ listeners[w]["error"] # {}
  BY <1>1 DEF ThreadInv, Working, Listening
<1>3. th \in [ThreadId -> ThreadState] /\ th[w] = "exited" /\ \A v \in ThreadId : v # w => th[v] = thread[v]
  BY DEF TypeOK, ThreadState
<1> HIDE DEF th
<1>. QED BY <1>1, <1>2, <1>3, OnErrorEventKeeps

\* The steps that only change threads, once the threads are seen to.
LEMMA ThreadsOnly ==
    ASSUME PoolInv, UNCHANGED poolVars, crashed' = FALSE, \A v \in ThreadId : ThreadInv(v)'
    PROVE  PoolInv'
BY DEF PoolInv, JobInv, OwnAnswer, Crash, poolVars

LEMMA ClosePoolKeeps ==
    ASSUME TypeOK, PoolInv, closePool
    PROVE  PoolInv'
<1>1. /\ closed' /\ ~crashed /\ crashed' = FALSE /\ UNCHANGED <<poolVars, inbox, port, spawned>>
  BY DEF closePool, TypeOK
<1>2. ASSUME NEW w \in ThreadId PROVE ThreadInv(w)'
  <2>1. ThreadInv(w)
    BY DEF PoolInv
  <2>2. \/ thread'[w] = thread[w]
        \/ thread[w] \in {"starting", "online"} /\ thread'[w] = "terminated"
    BY DEF closePool
  <2>3. thread'[w] \notin {"starting", "online"} \/ w \notin workers
    BY DEF closePool
  <2>4. Unborn(w)'
    BY <1>1, <2>1, <2>2 DEF ThreadInv, Unborn, L, poolVars
  <2>5. Listening(w)'
    BY <1>1, <2>1, <2>2 DEF ThreadInv, Listening, L, Live, poolVars
  <2>6. Sending(w)'
    BY <1>1, <2>1, <2>2 DEF ThreadInv, Sending, About, Working, L, poolVars
  <2>7. Working(w)'
    BY <1>1, <2>1, <2>2, <2>3 DEF ThreadInv, Working, L, Live, poolVars
  <2>. QED BY <2>4, <2>5, <2>6, <2>7 DEF ThreadInv
<1>. QED BY <1>1, <1>2, ThreadsOnly

LEMMA ThreadKeeps ==
    ASSUME TypeOK, PoolInv, ~crashed, NEW w \in ThreadId,
           threadExits(w) \/ ThreadStep(w) \/ Fault(w)
    PROVE  PoolInv'
<1>1. crashed' = FALSE /\ UNCHANGED <<poolVars, spawned, closed>>
  BY DEF threadExits, ThreadStep, threadOnline, threadAnswers, Fault, threadLoadFails,
         threadThrows, threadOutOfMemory, threadFails, TypeOK
<1>2. ASSUME NEW v \in ThreadId, v # w PROVE ThreadInv(v)'
  <2>1. thread'[v] = thread[v] /\ inbox'[v] = inbox[v] /\ port'[v] = port[v]
    BY <1>2 DEF threadExits, ThreadStep, threadOnline, threadAnswers, Fault, threadLoadFails,
                threadThrows, threadOutOfMemory, threadFails, TypeOK
  <2>. QED BY <1>1, <2>1, Still DEF PoolInv, poolVars
<1>3. ThreadInv(w)
  BY DEF PoolInv
<1>4. ASSUME threadExits(w) PROVE ThreadInv(w)'
  <2>1. /\ thread[w] \in {"failing", "terminated"} /\ thread'[w] = "exited"
        /\ port'[w] = {} /\ inbox' = inbox
    BY <1>4 DEF threadExits, TypeOK
  <2>2. w \in workers => closed
    BY <1>3, <1>4 DEF ThreadInv, Working, threadExits
  <2>3. thread[w] = "terminated" => closed
    BY <1>3 DEF ThreadInv, Working
  <2>. QED BY <1>1, <1>3, <2>1, <2>2, <2>3
           DEF ThreadInv, Unborn, Listening, Sending, Working, L, Live, poolVars
<1>5. ASSUME threadOnline(w) PROVE ThreadInv(w)'
  <2>1. /\ thread[w] = "starting" /\ thread'[w] = "online" /\ port' = port /\ inbox' = inbox
        /\ port[w] = {}
    BY <1>3, <1>5 DEF threadOnline, TypeOK, ThreadInv, Working
  <2>. QED BY <1>1, <1>3, <2>1
           DEF ThreadInv, Unborn, Listening, Sending, Working, L, Live, poolVars
<1>6. ASSUME threadAnswers(w) PROVE ThreadInv(w)'
  <2>1. PICK j \in inbox[w], e \in {"message", "messageerror"} :
          /\ inbox' = [inbox EXCEPT ![w] = @ \ {j}]
          /\ port' = [port EXCEPT ![w] = @ \cup {[event |-> e, job |-> j]}]
    BY <1>6 DEF threadAnswers
  <2>2. thread[w] = "online" /\ thread' = thread /\ L(w) = {j} /\ port[w] = {} /\ w \in workers
    BY <1>3, <1>6 DEF threadAnswers, ThreadInv, Working, Live
  <2>3. inbox[w] = {j}
    BY <1>3, <2>2 DEF ThreadInv, Working, Live
  <2>4. inbox'[w] = {} /\ port'[w] = {[event |-> e, job |-> j]}
    BY <2>1, <2>2, <2>3 DEF TypeOK
  <2>5. Unborn(w)' /\ Listening(w)'
    BY <1>1, <1>3, <2>2 DEF ThreadInv, Unborn, Listening, L, Live, poolVars
  <2>6. Sending(w)'
    BY <1>1, <2>2, <2>4 DEF Sending, About, L, poolVars
  <2>7. Working(w)'
    BY <1>1, <2>2, <2>4 DEF Working, L, Live, poolVars
  <2>. QED BY <2>5, <2>6, <2>7 DEF ThreadInv
<1>7. ASSUME NEW from \in {NoJob} \cup L(w), threadFails(w, "failing", ErrorOf(from)),
             thread[w] = "starting" \/ (thread[w] = "online" /\ inbox[w] # {}),
             from # NoJob => L(w) = {from}
      PROVE  ThreadInv(w)'
  <2>1. port[w] = {} /\ w \in workers
    BY <1>3, <1>7 DEF ThreadInv, Working
  <2>2. /\ thread'[w] = "failing" /\ inbox'[w] = {}
        /\ port'[w] = {[event |-> "error", job |-> from]}
    BY <1>7, <2>1 DEF threadFails, ErrorOf, TypeOK
  <2>3. Unborn(w)' /\ Listening(w)'
    BY <1>1, <1>3, <1>7, <2>2 DEF ThreadInv, Unborn, Listening, L, Live, poolVars
  <2>4. Sending(w)'
    BY <1>1, <1>7, <2>1, <2>2 DEF Sending, About, L, poolVars
  <2>5. Working(w)'
    BY <1>1, <2>2 DEF Working, L, Live, poolVars
  <2>. QED BY <2>3, <2>4, <2>5 DEF ThreadInv
<1>8. ASSUME threadLoadFails(w) PROVE ThreadInv(w)'
  BY <1>7, <1>8 DEF threadLoadFails
<1>9. ASSUME threadThrows(w) PROVE ThreadInv(w)'
  <2>1. PICK j \in inbox[w] : threadFails(w, "failing", ErrorOf(j))
    BY <1>9 DEF threadThrows
  <2>2. thread[w] = "online" /\ L(w) = {j}
    BY <1>3, <1>9 DEF threadThrows, ThreadInv, Working, Live
  <2>. QED BY <1>7, <2>1, <2>2
<1>10. ASSUME threadOutOfMemory(w) PROVE ThreadInv(w)'
  <2>1. thread[w] = "online" /\ inbox[w] # {} /\ threadFails(w, "oom", {})
    BY <1>10 DEF threadOutOfMemory
  <2>2. port[w] = {} /\ w \in workers /\ L(w) # {}
    BY <1>3, <2>1 DEF ThreadInv, Working, Live
  <2>3. thread'[w] = "oom" /\ inbox'[w] = {} /\ port'[w] = {}
    BY <2>1, <2>2 DEF threadFails, TypeOK
  <2>4. Unborn(w)' /\ Listening(w)'
    BY <1>1, <1>3, <2>1, <2>3 DEF ThreadInv, Unborn, Listening, L, Live, poolVars
  <2>5. Sending(w)' /\ Working(w)'
    BY <1>1, <2>2, <2>3 DEF Sending, Working, L, Live, poolVars
  <2>. QED BY <2>4, <2>5 DEF ThreadInv
<1>11. \A v \in ThreadId : ThreadInv(v)'
  BY <1>2, <1>4, <1>5, <1>6, <1>8, <1>9, <1>10 DEF ThreadStep, Fault
<1>. QED BY <1>1, <1>11, ThreadsOnly

LEMMA NextPool == TypeOK /\ PoolInv /\ [Next]_vars => PoolInv'
<1> SUFFICES ASSUME TypeOK, PoolInv, [Next]_vars PROVE PoolInv'
  OBVIOUS
<1>1. ASSUME NEW w \in ThreadId, MainLoop(w) PROVE PoolInv'
  BY <1>1, OnOutputKeeps, OnErrorKeeps, OnOutOfMemoryKeeps, ThreadKeeps
     DEF MainLoop, onMessage, onMessageError
<1>2. ASSUME NEW w \in ThreadId, ThreadStep(w) \/ Fault(w) PROVE PoolInv'
  BY <1>2, ThreadKeeps DEF ThreadStep, Fault
<1>3. ASSUME UNCHANGED vars PROVE PoolInv'
  <2>1. \A w \in ThreadId : ThreadInv(w)'
    BY <1>3, Still DEF vars, poolVars, threadVars, PoolInv
  <2>. QED BY <1>3, <2>1 DEF vars, poolVars, PoolInv, JobInv, OwnAnswer, Crash, threadVars
<1>. QED BY <1>1, <1>2, <1>3, RunKeeps, ClosePoolKeeps DEF Next

LEMMA PoolHolds == Spec => [](TypeOK /\ PoolInv)
BY InitType, NextType, InitPool, NextPool, PTL DEF Spec

LEMMA NoneLost == TypeOK /\ PoolInv => NoLostJob
<1> SUFFICES ASSUME TypeOK, PoolInv, ~closed, NEW j \in Job, promise[j] = "pending"
             PROVE  /\ Queued(j) # \E w \in workers : InFlightOn(j, w)
                    /\ \A w, v \in workers : InFlightOn(j, w) /\ InFlightOn(j, v) => w = v
                    /\ \A w \in workers : InFlightOn(j, w) => Owed(w)
  BY DEF NoLostJob
<1>1. workers \subseteq ThreadId /\ JobInv
  BY DEF TypeOK, PoolInv
<1>2. Queued(j) # \E w \in workers : InFlightOn(j, w)
  BY <1>1 DEF JobInv, Places, In, Queued, InFlightOn
<1>3. \A w, v \in workers : InFlightOn(j, w) /\ InFlightOn(j, v) => w = v
  BY <1>1 DEF JobInv, Places, InFlightOn
<1>4. ASSUME NEW w \in workers, InFlightOn(j, w) PROVE Owed(w)
  <2>1. ThreadInv(w) /\ thread[w] \in ThreadState /\ L(w) # {} /\ listeners[w]["error"] # {}
    BY <1>1, <1>4 DEF PoolInv, TypeOK, InFlightOn, L
  <2>2. thread[w] \notin {"unborn", "exited", "terminated"}
    BY <2>1 DEF ThreadInv, Unborn, Listening, Working
  <2>. QED BY <2>1, <2>2 DEF ThreadInv, Working, Owed, ThreadState
<1>. QED BY <1>2, <1>3, <1>4

\* Until closePool() every unanswered call of run() waits in the queue or on exactly one
\* worker of the pool that still owes its event, whatever the threads do (WorkerPool.ts).
THEOREM NoJobLost == Spec => []NoLostJob
BY PoolHolds, NoneLost, PTL

\* A caller of run() is never answered with the output of another job.
THEOREM OwnAnswers == Spec => []OwnAnswer
<1>1. PoolInv => OwnAnswer
  BY DEF PoolInv
<1>. QED BY <1>1, PoolHolds, PTL

-----------------------------------------------------------------------------
(* The size of the pool                                                    *)

Alive == {w \in workers : thread[w] # "exited"}

LEMMA InitPlaces == Init => PlacesKept
<1> SUFFICES ASSUME Init PROVE PlacesKept
  OBVIOUS
<1>1. workers = 1..number_of_workers /\ Alive = 1..number_of_workers
  <2>1. \A w \in 1..number_of_workers : w \in ThreadId /\ w <= number_of_workers
    BY ThreadIdFacts, PoolAssumption
  <2>. QED BY <2>1 DEF Init, Alive
<1>2. /\ IsFiniteSet(1..number_of_workers)
      /\ Cardinality(1..number_of_workers) = number_of_workers
  BY FS_Interval, PoolAssumption
<1>. QED BY <1>1, <1>2 DEF PlacesKept, Alive

\* One live worker goes and a new one comes.
LEMMA OneForOne ==
    ASSUME PlacesKept, ~closed, NEW w \in Alive, NEW x, x \notin workers,
           workers' \subseteq workers \cup {x}, Alive' = (Alive \ {w}) \cup {x}
    PROVE  PlacesKept'
<1>1. IsFiniteSet(workers) /\ IsFiniteSet(Alive) /\ Cardinality(Alive) = number_of_workers
  <2>1. IsFiniteSet(workers) /\ Alive \subseteq workers
    BY DEF PlacesKept, Alive
  <2>. QED BY <2>1, FS_Subset DEF PlacesKept, Alive
<1>2. IsFiniteSet(workers')
  <2>1. IsFiniteSet(workers \cup {x})
    BY <1>1, FS_AddElement
  <2>. QED BY <2>1, FS_Subset
<1>3. /\ IsFiniteSet(Alive \ {w})
      /\ Cardinality(Alive \ {w}) = number_of_workers - 1
  BY <1>1, FS_RemoveElement
<1>4. x \notin Alive \ {w}
  BY DEF Alive
<1>5. Cardinality((Alive \ {w}) \cup {x}) = number_of_workers
  <2>1. Cardinality((Alive \ {w}) \cup {x}) = Cardinality(Alive \ {w}) + 1
    BY <1>3, <1>4, FS_AddElement
  <2>2. (number_of_workers - 1) + 1 = number_of_workers
    BY PoolAssumption
  <2>. QED BY <1>3, <2>1, <2>2
<1>. QED BY <1>2, <1>5 DEF PlacesKept, Alive

LEMMA OnErrorEventPlaces ==
    ASSUME TypeOK, PoolInv, PlacesKept, ~closed, spawned < MaxThreads, closed' = closed,
           NEW w \in Alive, NEW id, NEW from, NEW th \in [ThreadId -> ThreadState],
           onErrorEvent(w, id, from, th),
           \/ id = w /\ th = thread
           \/ /\ id = Exited /\ th[w] = "exited" /\ listeners[w]["error"] # {}
              /\ \A v \in ThreadId : v # w => th[v] = thread[v]
    PROVE  PlacesKept'
<1>1. CASE listeners[w]["error"] = {}
  <2>1. thread' = thread /\ workers' = workers
    BY <1>1 DEF onErrorEvent, poolVars
  <2>. QED BY <2>1 DEF PlacesKept
<1>2. CASE listeners[w]["error"] # {}
  <2> PICK x : x = spawned + 1
    OBVIOUS
  <2>1. x \in ThreadId /\ x > spawned
    BY PoolAssumption DEF TypeOK, ThreadId, MaxThreads
  <2>2. x \notin workers
    BY <2>1 DEF PoolInv, ThreadInv, Unborn
  <2>3. workers' = (workers \ {id}) \cup {x} /\ thread' = [th EXCEPT ![x] = "starting"]
    BY <1>2 DEF onErrorEvent
  <2>4. w \in workers /\ workers \subseteq ThreadId /\ w # x
    BY <2>2 DEF Alive, TypeOK
  <2>5. thread'[x] = "starting" /\ \A v \in ThreadId : v # x => thread'[v] = th[v]
    BY <2>1, <2>3
  <2>6. Alive' = (Alive \ {w}) \cup {x}
    BY <2>2, <2>3, <2>4, <2>5, ThreadIdFacts DEF Alive
  <2>. QED BY <2>2, <2>3, <2>6, OneForOne
<1>. QED BY <1>1, <1>2

LEMMA NextPlaces == TypeOK /\ PoolInv /\ PlacesKept /\ [Next]_vars => PlacesKept'
<1> SUFFICES ASSUME TypeOK, PoolInv, PlacesKept, [Next]_vars, ~closed' PROVE PlacesKept'
  BY DEF PlacesKept
<1>1. ASSUME workers' = workers, closed' = closed,
             \A w \in workers : thread'[w] = "exited" <=> thread[w] = "exited"
      PROVE  PlacesKept'
  <2>1. Alive' = Alive
    BY <1>1 DEF Alive
  <2>. QED BY <1>1, <2>1 DEF PlacesKept, Alive
<1>2. workers \subseteq ThreadId
  BY DEF TypeOK
<1>3. ASSUME NEW j \in Job, run(j) PROVE PlacesKept'
  BY <1>1, <1>3 DEF run
<1>4. ASSUME closePool PROVE PlacesKept'
  BY <1>4 DEF closePool
<1>5. ASSUME NEW w \in ThreadId, MainLoop(w) PROVE PlacesKept'
  <2>1. ~crashed /\ ThreadInv(w)
    BY <1>5 DEF MainLoop, PoolInv
  <2>2. CASE onMessage(w) \/ onMessageError(w)
    <3>1. workers' = workers /\ thread' = thread /\ closed' = closed
      BY <2>2 DEF onMessage, onMessageError, onOutput, poolVars
    <3>. QED BY <1>1, <3>1
  <2>3. CASE onError(w)
    <3>1. PICK ev \in port[w] : ev.event = "error" /\ onErrorEvent(w, w, ev.job, thread)
      BY <2>3 DEF onError
    <3>2. /\ w \in Alive /\ spawned < MaxThreads /\ closed' = closed /\ ~closed
          /\ thread \in [ThreadId -> ThreadState]
      BY <2>1, <2>3, <3>1 DEF onError, ThreadInv, Sending, About, Alive, TypeOK
    <3>. QED BY <3>1, <3>2, OnErrorEventPlaces
  <2>4. CASE onOutOfMemory(w)
    <3> DEFINE th == [thread EXCEPT ![w] = "exited"]
    <3>1. /\ onErrorEvent(w, Exited, NoJob, th) /\ thread[w] = "oom"
          /\ spawned < MaxThreads /\ closed' = closed /\ ~closed
      BY <2>4 DEF onOutOfMemory
    <3>2. w \in Alive /\ listeners[w]["error"] # {}
      BY <2>1, <3>1 DEF ThreadInv, Working, Listening, Alive
    <3>3. /\ th \in [ThreadId -> ThreadState] /\ th[w] = "exited"
          /\ \A v \in ThreadId : v # w => th[v] = thread[v]
      BY DEF TypeOK, ThreadState
    <3> HIDE DEF th
    <3>. QED BY <3>1, <3>2, <3>3, OnErrorEventPlaces
  <2>5. CASE threadExits(w)
    <3>1. /\ workers' = workers /\ closed' = closed /\ thread' = [thread EXCEPT ![w] = "exited"]
          /\ thread[w] \in {"failing", "terminated"} /\ port[w] = {}
      BY <2>5 DEF threadExits, poolVars
    <3>2. w \notin workers
      BY <2>1, <3>1 DEF ThreadInv, Working
    <3>3. \A v \in workers : thread'[v] = thread[v]
      BY <1>2, <3>1, <3>2 DEF TypeOK
    <3>. QED BY <1>1, <3>1, <3>3
  <2>. QED BY <1>5, <2>2, <2>3, <2>4, <2>5 DEF MainLoop
<1>6. ASSUME NEW w \in ThreadId, ThreadStep(w) \/ Fault(w) PROVE PlacesKept'
  <2>1. workers' = workers /\ closed' = closed
    BY <1>6 DEF ThreadStep, threadOnline, threadAnswers, Fault, threadLoadFails, threadThrows,
                threadOutOfMemory, threadFails, poolVars
  <2>2. \A v \in ThreadId : thread'[v] = "exited" <=> thread[v] = "exited"
    BY <1>6 DEF ThreadStep, threadOnline, threadAnswers, Fault, threadLoadFails, threadThrows,
                threadOutOfMemory, threadFails, TypeOK
  <2>. QED BY <1>1, <1>2, <2>1, <2>2
<1>7. ASSUME UNCHANGED vars PROVE PlacesKept'
  BY <1>7 DEF vars, poolVars, threadVars, PlacesKept
<1>. QED BY <1>3, <1>4, <1>5, <1>6, <1>7 DEF Next

LEMMA AtMostOne ==
    ASSUME NEW S, \A a, b \in S : a = b
    PROVE  Cardinality(S) <= 1
<1>1. CASE S = {}
  BY <1>1, FS_EmptySet
<1>2. CASE S # {}
  <2>1. PICK a \in S : S = {a}
    BY <1>2
  <2>. QED BY <2>1, FS_Singleton
<1>. QED BY <1>1, <1>2

LEMMA Accounted == PoolInv /\ PlacesKept => WorkersAreAccountedFor
<1> SUFFICES ASSUME PoolInv, PlacesKept PROVE WorkersAreAccountedFor
  OBVIOUS
<1>1. ASSUME ~closed, NEW w \in ThreadId
      PROVE  /\ Cardinality(inbox[w]) <= 1
             /\ Cardinality(listeners[w]["message"]) <= 1
             /\ w \in workers /\ thread[w] # "exited" =>
                 (w \in active_workers <=> listeners[w]["message"] # {})
  <2>1. ThreadInv(w)
    BY DEF PoolInv
  <2>2. (\A j, k \in L(w) : j = k) /\ \A j \in inbox[w] : L(w) = {j}
    BY <1>1, <2>1 DEF ThreadInv, Listening, Working, Live
  <2>3. \A j, k \in inbox[w] : j = k
    BY <2>2
  <2>. QED BY <2>1, <2>2, <2>3, AtMostOne DEF ThreadInv, Listening, L
<1>. QED BY <1>1 DEF PoolInv, PlacesKept, Crash, WorkersAreAccountedFor

LEMMA PlacesHold == Spec => []PlacesKept
BY PoolHolds, InitPlaces, NextPlaces, PTL DEF Spec

\* Failures of threads cost the pool no worker and give no worker a second job, and the
\* process dies only of a worker nobody listened to (addWorker, removeWorker, runWorker).
THEOREM AccountsKept == Spec => []WorkersAreAccountedFor
BY PoolHolds, PlacesHold, Accounted, PTL

-----------------------------------------------------------------------------
(* Until it is closed every step of the pool is one of JobService or       *)
(* changes nothing of it.                                                  *)

\* What the service sees of the pool: the jobs that run and those that are done.
Running == {j \in Job : promise[j] = "pending" /\ ~Queued(j)}
Done == {j \in Job : promise[j] \in {"resolved", "rejected"}}
Busy == {w \in Alive : w \in active_workers}

\* The jobs that run are those listened for on the workers that are active, one on each.
LEMMA OneJobEach ==
    ASSUME TypeOK, PoolInv, PlacesKept, ~closed
    PROVE  /\ IsFiniteSet(Busy) /\ IsFiniteSet(Alive)
           /\ Cardinality(Alive) = number_of_workers
           /\ Cardinality(Running) = Cardinality(Busy)
<1> DEFINE f == [w \in Busy |-> CHOOSE j \in Job : L(w) = {j}]
<1>1. /\ IsFiniteSet(Alive) /\ Cardinality(Alive) = number_of_workers /\ IsFiniteSet(Busy)
  <2>1. IsFiniteSet(workers) /\ Alive \subseteq workers /\ Busy \subseteq workers
    BY DEF PlacesKept, Alive, Busy
  <2>. QED BY <2>1, FS_Subset DEF PlacesKept, Alive
<1>2. ASSUME NEW w \in Busy PROVE f[w] \in Running /\ L(w) = {f[w]}
  <2>1. w \in ThreadId /\ w \in workers /\ thread[w] # "exited" /\ w \in active_workers
    BY DEF Busy, Alive, TypeOK
  <2>2. /\ L(w) # {} /\ listeners[w]["error"] = L(w)
        /\ \A j, k \in L(w) : j = k
        /\ L(w) \in SUBSET Job
    BY <2>1 DEF PoolInv, ThreadInv, Listening, Live, TypeOK, PortEvent, L
  <2>3. \E j \in Job : L(w) = {j}
    BY <2>2
  <2>4. f[w] \in Job /\ L(w) = {f[w]}
    BY <2>3
  <2> HIDE DEF f
  <2>. QED BY <2>1, <2>2, <2>4 DEF PoolInv, JobInv, Places, In, Queued, Running, L
<1>3. ASSUME NEW j \in Running PROVE \E w \in Busy : L(w) = {j}
  <2>1. PICK w \in workers : j \in listeners[w]["error"]
    BY DEF Running, Queued, PoolInv, JobInv, Places, In
  <2>2. ThreadInv(w) /\ w \in ThreadId
    BY DEF PoolInv, TypeOK
  <2>3. thread[w] # "exited"
    BY <2>1, <2>2 DEF ThreadInv, Listening
  <2>4. w \in active_workers /\ L(w) = {j}
    BY <2>1, <2>2, <2>3 DEF ThreadInv, Listening, Live
  <2>. QED BY <2>3, <2>4 DEF Busy, Alive
<1>4. f \in [Busy -> Running]
  BY <1>2
<1> HIDE DEF f
<1>5. \A w, v \in Busy : f[w] = f[v] => w = v
  <2> SUFFICES ASSUME NEW w \in Busy, NEW v \in Busy, f[w] = f[v] PROVE w = v
    OBVIOUS
  <2>1. f[w] \in L(w) /\ f[w] \in L(v) /\ f[w] \in Job /\ w \in ThreadId /\ v \in ThreadId
    BY <1>2 DEF Running, Busy, Alive, TypeOK
  <2>. QED BY <2>1 DEF PoolInv, JobInv, Places, L
<1>6. \A j \in Running : \E w \in Busy : f[w] = j
  BY <1>2, <1>3
<1>7. f \in Bijection(Busy, Running)
  BY <1>4, <1>5, <1>6 DEF Bijection, Injection, Surjection, IsInjective
<1>8. ExistsBijection(Busy, Running)
  BY <1>7 DEF ExistsBijection
<1>. QED BY <1>1, <1>8, FS_Bijection

\* A place is free just when a worker is available.
LEMMA FreePlace ==
    ASSUME TypeOK, PoolInv, PlacesKept, ~closed
    PROVE  /\ availableWorkers # {} => Cardinality(Running) < number_of_workers
           /\ availableWorkers = {} => Cardinality(Running) = number_of_workers
<1>1. /\ IsFiniteSet(Busy) /\ IsFiniteSet(Alive)
      /\ Cardinality(Alive) = number_of_workers
      /\ Cardinality(Running) = Cardinality(Busy)
  BY OneJobEach
<1>2. Busy \in SUBSET Alive
  BY DEF Busy
<1>3. ASSUME availableWorkers # {} PROVE Cardinality(Running) < number_of_workers
  <2>1. PICK w : w \in workers /\ w \notin active_workers
    BY <1>3 DEF availableWorkers
  <2>2. w \in ThreadId /\ ThreadInv(w)
    BY <2>1 DEF TypeOK, PoolInv
  <2>3. thread[w] # "exited"
    BY <2>1, <2>2 DEF ThreadInv, Listening
  <2>4. Busy # Alive
    BY <2>1, <2>3 DEF Busy, Alive
  <2>5. Cardinality(Busy) <= Cardinality(Alive) /\ Cardinality(Busy) # Cardinality(Alive)
    BY <1>1, <1>2, <2>4, FS_Subset
  <2>6. Cardinality(Busy) \in Nat /\ Cardinality(Alive) \in Nat
    BY <1>1, FS_CardinalityType
  <2>. QED BY <1>1, <2>5, <2>6
<1>4. ASSUME availableWorkers = {} PROVE Cardinality(Running) = number_of_workers
  <2>1. Busy = Alive
    BY <1>4 DEF availableWorkers, Busy, Alive
  <2>. QED BY <1>1, <2>1
<1>. QED BY <1>3, <1>4

-----------------------------------------------------------------------------
(* The steps                                                               *)

Submitted == Running \cup Done \cup {job_queue[i] : i \in DOMAIN job_queue}

\* The instance brings its own copy of Cardinality.
LEMMA SameCardinality == \A S : Service!Cardinality(S) = Cardinality(S)
BY DEF Service!Cardinality, Cardinality

LEMMA RunSubmits ==
    ASSUME TypeOK, PoolInv, PlacesKept, ~closed, NEW j \in Job, run(j)
    PROVE  Service!Submit(j)
<1>1. /\ promise[j] = "none" /\ promise' = [promise EXCEPT ![j] = "pending"]
      /\ ~In(job_queue, j) /\ job_queue \in Seq(Job)
  BY DEF run, PoolInv, JobInv, Places, TypeOK
<1>2. j \notin Submitted
  BY <1>1 DEF Submitted, Running, Done, In
<1>7. j \notin Service!Submitted
  BY <1>2 DEF Service!Submitted, Submitted, Running, Done
<1>3. \A k \in Job : promise'[k] = IF k = j THEN "pending" ELSE promise[k]
  BY <1>1 DEF TypeOK
<1>4. Done' = Done
  BY <1>1, <1>3 DEF Done
<1>5. CASE availableWorkers = {}
  <2>1. Cardinality(Running) = number_of_workers
    BY <1>5, FreePlace
  <2>2. job_queue' = Append(job_queue, j)
    BY <1>5 DEF run
  <2>3. \A k \in Job : Queued(k)' <=> Queued(k) \/ k = j
    BY <1>1, <2>2, AppendHolds DEF Queued, In
  <2>4. Running' = Running
    BY <1>1, <1>3, <2>3 DEF Running
  <2>. QED BY <1>4, <1>7, <2>1, <2>2, <2>4, SameCardinality DEF Service!Submit, Running, Done
<1>6. CASE availableWorkers # {}
  <2>1. Cardinality(Running) < number_of_workers
    BY <1>6, FreePlace
  <2>2. job_queue' = job_queue
    BY <1>6 DEF run
  <2>3. Running' = Running \cup {j}
    BY <1>1, <1>3, <2>2 DEF Running, Queued, In
  <2>. QED BY <1>4, <1>7, <2>1, <2>2, <2>3, SameCardinality DEF Service!Submit, Running, Done
<1>. QED BY <1>5, <1>6

\* What settles a job gives its place to the oldest one that waits.
LEMMA SettlingFinishes ==
    ASSUME TypeOK, PoolInv, NEW j \in Job, NEW w \in ThreadId, listeners[w]["error"] = {j},
           NEW how \in {"resolved", "rejected"}, NEW from, settle({j}, how, from),
           NEW x, NEW id, NEW ls, NEW act, NEW in, runNextJob(x, id, ls, act, in)
    PROVE  Service!Finish(j)
<1>1. promise[j] = "pending" /\ ~In(job_queue, j) /\ job_queue \in Seq(Job)
  BY DEF PoolInv, JobInv, Places, TypeOK
<1>2. \A k \in Job : promise'[k] = IF k = j THEN how ELSE promise[k]
  BY <1>1 DEF settle
<1>3. j \in Running /\ Done' = Done \cup {j}
  BY <1>1, <1>2 DEF Running, Queued, In, Done
<1>4. CASE job_queue = <<>>
  <2>1. job_queue' = job_queue
    BY <1>4 DEF runNextJob
  <2>2. Running' = Running \ {j}
    BY <1>2, <2>1 DEF Running, Queued
  <2>. QED BY <1>3, <1>4, <2>1, <2>2 DEF Service!Finish, Running, Done
<1>5. CASE job_queue # <<>>
  <2>1. job_queue' = Tail(job_queue)
    BY <1>5 DEF runNextJob
  <2>2. \A a, b \in DOMAIN job_queue : job_queue[a] = job_queue[b] => a = b
    BY DEF PoolInv, JobInv, Places
  <2>3. /\ \A k : Queued(k)' <=> Queued(k) /\ k # Head(job_queue)
        /\ Queued(Head(job_queue)) /\ Head(job_queue) \in Job
    BY ZenonT(60), <1>1, <1>5, <2>1, <2>2, TailHolds DEF Queued, In
  <2>4. promise[Head(job_queue)] = "pending" /\ Head(job_queue) # j
    BY <1>1, <2>3 DEF PoolInv, JobInv, Places, Queued, In
  <2>5. Running' = (Running \ {j}) \cup {Head(job_queue)}
    BY <1>1, <1>2, <2>3, <2>4 DEF Running
  <2>. QED BY <1>3, <1>5, <2>1, <2>5 DEF Service!Finish, Running, Done
<1>. QED BY <1>4, <1>5

LEMMA OutputFinishes ==
    ASSUME TypeOK, PoolInv, NEW w \in ThreadId, NEW ev \in port[w],
           ev.event \in {"message", "messageerror"}, NEW how \in {"resolved", "rejected"},
           onOutput(w, ev, how)
    PROVE  \E j \in Job : Service!Finish(j)
<1>1. ThreadInv(w) /\ L(w) \in SUBSET Job
  BY DEF PoolInv, TypeOK, L, PortEvent
<1>2. L(w) = {ev.job} /\ thread[w] \in {"online", "terminated"}
  BY <1>1 DEF ThreadInv, Sending, About
<1>3. listeners[w]["error"] = {ev.job} /\ listeners[w][ev.event] = {ev.job} /\ ev.job \in Job
  BY <1>1, <1>2 DEF ThreadInv, Working, Listening, L
<1>4. /\ settle({ev.job}, how, ev.job)
      /\ runNextJob(w, threadId(w), [listeners EXCEPT ![w] = NoListeners],
                    active_workers \ {threadId(w)}, inbox)
  BY <1>3 DEF onOutput
<1>. QED BY <1>3, <1>4, SettlingFinishes

LEMMA ErrorFinishes ==
    ASSUME TypeOK, PoolInv, NEW w \in ThreadId, NEW id, NEW from, NEW th,
           onErrorEvent(w, id, from, th), thread[w] \in {"failing", "oom"}, w \in workers
    PROVE  (\E j \in Job : Service!Finish(j)) \/ UNCHANGED <<job_queue, promise>>
<1>1. CASE listeners[w]["error"] = {}
  BY <1>1 DEF onErrorEvent, poolVars
<1>2. CASE listeners[w]["error"] # {}
  <2>1. ThreadInv(w) /\ L(w) \in SUBSET Job
    BY DEF PoolInv, TypeOK, L, PortEvent
  <2>2. listeners[w]["error"] = L(w) /\ \A j, k \in L(w) : j = k
    BY <2>1 DEF ThreadInv, Listening, Live
  <2>3. PICK j \in Job : listeners[w]["error"] = {j}
    BY <1>2, <2>1, <2>2
  <2>4. /\ settle({j}, "rejected", from)
        /\ runNextJob(spawned + 1, spawned + 1, [listeners EXCEPT ![w]["error"] = {}],
                      active_workers \ {id}, inbox)
    BY <1>2, <2>3 DEF onErrorEvent
  <2>. QED BY <2>3, <2>4, SettlingFinishes
<1>. QED BY <1>1, <1>2

LEMMA StepServes ==
    TypeOK /\ PoolInv /\ PlacesKept /\ [Next]_vars => [closed \/ Service!Next]_(Service!vars)
<1> SUFFICES ASSUME TypeOK, PoolInv, PlacesKept, [Next]_vars, ~closed
             PROVE  Service!Next \/ UNCHANGED Service!vars
  OBVIOUS
<1>1. ASSUME UNCHANGED <<job_queue, promise>> PROVE UNCHANGED Service!vars
  BY <1>1 DEF Service!vars, Queued
<1>2. ASSUME NEW j \in Job, run(j) PROVE Service!Next
  BY <1>2, RunSubmits DEF Service!Next
<1>3. ASSUME NEW w \in ThreadId, MainLoop(w)
      PROVE  (\E j \in Job : Service!Finish(j)) \/ UNCHANGED <<job_queue, promise>>
  <2>1. ThreadInv(w)
    BY DEF PoolInv
  <2>2. CASE onMessage(w) \/ onMessageError(w)
    BY <2>2, OutputFinishes DEF onMessage, onMessageError
  <2>3. CASE onError(w)
    <3>1. PICK ev \in port[w] : ev.event = "error" /\ onErrorEvent(w, w, ev.job, thread)
      BY <2>3 DEF onError
    <3>2. thread[w] = "failing" /\ w \in workers
      BY <2>1, <2>3, <3>1 DEF onError, ThreadInv, Sending, About
    <3>. QED BY <3>1, <3>2, ErrorFinishes
  <2>4. CASE onOutOfMemory(w)
    <3>1. /\ onErrorEvent(w, Exited, NoJob, [thread EXCEPT ![w] = "exited"])
          /\ thread[w] = "oom" /\ w \in workers
      BY <2>1, <2>4 DEF onOutOfMemory, ThreadInv, Working
    <3>. QED BY <3>1, ErrorFinishes
  <2>5. CASE threadExits(w)
    BY <2>5 DEF threadExits, poolVars
  <2>. QED BY <1>3, <2>2, <2>3, <2>4, <2>5 DEF MainLoop
<1>4. ASSUME \/ closePool \/ UNCHANGED vars
             \/ \E w \in ThreadId : ThreadStep(w) \/ Fault(w)
      PROVE  UNCHANGED <<job_queue, promise>>
  BY <1>4 DEF closePool, vars, ThreadStep, threadOnline, threadAnswers, Fault, threadLoadFails,
              threadThrows, threadOutOfMemory, threadFails, poolVars
<1>. QED BY <1>1, <1>2, <1>3, <1>4 DEF Next, Service!Next

LEMMA InitServes == Init => Service!Init
<1> SUFFICES ASSUME Init PROVE Service!Init
  OBVIOUS
<1>1. job_queue = <<>> /\ \A j \in Job : promise[j] = "none"
  BY DEF Init
<1>. QED BY <1>1 DEF Service!Init

\* Until closePool() the pool implements the service: it starts a job as soon as a worker is
\* free, in the order of the calls of run(), and answers each job once.
THEOREM PoolImplementsService == Spec => ImplementsJobService
BY PoolHolds, PlacesHold, InitServes, StepServes, PTL DEF Spec, ImplementsJobService
====
