---- MODULE JobService ----
(***************************************************************************)
(* What WorkerPool promises its callers: a work-conserving FIFO service    *)
(* with a fixed number of places.                                          *)
(***************************************************************************)
EXTENDS Naturals, Sequences, FiniteSets

CONSTANTS Job, Places

VARIABLES
    waiting,   \* jobs not started, oldest first
    running,   \* jobs being worked on
    done       \* jobs whose caller has been answered

vars == <<waiting, running, done>>

Init == waiting = <<>> /\ running = {} /\ done = {}

Submitted == running \cup done \cup {waiting[i] : i \in DOMAIN waiting}

\* A job starts at once when a place is free and waits otherwise.
Submit(j) ==
    /\ j \notin Submitted
    /\ \/ /\ Cardinality(running) < Places
          /\ running' = running \cup {j}
          /\ UNCHANGED waiting
       \/ /\ Cardinality(running) = Places
          /\ waiting' = Append(waiting, j)
          /\ UNCHANGED running
    /\ UNCHANGED done

\* The place of a finished job goes to the oldest waiting job in the same step.
Finish(j) ==
    /\ j \in running
    /\ done' = done \cup {j}
    /\ \/ /\ waiting = <<>>
          /\ running' = running \ {j}
          /\ UNCHANGED waiting
       \/ /\ waiting # <<>>
          /\ running' = (running \ {j}) \cup {Head(waiting)}
          /\ waiting' = Tail(waiting)

Next == \E j \in Job : Submit(j) \/ Finish(j)

Spec == Init /\ [][Next]_vars
====
