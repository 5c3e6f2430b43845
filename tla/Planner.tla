---- MODULE Planner ----
(***************************************************************************)
(* What the schedule endpoints promise a user who waits for each answer    *)
(* about a term: every schedule is a draft or stands in the calendar, the  *)
(* calendar holds one schedule of a term, and taking that place moves the  *)
(* schedule that had it to a draft, in one step                            *)
(* (data_access/serializers.py:322-327, tests/test_views.py:604).  A user  *)
(* who does not wait loses the promise for that term and for no other.     *)
(***************************************************************************)
CONSTANTS
    ScheduleId,
    Term,
    NoTerm

Place == {"absent", "draft", "calendar"}

VARIABLES
    place,       \* where each schedule is
    termOf,      \* the term it was created for
    hurried      \* terms of which the user did not wait for an answer

plannerVars == <<place, termOf, hurried>>

Init ==
    /\ place = [s \in ScheduleId |-> "absent"]
    /\ termOf = [s \in ScheduleId |-> NoTerm]
    /\ hurried = {}

\* Schedule s, of term t, goes to place p; what stood in the way becomes a draft.
put(s, t, p) ==
    place' = [v \in ScheduleId |->
                CASE v = s -> p
                  [] v # s /\ p = "calendar" /\ place[v] = "calendar" /\ termOf[v] = t -> "draft"
                  [] OTHER -> place[v]]

Create(s, t, p) ==
    /\ place[s] = "absent"
    /\ t \notin hurried
    /\ put(s, t, p)
    /\ termOf' = [termOf EXCEPT ![s] = t]
    /\ UNCHANGED hurried

Switch(s, p) ==
    /\ place[s] # "absent"
    /\ put(s, termOf[s], p)
    /\ UNCHANGED <<termOf, hurried>>

Delete(s) ==
    /\ place[s] # "absent"
    /\ place' = [place EXCEPT ![s] = "absent"]
    /\ termOf' = [termOf EXCEPT ![s] = NoTerm]
    /\ UNCHANGED hurried

\* The user does not wait: the schedules of the term are out of the planner's sight.
Hurry(t) ==
    /\ hurried' = hurried \cup {t}
    /\ place' = [s \in ScheduleId |-> IF termOf[s] = t THEN "absent" ELSE place[s]]
    /\ termOf' = [s \in ScheduleId |-> IF termOf[s] = t THEN NoTerm ELSE termOf[s]]

Next ==
    \/ \E s \in ScheduleId :
        \/ \E t \in Term, p \in {"draft", "calendar"} : Create(s, t, p)
        \/ \E p \in {"draft", "calendar"} : Switch(s, p)
        \/ Delete(s)
    \/ \E t \in Term : Hurry(t)

Spec == Init /\ [][Next]_plannerVars
====
