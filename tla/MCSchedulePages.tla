---- MODULE MCSchedulePages ----
EXTENDS SchedulePages, TLC

\* Friends, clicks and terms are alike.
Symmetry == Permutations(Friend) \cup Permutations(Click) \cup Permutations(Term)

\* Bound: the sheet is worked with before the first schedule is saved, and only opened
\* afterwards.  The two share no state but the page.
SheetApart ==
    \/ made' = <<>> /\ left' = {}
    \/ /\ shared' = {} /\ sharing' = {} /\ removal' = NoRemoval /\ removalsLeft' = {}
       /\ friendList'.status \in {"off", "asked"}
       /\ unsettled' = FALSE

\* Bounds: the first two schedules are of one term, and one schedule at a time is unreadable.
FewSchedules ==
    /\ Len(made') >= 2 => made'[1] = made'[2]
    /\ Cardinality(unreadable') <= 1

\* Bound: a page that may miss a change is left, as no property speaks of it; what it could
\* still do to the rows another tab does too.
DisturbedIsLeft == disturbed => page' # page

Bounds == SheetApart /\ FewSchedules /\ DisturbedIsLeft
====
