---- MODULE MCCalendarStore ----
(***************************************************************************)
(* Requests of the service's threads are interchangeable.                  *)
(***************************************************************************)
EXTENDS CalendarHistory, TLC

Symmetry == Permutations(Request)
====
