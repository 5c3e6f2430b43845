---- MODULE MCScheduleBuilder ----
(***************************************************************************)
(* A course in each of two terms.                                          *)
(***************************************************************************)
EXTENDS ScheduleBuilder

CONSTANTS c1, c2, t1, t2

TermOf == c1 :> t1 @@ c2 :> t2
Switches == c1 :> {"optional"} @@ c2 :> {"partial"}
====
