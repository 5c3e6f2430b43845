---- MODULE MCTimetableUpdater ----
(***************************************************************************)
(* Two terms with two courses.  The slots of one course of one term are    *)
(* followed: two lectures and labs whose labels may share what stands      *)
(* before the "-", at three places in the sorted order: a weekday before   *)
(* that of the term's first day, no day of the week, and one after it.     *)
(***************************************************************************)
EXTENDS TimetableUpdater

CONSTANTS t1, t2, c1, c2

MCTerm == {t1, t2}
MCCourse == {c1, c2}
MCLower == {c1}
MCUpper == {c2}
MCFollowed == {<<t1, c1>>}
MCidOfLabel == <<"A", "A">>
MCstartDate == <<10, 10, 11>>    \* Wednesday, Wednesday, Thursday
MCday == <<1, NoDay, 5>>         \* Monday, none, Friday

Slot == [label : {1}, type : {"LEC"}, at : {1, 3}]
            \cup {[label |-> 2, type |-> "LEC", at |-> 2], [label |-> 1, type |-> "LAB", at |-> 1],
                  [label |-> 2, type |-> "LAB", at |-> 3]}
MCSection == {s \in SUBSET Slot : Cardinality(s) <= 3}

\* The sections of the run are such as the theorem about saved components speaks of.
ASSUME EarliestFirst

\* Sections change, and are saved, while the table of terms is at rest and a scrape meets
\* no trouble.
AtRest ==
    (saved # {} \/ \E k \in Followed : site[k] # {} \/ rows[k].from # {}) =>
        /\ announced = {t1}
        /\ table = {t1}
        /\ pc \in {"idle", "scrape", "mail"}
        /\ toScrape \subseteq {t1}
        /\ ~failed
        /\ ~full
        /\ retry = {}
        /\ messages = {}
        /\ told = {}
        /\ ~mailLost
        /\ done = {}
        /\ scraped = {t1}

\* One saved component is enough: each is looked at by itself.
OneSaved == Cardinality(saved) <= 1

\* A section changes after its last change was scraped.
OneChange ==
    site' # site => pc = "idle" /\ \A k \in Followed : site[k] = rows[k].from

\* Only retrieve reads what is announced: it changes when nothing else is under way.
AnnouncedAtRest == announced' # announced => pc = "idle"

Changes == OneChange /\ AnnouncedAtRest

\* The mails of an updater are about three losses at most.
FewLosses == Cardinality(messages \cup told) <= 3

Bounds == AtRest /\ OneSaved /\ FewLosses
====
