---- MODULE TimetableUpdater ----
(***************************************************************************)
(* The timetable updater (updater/timetables.py) run for the terms that    *)
(* are new, or by hand for one term, and what students make of the rows it *)
(* writes.                                                                 *)
(*                                                                         *)
(* One TimetableUpdater scrapes the terms one after the other.  The        *)
(* scraper (uoapi, external) answers each search with courses; when it     *)
(* does not deliver all of them it says so in a message, of too many       *)
(* results or of an error, or it throws and ends the round.  The           *)
(* maintainers are told in one mail per term.                              *)
(***************************************************************************)
EXTENDS AvailableTerms, Downloads, Notifier

CONSTANTS
    Course,        \* what the site offers in a term, all of one subject and level
    Lower, Upper,  \* the courses found by the halves "<300" and ">300"
    RETRIES,       \* the rounds of a scrape
    Section,       \* the sections the site may list
    Followed       \* the rows, <<term, course>>, whose content is modelled

VARIABLES
    full,          \* whether the scrape is a full one
    scraping,      \* the term being scraped, in a set
    pending,       \* searches of the round the scraper has not answered
    retry,         \* searches of the next round
    tries_left,
    messages,      \* maintenance_msgs and problems that name a loss: <<term, what>>
    told,          \* history: those the maintainers were mailed since the updater started
    mailLost,      \* history: the last mail did not get through
    done,          \* history: terms scraped in full since the updater started
    sent,          \* history: <<term, course>> that data access took since then
    site,          \* the section of a followed row as the site lists it
    rows,          \* the followed rows; from is history, the section scraped
    saved          \* components that saved schedules name

scrapeVars == <<full, scraping, pending, retry, tries_left, messages, told, mailLost, done, sent>>
allVars == <<termsVars, scrapeVars, site, rows, saved>>

Search == {"subject", "lower", "upper"}
covers(search) == CASE search = "subject" -> Course [] search = "lower" -> Lower [] OTHER -> Upper

UpdaterAssumption ==
    /\ Lower \cup Upper = Course
    /\ Course \cap (Search \cup {"problem"}) = {}
    /\ RETRIES \in Nat \ {0}
    /\ Followed \subseteq Term \X Course
ASSUME UpdaterAssumption

\* A section lists finitely many slots, none twice; each has a date and a place in the order.
SectionAssumption ==
    /\ DOMAIN day \subseteq Nat
    /\ \A at \in DOMAIN day : startDate[at] \in Nat /\ day[at] \in 0 .. NoDay
    /\ \A section \in Section :
        /\ IsFiniteSet(section)
        /\ \A x \in section : x.label \in Nat /\ x.at \in DOMAIN day
        /\ \A x, y \in section : x.label = y.label /\ x.type = y.type /\ x.at = y.at => x = y
ASSUME SectionAssumption

\* Mutation: a half of the level is not searched again.
searches_to_retry_Lower(search) == {"lower"}

\* The message names subject and level, whichever of the searches it was: both halves.
searches_to_retry(search) == {"lower", "upper"}

Init ==
    /\ TermsInit
    /\ full = FALSE
    /\ scraping = {}
    /\ pending = {}
    /\ retry = {}
    /\ tries_left = 0
    /\ messages = {}
    /\ told = {}
    /\ mailLost = FALSE
    /\ done = {}
    /\ sent = {}
    /\ site = [k \in Followed |-> {}]
    /\ rows = [k \in Followed |-> [from |-> {}, slots |-> {}]]
    /\ saved = {}

\* A new updater starts with nothing to say.
fresh == /\ told' = {}
         /\ done' = {}
         /\ sent' = {}
         /\ mailLost' = FALSE
         /\ UNCHANGED <<scraping, pending, retry, tries_left, messages, site, rows, saved>>

updateTerms ==
    /\ retrieve
    /\ full' = TRUE
    /\ fresh

\* main: one term by hand, in full or for some subjects.
main ==
    /\ pc = "idle"
    /\ \E t \in Term : toScrape' = {t}
    /\ full' \in BOOLEAN
    /\ pc' = "scrape"
    /\ fresh
    /\ UNCHANGED <<announced, table, new_terms, old_terms, todo, scraped, failed>>

\* update_timetables, get_subjects: the first round searches the subjects.
update_timetables ==
    /\ pc = "scrape"
    /\ scraping = {}
    /\ \E t \in toScrape : scraping' = {t}
    /\ pending' = {"subject"}
    /\ tries_left' = RETRIES
    /\ UNCHANGED <<termsVars, full, retry, messages, told, mailLost, done, sent, site, rows, saved>>

\* send_timetable_to_da for the courses of one output; the updater notes the refused ones.
send_timetable_to_da(t, found, refused) ==
    /\ sent' = sent \cup {<<t, c>> : c \in found \ refused}
    /\ rows' = [k \in Followed |->
                    IF k \in {<<t, c>> : c \in found \ refused}
                    THEN [from |-> site[k], slots |-> normalize_section(site[k])]
                    ELSE rows[k]]

\* An output of the scraper: courses, and a message when they are not all of the search.
\* Assumed: a message of too many results names subject and level; searches_to_retry drops
\* any other without a word.
scrape_timetables ==
    /\ pc = "scrape"
    /\ \E t \in scraping, s \in pending : \E found \in SUBSET covers(s) : \E refused \in SUBSET found :
        /\ pending' = pending \ {s}
        /\ send_timetable_to_da(t, found, refused)
        /\ LET unsaved == {<<t, c>> : c \in refused}
           IN \/ /\ found = covers(s)
                 /\ messages' = messages \cup unsaved
                 /\ UNCHANGED retry
              \/ /\ found # covers(s)
                 /\ retry' = retry \cup searches_to_retry(s)
                 /\ messages' = messages \cup unsaved
              \/ /\ found # covers(s)
                 /\ messages' = messages \cup unsaved \cup {<<t, s>>}
                 /\ UNCHANGED retry
    /\ UNCHANGED <<termsVars, full, scraping, tries_left, told, mailLost, done, site, saved>>

\* iter_wrap: the scraper throws, the rest of the round is gone, the problem is kept.
iter_wrap ==
    /\ pc = "scrape"
    /\ pending # {}
    /\ pending' = {}
    /\ messages' = messages \cup {<<t, "problem">> : t \in scraping}
    /\ UNCHANGED <<termsVars, full, scraping, retry, tries_left, told, mailLost, done, sent,
                   site, rows, saved>>

\* A round is over: the next one, or a message of the leftover searches.
endRound ==
    /\ pc = "scrape"
    /\ scraping # {}
    /\ pending = {}
    /\ tries_left' = tries_left - 1
    /\ retry' = {}
    /\ \/ /\ retry # {}
          /\ tries_left > 1
          /\ pending' = retry
          /\ UNCHANGED <<pc, messages>>
       \/ /\ retry = {} \/ tries_left = 1
          /\ pc' = "mail"
          /\ messages' = messages \cup (scraping \X retry)
          /\ UNCHANGED pending
    /\ UNCHANGED <<announced, table, new_terms, old_terms, todo, toScrape, scraped, failed,
                   full, scraping, told, mailLost, done, sent, site, rows, saved>>

problems == {m \in messages : m[2] = "problem"}

\* notify_maintainers: not sent for a scrape of some subjects without a problem; kept for
\* the next term's mail when the notifier does not confirm it.
notify_maintainers ==
    \/ /\ ~full
       /\ problems = {}
       /\ messages' = {}
       /\ UNCHANGED <<told, mailLost>>
    \/ /\ full \/ problems # {}
       /\ \E webhook \in post_discord_webhook : \E status \in mailto(webhook) :
            /\ told' = IF webhook.took THEN told \cup messages ELSE told
            /\ mailLost' = ~webhook.took
            /\ messages' = IF isSuccess(status) \/ toScrape = scraping THEN {} ELSE messages

endTerm ==
    /\ pc = "mail"
    /\ notify_maintainers
    /\ toScrape' = toScrape \ scraping
    /\ scraping' = {}
    /\ tries_left' = 0
    /\ done' = IF full THEN done \cup scraping ELSE done
    /\ scraped' = IF full THEN scraped \cup scraping ELSE scraped
    /\ pc' = IF toScrape' = {} THEN "idle" ELSE "scrape"
    /\ UNCHANGED <<announced, table, new_terms, old_terms, todo, failed,
                   full, pending, retry, sent, site, rows, saved>>

\* No subjects, a course normalize_course cannot read, or a kill: nothing catches it.
die ==
    /\ pc \in {"scrape", "mail"}
    /\ pc' = "idle"
    /\ failed' = TRUE
    /\ toScrape' = {}
    /\ scraping' = {}
    /\ pending' = {}
    /\ retry' = {}
    /\ tries_left' = 0
    /\ messages' = {}
    /\ done' = {}
    /\ UNCHANGED <<announced, table, new_terms, old_terms, todo, scraped,
                   full, told, mailLost, sent, site, rows, saved>>

\* The university changes a section.
reschedule ==
    /\ \E k \in Followed, s \in Section : site' = [site EXCEPT ![k] = s]
    /\ UNCHANGED <<termsVars, scrapeVars, rows, saved>>

\* A student saves a schedule with a component of the course as one of the paths shows it.
save ==
    /\ \E k \in Followed, p \in Path : \E c \in components(p, rows[k].slots) :
        saved' = saved \cup {[of |-> k, id |-> c.id, at |-> c.at, from |-> rows[k].from]}
    /\ UNCHANGED <<termsVars, scrapeVars, site, rows>>

Next ==
    \/ TermsNext /\ UNCHANGED <<scrapeVars, site, rows, saved>>
    \/ updateTerms \/ main \/ update_timetables \/ scrape_timetables \/ iter_wrap \/ endRound
    \/ endTerm \/ die \/ reschedule \/ save

Spec == Init /\ [][Next]_allVars

-----------------------------------------------------------------------------
(* Properties                                                              *)

lossOf(m) == CASE m[2] = "problem" -> Course [] m[2] \in Search -> covers(m[2]) [] OTHER -> {m[2]}

\* Over all rounds, retries, refused PUTs and lost mails: when an updater is through and
\* its last mail arrived, each course of each term it scraped in full was taken by data
\* access or is among what a message the maintainers got is about.
EveryLossIsTold ==
    pc = "idle" /\ ~mailLost => \A t \in done, c \in Course :
        <<t, c>> \in sent \/ \E m \in told : m[1] = t /\ c \in lossOf(m)

\* The slots of a section that a component id is made of.
slotsOf(section, id) == {x \in section : cid(x) = id[1] /\ x.type = id[2]}

\* The slots of a component come in the order of their dates, as they do when they share a
\* label; each lecture is a component of its own.
EarliestFirst ==
    \A section \in Section : \A x, y \in section :
        x.type # "LEC" /\ sameComponent(x, y) /\ sortedBefore(x, y) => startDate[x.at] <= startDate[y.at]

\* The first date from the slot's start date on that is on its weekday.
firstMeeting(at) ==
    CHOOSE d \in startDate[at] .. startDate[at] + 6 : d % 7 = day[at]

\* A saved schedule keeps its meaning (updater/timetables.py:543, "unique id (within a
\* section)"): whichever path it was made on and whichever it is opened or downloaded on,
\* and whatever happened to the rest of the section, a component whose own slots are as
\* they were is drawn where it was, and is one event that begins with its first meeting.
SavedMeansTheSame ==
    \A s \in saved :
        slotsOf(rows[s.of].from, s.id) = slotsOf(s.from, s.id) =>
            \A p \in Path :
                /\ drawnAt(p, rows[s.of].slots, s.id) = {s.at}
                /\ downloadSchedule(p, rows[s.of].slots, {s.id}) =
                        {[uid |-> withNumber(s.id), first |-> firstMeeting(s.at)]}
====
