---- MODULE TimetableProofs ----
(***************************************************************************)
(* The timetables in data access, for any number of terms, courses,        *)
(* versions, requests, batches, threads, rounds and failures, and for a    *)
(* day of any length.                                                      *)
(*                                                                         *)
(* Of the table of terms and of the updater: a PUT that gets to its        *)
(* response replaces the whole table, terms that came in get their scrape, *)
(* and the maintainers hear of every course a scrape did not deliver.  Of  *)
(* any sections: a saved component keeps its meaning.  Of the cache: no    *)
(* answer is older than the recency rule allows.                           *)
(***************************************************************************)
EXTENDS TimetableCache, TimetableUpdater, FiniteSetTheorems, TLAPS

-----------------------------------------------------------------------------
(* The updater                                                             *)

\* Where a PUT is: the rows left are those still to be deleted, then those of the list
\* that are saved already.
TableInv ==
    /\ pc = "delete" => table \subseteq todo
    /\ pc = "save" => table \cup todo = new_terms
    /\ pc = "scrapeNew" => table = new_terms

\* Until an update fails: what was in the table before the PUT had its scrape, what came in
\* is still to get it.
ScrapeInv ==
    ~failed =>
        /\ pc \in {"idle", "forward"} => table \subseteq scraped
        /\ pc \in {"delete", "save", "scrapeNew"} => old_terms \subseteq scraped
        /\ pc \in {"scrape", "mail"} =>
                table \subseteq scraped \cup (IF full THEN toScrape ELSE {})

Updating == {"forward", "delete", "save", "scrapeNew"}
Scraping == {"scrape", "mail"}

\* One term at a time is scraped; an updater that has not begun has done nothing.
TermInv ==
    /\ pc \in {"idle"} \cup Updating \cup Scraping
    /\ pc \in Updating => full /\ done = {}
    /\ pc \in Scraping => scraping \subseteq toScrape
    /\ pc \notin Scraping => scraping = {}
    /\ ~full => done = {}
    /\ pending \subseteq Search
    /\ retry \subseteq Search
    /\ \A t, u \in scraping : t = u

Named(m, t, c) == m[1] = t /\ c \in lossOf(m)

\* A course of a term is with data access, or in a message not mailed yet, or in one that was.
Sent(t, c) == <<t, c>> \in sent
Noted(t, c) == \E m \in messages : Named(m, t, c)
Told(t, c) == \E m \in told : Named(m, t, c)
Sought(c) == \E s \in pending \cup retry : c \in covers(s)

\* What is neither sent nor noted is still being searched for; what is noted is mailed
\* before the updater is through, unless the last mail is lost.
LossInv ==
    /\ pc = "scrape" => \A t \in scraping, c \in Course : Sent(t, c) \/ Noted(t, c) \/ Sought(c)
    /\ pc = "mail" => \A t \in scraping, c \in Course : Sent(t, c) \/ Noted(t, c)
    /\ pc \in Scraping => \A t \in done, c \in Course : Sent(t, c) \/ Noted(t, c) \/ Told(t, c)
    /\ pc = "idle" /\ ~mailLost => \A t \in done, c \in Course : Sent(t, c) \/ Told(t, c)

UpdaterInv == TermInv /\ TableInv /\ ScrapeInv /\ LossInv

-----------------------------------------------------------------------------
(* Lemmas                                                                  *)

\* The halves find what the subject finds: every course of a level is searched again.
LEMMA HalvesCover ==
    ASSUME NEW c \in Course
    PROVE  /\ c \in covers("subject")
           /\ \A s : \E r \in searches_to_retry(s) : c \in covers(r)
    BY UpdaterAssumption DEF UpdaterAssumption, covers, searches_to_retry

\* A message of a search or a course is about just that, one of a problem about everything.
LEMMA NamedLoss ==
    ASSUME NEW t, NEW c \in Course
    PROVE  /\ Named(<<t, c>>, t, c)
           /\ Named(<<t, "problem">>, t, c)
           /\ \A s \in Search : c \in covers(s) => Named(<<t, s>>, t, c)
    BY UpdaterAssumption DEF UpdaterAssumption, Named, lossOf, Search

\* A caller of the notifier that is told of success was told so by the webhook.
LEMMA SuccessIsTaken ==
    ASSUME NEW webhook \in post_discord_webhook, NEW status \in mailto(webhook),
           isSuccess(status)
    PROVE  webhook.took
    BY DEF post_discord_webhook, mailto, send_templated_content, isSuccess, NoResponse

-----------------------------------------------------------------------------
(* The table of terms                                                      *)

\* Every step but those of the scrape's own variables keeps the table and its updater right.
LEMMA TermStep ==
    ASSUME TermInv, [Next]_allVars
    PROVE  TermInv'
<1> USE DEF TermInv, Updating, Scraping, termsVars
<1>1. CASE TermsNext /\ UNCHANGED <<scrapeVars, site, rows, saved>>
    BY <1>1 DEF TermsNext, announce, put, deleteTerm, beginSaves, saveTerm, respond, scrape_new,
                fail, scrapeVars
<1>2. CASE updateTerms
    BY <1>2 DEF updateTerms, retrieve, fresh
<1>3. CASE main
    BY <1>3 DEF main, fresh
<1>4. CASE update_timetables
    BY <1>4 DEF update_timetables, Search
<1>5. CASE scrape_timetables
    BY <1>5 DEF scrape_timetables, searches_to_retry, Search
<1>6. CASE iter_wrap
    BY <1>6 DEF iter_wrap
<1>7. CASE endRound
    BY <1>7 DEF endRound
<1>8. CASE endTerm
    BY <1>8 DEF endTerm
<1>9. CASE die
    BY <1>9 DEF die
<1>10. CASE reschedule \/ save \/ UNCHANGED allVars
    BY <1>10 DEF reschedule, save, allVars, scrapeVars
<1> QED
    BY <1>1, <1>2, <1>3, <1>4, <1>5, <1>6, <1>7, <1>8, <1>9, <1>10 DEF Next

LEMMA TableStep ==
    ASSUME TableInv, [Next]_allVars
    PROVE  TableInv'
<1> USE DEF TableInv, termsVars
<1>1. CASE TermsNext /\ UNCHANGED <<scrapeVars, site, rows, saved>>
    BY <1>1 DEF TermsNext, announce, put, deleteTerm, beginSaves, saveTerm, respond, scrape_new,
                fail, isIn
<1>2. CASE updateTerms \/ main
    BY <1>2 DEF updateTerms, retrieve, main
<1>3. CASE update_timetables \/ scrape_timetables \/ iter_wrap \/ reschedule \/ save
            \/ UNCHANGED allVars
    BY <1>3 DEF update_timetables, scrape_timetables, iter_wrap, reschedule, save, allVars
<1>4. CASE endRound \/ endTerm \/ die
    BY <1>4 DEF endRound, endTerm, die
<1> QED
    BY <1>1, <1>2, <1>3, <1>4 DEF Next

LEMMA ScrapeStep ==
    ASSUME TermInv, ScrapeInv, [Next]_allVars
    PROVE  ScrapeInv'
<1> USE DEF ScrapeInv, TermInv, Updating, Scraping, termsVars
<1>1. CASE TermsNext /\ UNCHANGED <<scrapeVars, site, rows, saved>>
    BY <1>1 DEF TermsNext, announce, put, deleteTerm, beginSaves, saveTerm, respond, scrape_new,
                fail, isIn, scrapeVars
<1>2. CASE updateTerms \/ main
    BY <1>2 DEF updateTerms, retrieve, main
<1>3. CASE update_timetables \/ scrape_timetables \/ iter_wrap \/ reschedule \/ save
            \/ UNCHANGED allVars
    BY <1>3 DEF update_timetables, scrape_timetables, iter_wrap, reschedule, save, allVars,
                scrapeVars
<1>4. CASE endRound
    BY <1>4 DEF endRound
<1>5. CASE endTerm
    BY <1>5 DEF endTerm
<1>6. CASE die
    BY <1>6 DEF die
<1> QED
    BY <1>1, <1>2, <1>3, <1>4, <1>5, <1>6 DEF Next

-----------------------------------------------------------------------------
(* The losses                                                              *)

\* What one output of the scraper changes.
Output(t, s, found, refused) ==
    /\ pending' = pending \ {s}
    /\ send_timetable_to_da(t, found, refused)
    /\ \/ /\ found = covers(s)
          /\ messages' = messages \cup {<<t, c>> : c \in refused}
          /\ UNCHANGED retry
       \/ /\ retry' = retry \cup searches_to_retry(s)
          /\ messages' = messages \cup {<<t, c>> : c \in refused}
       \/ /\ messages' = messages \cup {<<t, c>> : c \in refused} \cup {<<t, s>>}
          /\ UNCHANGED retry

\* An output of the scraper: what it brings is sent or refused, what it does not bring is
\* in its message or searched for again.
LEMMA OutputStep ==
    ASSUME TermInv, LossInv, scrape_timetables
    PROVE  LossInv'
<1>1. PICK t \in scraping, s \in pending : \E found \in SUBSET covers(s) :
        \E refused \in SUBSET found : Output(t, s, found, refused)
    BY DEF scrape_timetables, Output
<1>2. PICK found, refused : found \in SUBSET covers(s) /\ refused \subseteq found /\ Output(t, s, found, refused)
    BY <1>1
<1>3. pc = "scrape" /\ UNCHANGED <<pc, scraping, told, done, mailLost>>
    BY DEF scrape_timetables, termsVars
<1>4. s \in Search
    BY DEF TermInv
<1>5. \A u \in scraping : u = t
    BY DEF TermInv
<1>6. /\ \A u, c : Sent(u, c) => Sent(u, c)'
      /\ \A u, c : Noted(u, c) => Noted(u, c)'
      /\ \A u, c : Told(u, c) => Told(u, c)'
    BY <1>2, <1>3 DEF Output, send_timetable_to_da, Sent, Noted, Told, Named, lossOf
<1>7. ASSUME NEW c \in Course, c \in covers(s)
      PROVE  Sent(t, c)' \/ Noted(t, c)' \/ Sought(c)'
    <2>1. CASE c \in found \ refused
        BY <1>2, <2>1 DEF Output, send_timetable_to_da, Sent
    <2>2. CASE c \in refused
        <3>1. <<t, c>> \in messages'
            BY <1>2, <2>2 DEF Output
        <3>2. Named(<<t, c>>, t, c)
            BY NamedLoss
        <3> QED
            BY <3>1, <3>2 DEF Noted, Named, lossOf
    <2>3. CASE c \notin found
        <3>1. CASE retry' = retry \cup searches_to_retry(s)
            <4>1. PICK r \in searches_to_retry(s) : c \in covers(r)
                BY HalvesCover
            <4> QED
                BY <4>1, <3>1 DEF Sought, covers
        <3>2. CASE <<t, s>> \in messages'
            <4>1. Named(<<t, s>>, t, c)
                BY <1>4, <1>7, NamedLoss
            <4> QED
                BY <3>2, <4>1 DEF Noted, Named, lossOf
        <3> QED
            BY <1>2, <1>7, <2>3, <3>1, <3>2 DEF Output
    <2> QED
        BY <2>1, <2>2, <2>3
<1>8. ASSUME NEW c \in Course, Sought(c)
      PROVE  c \in covers(s) \/ Sought(c)'
    BY <1>2, <1>8 DEF Output, Sought, covers
<1>9. \A c \in Course : Sent(t, c)' \/ Noted(t, c)' \/ Sought(c)'
    BY <1>3, <1>6, <1>7, <1>8 DEF LossInv
<1> QED
    BY <1>3, <1>5, <1>6, <1>9 DEF LossInv, Scraping

\* A round that is over leaves its searches to the next one or to messages.
LEMMA RoundStep ==
    ASSUME TermInv, LossInv, endRound
    PROVE  LossInv'
<1>1. /\ pc = "scrape"
      /\ UNCHANGED <<scraping, sent, told, done, mailLost>>
      /\ messages \subseteq messages'
    BY DEF endRound
<1>2. /\ \A u, c : Sent(u, c) => Sent(u, c)'
      /\ \A u, c : Noted(u, c) => Noted(u, c)'
      /\ \A u, c : Told(u, c) => Told(u, c)'
    BY <1>1 DEF Sent, Noted, Told, Named, lossOf
<1>3. CASE pc' = "scrape" /\ pending = {} /\ pending' = retry
    <2>1. \A c : Sought(c) => Sought(c)'
        BY <1>3 DEF Sought, covers
    <2> QED
        BY <1>1, <1>2, <1>3, <2>1 DEF LossInv, Scraping
<1>4. CASE pc' = "mail" /\ pending = {} /\ messages' = messages \cup (scraping \X retry)
    <2>1. ASSUME NEW t \in scraping, NEW c \in Course, Sought(c)
          PROVE  Noted(t, c)'
        <3>1. PICK s \in retry : c \in covers(s)
            BY <1>4, <2>1 DEF Sought
        <3>2. Named(<<t, s>>, t, c)
            BY <3>1, NamedLoss DEF TermInv
        <3>3. <<t, s>> \in messages'
            BY <1>4
        <3> QED
            BY <3>2, <3>3 DEF Noted, Named, lossOf
    <2> QED
        BY <1>1, <1>2, <1>4, <2>1 DEF LossInv, Scraping
<1> QED
    BY <1>3, <1>4 DEF endRound

\* The mail of a term takes all that is noted, or it is kept, or lost with the last mail.
LEMMA MailStep ==
    ASSUME TermInv, LossInv, endTerm
    PROVE  LossInv'
<1>1. /\ pc = "mail"
      /\ scraping \subseteq toScrape
      /\ UNCHANGED <<sent, full>>
      /\ done' = IF full THEN done \cup scraping ELSE done
      /\ pc' = IF toScrape \ scraping = {} THEN "idle" ELSE "scrape"
      /\ scraping' = {}
    BY DEF endTerm, TermInv, Scraping
<1>2. \A u, c : Sent(u, c) => Sent(u, c)'
    BY <1>1 DEF Sent
<1>3. \A t \in done', c \in Course : Sent(t, c) \/ Noted(t, c) \/ Told(t, c)
    BY <1>1 DEF LossInv, Scraping
<1>4. CASE ~full
    BY <1>1, <1>4 DEF LossInv, TermInv
<1>5. CASE full
    <2>1. PICK webhook, status :
            /\ webhook \in post_discord_webhook /\ status \in mailto(webhook)
            /\ told' = IF webhook.took THEN told \cup messages ELSE told
            /\ mailLost' = ~webhook.took
            /\ messages' = IF isSuccess(status) \/ toScrape = scraping THEN {} ELSE messages
        BY <1>5 DEF endTerm, notify_maintainers
    <2>2. \A u, c : Told(u, c) => Told(u, c)'
        BY <2>1 DEF Told, Named, lossOf
    <2>3. CASE webhook.took
        <3>1. \A u, c : Noted(u, c) => Told(u, c)'
            BY <2>1, <2>3 DEF Noted, Told, Named, lossOf
        <3> QED
            BY <1>1, <1>2, <1>3, <2>2, <3>1 DEF LossInv
    <2>4. CASE ~webhook.took
        <3>1. ~isSuccess(status)
            BY <2>1, <2>4, SuccessIsTaken
        <3>2. mailLost'
            BY <2>1, <2>4
        <3>3. CASE toScrape = scraping
            BY <1>1, <3>2, <3>3 DEF LossInv, Scraping
        <3>4. CASE toScrape # scraping
            <4>1. messages' = messages
                BY <2>1, <3>1, <3>4
            <4>2. \A u, c : Noted(u, c) => Noted(u, c)'
                BY <4>1 DEF Noted, Named, lossOf
            <4> QED
                BY <1>1, <1>2, <1>3, <2>2, <3>2, <4>2 DEF LossInv
        <3> QED
            BY <3>3, <3>4
    <2> QED
        BY <2>3, <2>4
<1> QED
    BY <1>4, <1>5

\* When a scrape begins every course is searched for; a scraper that throws says so.
LEMMA LossStep ==
    ASSUME TermInv, LossInv, [Next]_allVars
    PROVE  LossInv'
<1>1. CASE TermsNext /\ UNCHANGED <<scrapeVars, site, rows, saved>>
    <2> USE <1>1 DEF scrapeVars
    <2>1. UNCHANGED <<scraping, pending, retry, messages, told, mailLost, done, sent>>
        OBVIOUS
    <2>2. CASE UNCHANGED pc
        BY <2>1, <2>2 DEF LossInv, Sent, Noted, Told, Sought, Named, lossOf, covers, Scraping
    <2>3. CASE pc \in Updating
        <3>1. done' = {} /\ scraping' = {}
            BY <2>1, <2>3 DEF TermInv, Updating, Scraping
        <3> QED
            BY <3>1 DEF LossInv
    <2> QED
        BY <2>2, <2>3 DEF TermsNext, announce, put, deleteTerm, beginSaves, saveTerm, respond,
                          scrape_new, fail, Updating
<1>2. CASE updateTerms \/ main
    <2>1. done' = {} /\ scraping' = {}
        BY <1>2 DEF updateTerms, retrieve, main, fresh, TermInv, Scraping
    <2> QED
        BY <2>1 DEF LossInv
<1>3. CASE update_timetables
    <2>1. /\ pc' = "scrape"
          /\ UNCHANGED <<pc, messages, told, mailLost, done, sent>>
          /\ "subject" \in pending'
        BY <1>3 DEF update_timetables, termsVars
    <2>2. \A c \in Course : Sought(c)'
        BY <2>1, HalvesCover DEF Sought, covers
    <2> QED
        BY <2>1, <2>2 DEF LossInv, Sent, Noted, Told, Named, lossOf, Scraping
<1>4. CASE scrape_timetables
    BY <1>4, OutputStep
<1>5. CASE iter_wrap
    <2>1. /\ pc = "scrape"
          /\ UNCHANGED <<pc, scraping, told, mailLost, done, sent>>
          /\ messages' = messages \cup {<<t, "problem">> : t \in scraping}
        BY <1>5 DEF iter_wrap, termsVars
    <2>2. ASSUME NEW t \in scraping, NEW c \in Course
          PROVE  Noted(t, c)'
        <3>1. Named(<<t, "problem">>, t, c)
            BY NamedLoss
        <3> QED
            BY <2>1, <3>1 DEF Noted, Named, lossOf
    <2> QED
        BY <2>1, <2>2 DEF LossInv, Sent, Noted, Told, Named, lossOf, Scraping
<1>6. CASE endRound
    BY <1>6, RoundStep
<1>7. CASE endTerm
    BY <1>7, MailStep
<1>8. CASE die
    BY <1>8 DEF die, LossInv, Scraping
<1>9. CASE reschedule \/ save \/ UNCHANGED allVars
    BY <1>9 DEF reschedule, save, allVars, termsVars, scrapeVars, LossInv, Sent, Noted, Told,
                Sought, Named, lossOf, covers, Scraping
<1> QED
    BY <1>1, <1>2, <1>3, <1>4, <1>5, <1>6, <1>7, <1>8, <1>9 DEF Next

-----------------------------------------------------------------------------
(* Theorems                                                                *)

LEMMA InvHolds == Spec => []UpdaterInv
<1>1. Init => UpdaterInv
    BY DEF Init, TermsInit, UpdaterInv, TermInv, TableInv, ScrapeInv, LossInv, Updating, Scraping
<1>2. UpdaterInv /\ [Next]_allVars => UpdaterInv'
    BY TermStep, TableStep, ScrapeStep, LossStep DEF UpdaterInv
<1> QED
    BY <1>1, <1>2, PTL DEF Spec

\* A PUT that gets to its response leaves exactly the list in the table, also after PUTs
\* that died half-way (AvailableTermsBackendViewSet.put).
THEOREM TableReplaced == Spec => []ReplacesAll
<1>1. UpdaterInv => ReplacesAll
    BY DEF UpdaterInv, TableInv, ReplacesAll
<1> QED
    BY <1>1, InvHolds, PTL

\* Until an update fails every term of the table has had its full scrape when the updater
\* is through (AvailableTermsUpdater.scrape_new).
THEOREM TermsScraped == Spec => []AddedAreScraped
<1>1. UpdaterInv => AddedAreScraped
    BY DEF UpdaterInv, ScrapeInv, AddedAreScraped
<1> QED
    BY <1>1, InvHolds, PTL

\* Over any number of rounds, retries, refused PUTs and lost mails the maintainers are told
\* of every course a full scrape did not deliver (TimetableUpdater.update_timetables).
THEOREM LossesTold == Spec => []EveryLossIsTold
<1>1. UpdaterInv => EveryLossIsTold
    BY DEF UpdaterInv, LossInv, EveryLossIsTold, Sent, Told, Named
<1> QED
    BY <1>1, InvHolds, PTL

-----------------------------------------------------------------------------
(* Components and their ids                                                *)

\* The slots of the same component that come before one, and the id the readers give it.
earlier(x, section) == {y \in section : sameComponent(y, x) /\ sortedBefore(y, x)}
place(x, section) == Cardinality(earlier(x, section))
isRead(x, section) == x.type = "LEC" \/ earlier(x, section) = {}
readAs(x, section) == IF x.type = "LEC" THEN <<cid(x), x.type, place(x, section)>>
                      ELSE <<cid(x), x.type>>

Listed(section) ==
    /\ IsFiniteSet(section)
    /\ \A x \in section : x.label \in Nat /\ x.at \in Nat
    /\ \A x, y \in section : x.label = y.label /\ x.type = y.type /\ x.at = y.at => x = y

\* The places in a component are numbers, all different, and the first is 0.
LEMMA Places ==
    ASSUME NEW section, Listed(section), NEW x \in section
    PROVE  /\ IsFiniteSet(earlier(x, section))
           /\ place(x, section) \in Nat
           /\ place(x, section) = 0 <=> earlier(x, section) = {}
<1>1. earlier(x, section) \subseteq section
    BY DEF earlier
<1>2. IsFiniteSet(earlier(x, section))
    BY <1>1, FS_Subset DEF Listed
<1> QED
    BY <1>2, FS_CardinalityType, FS_EmptySet DEF place

LEMMA EarlierHasLess ==
    ASSUME NEW section, Listed(section), NEW x \in section, NEW y \in earlier(x, section)
    PROVE  place(y, section) < place(x, section)
<1>1. y \in section /\ sameComponent(y, x) /\ sortedBefore(y, x)
    BY DEF earlier
<1>2. /\ y.label \in Nat /\ y.at \in Nat /\ x.label \in Nat /\ x.at \in Nat
      /\ \A z \in section : z.label \in Nat /\ z.at \in Nat
    BY <1>1 DEF Listed
<1>3. \A z \in earlier(y, section) : z \in earlier(x, section) /\ z # y
    BY <1>1, <1>2 DEF earlier, sameComponent, sortedBefore
<1>4. earlier(y, section) \in SUBSET earlier(x, section) /\ earlier(y, section) # earlier(x, section)
    BY <1>3
<1>5. place(y, section) <= place(x, section) /\ place(y, section) # place(x, section)
    BY <1>4, Places, FS_Subset DEF place
<1> QED
    BY <1>1, <1>5, Places

LEMMA OnePlaceEach ==
    ASSUME NEW section, Listed(section), NEW x \in section, NEW y \in section,
           sameComponent(x, y), place(x, section) = place(y, section)
    PROVE  x = y
<1>1. x.label \in Nat /\ x.at \in Nat /\ y.label \in Nat /\ y.at \in Nat
    BY DEF Listed
<1>2. (x.label = y.label /\ x.at = y.at) \/ sortedBefore(x, y) \/ sortedBefore(y, x)
    BY <1>1 DEF sortedBefore
<1>3. sortedBefore(x, y) => x \in earlier(y, section)
    BY DEF earlier
<1>4. sortedBefore(y, x) => y \in earlier(x, section)
    BY DEF earlier, sameComponent
<1>5. place(x, section) \in Nat /\ ~(place(x, section) < place(x, section))
    BY Places
<1>6. ~sortedBefore(x, y) /\ ~sortedBefore(y, x)
    BY <1>3, <1>4, <1>5, EarlierHasLess
<1> QED
    BY <1>2, <1>6 DEF Listed, sameComponent

LEMMA Normalized ==
    ASSUME NEW section, NEW x
    PROVE  normalize_component(x, section) =
               [cid |-> cid(x), type |-> x.type, at |-> x.at, count |-> place(x, section)]
BY DEF normalize_component, place, earlier

\* Both readers make the same components of a section.
LEMMA ReadTheSame ==
    ASSUME NEW section, Listed(section), NEW p \in Path
    PROVE  read(p, normalize_section(section)) =
               {[id |-> readAs(x, section), at |-> x.at] : x \in {y \in section : isRead(y, section)}}
<1> DEFINE slots == normalize_section(section)
           shown == {[id |-> readAs(x, section), at |-> x.at] : x \in {y \in section : isRead(y, section)}}
           labs == {[id |-> <<cid(x), x.type>>, at |-> x.at] :
                       x \in {y \in section : y.type # "LEC" /\ earlier(y, section) = {}}}
<1>1. /\ \A x \in section : \E s \in slots : s.cid = cid(x) /\ s.type = x.type /\ s.at = x.at
                                               /\ s.count = place(x, section)
      /\ \A s \in slots : \E x \in section : s.cid = cid(x) /\ s.type = x.type /\ s.at = x.at
                                               /\ s.count = place(x, section)
    BY Normalized DEF normalize_section
<1> HIDE DEF slots
<1>2. lectures(slots) = {[id |-> readAs(x, section), at |-> x.at] : x \in {y \in section : y.type = "LEC"}}
    <2>1. ASSUME NEW x \in section, x.type = "LEC"
          PROVE  [id |-> readAs(x, section), at |-> x.at] \in lectures(slots)
        BY <1>1, <2>1 DEF lectures, readAs
    <2>2. ASSUME NEW c \in lectures(slots)
          PROVE  \E x \in section : x.type = "LEC" /\ c = [id |-> readAs(x, section), at |-> x.at]
        <3>1. PICK s \in slots : s.type = "LEC" /\ c = [id |-> <<s.cid, s.type, s.count>>, at |-> s.at]
            BY DEF lectures
        <3>2. PICK x \in section : s.cid = cid(x) /\ s.type = x.type /\ s.at = x.at
                                    /\ s.count = place(x, section)
            BY <1>1
        <3> QED
            BY <3>1, <3>2 DEF readAs
    <2> QED
        BY <2>1, <2>2
<1>3. lectures(slots) \cup labs = shown
    BY <1>2 DEF readAs, isRead
<1>4. ASSUME NEW firsts, firsts \subseteq slots,
             \A s \in slots, x \in section :
                 s.cid = cid(x) /\ s.type = x.type /\ s.count = place(x, section) =>
                     (s \in firsts <=> x.type # "LEC" /\ earlier(x, section) = {})
      PROVE  {[id |-> <<s.cid, s.type>>, at |-> s.at] : s \in firsts} = labs
    <2>1. ASSUME NEW s \in firsts PROVE [id |-> <<s.cid, s.type>>, at |-> s.at] \in labs
        <3>1. PICK x \in section : s.cid = cid(x) /\ s.type = x.type /\ s.at = x.at
                                    /\ s.count = place(x, section)
            BY <1>1, <1>4
        <3> QED
            BY <1>4, <3>1
    <2>2. ASSUME NEW x \in section, x.type # "LEC", earlier(x, section) = {}
          PROVE  \E s \in firsts : [id |-> <<cid(x), x.type>>, at |-> x.at] = [id |-> <<s.cid, s.type>>, at |-> s.at]
        <3>1. PICK s \in slots : s.cid = cid(x) /\ s.type = x.type /\ s.at = x.at
                                  /\ s.count = place(x, section)
            BY <1>1
        <3> QED
            BY <1>4, <2>2, <3>1
    <2> QED
        BY ZenonT(60), <2>1, <2>2
<1>5. flatten_components(slots) = lectures(slots) \cup labs
    <2> DEFINE firsts == {s \in slots : s.type # "LEC" /\ s.count = 0}
    <2>1. \A s \in slots, x \in section :
             s.cid = cid(x) /\ s.type = x.type /\ s.count = place(x, section) =>
                 (s \in firsts <=> x.type # "LEC" /\ earlier(x, section) = {})
        BY Places
    <2>2. {[id |-> <<s.cid, s.type>>, at |-> s.at] : s \in firsts} = labs
        <3> HIDE DEF firsts, labs
        <3>1. firsts \subseteq slots
            BY DEF firsts
        <3> QED
            BY <1>4, <2>1, <3>1
    <2> QED
        BY <2>2 DEF flatten_components
<1>6. reformatTimetable(slots) = lectures(slots) \cup labs
    <2> DEFINE least(x) == \A y \in slots : (y.type = x.type /\ y.cid = x.cid) => x.count <= y.count
               firsts == {x \in slots : x.type # "LEC" /\ least(x)}
    <2>1. ASSUME NEW s \in slots, NEW x \in section,
                 s.cid = cid(x), s.type = x.type, s.count = place(x, section)
          PROVE  least(s) <=> earlier(x, section) = {}
        <3>1. ASSUME earlier(x, section) = {}, NEW other \in slots PROVE s.count <= other.count
            <4>1. PICK y \in section : other.count = place(y, section)
                BY <1>1
            <4> QED
                BY <2>1, <3>1, <4>1, Places
        <3>2. ASSUME NEW y \in earlier(x, section) PROVE ~least(s)
            <4>1. y \in section /\ y.type = x.type /\ cid(y) = cid(x)
                BY DEF earlier, sameComponent
            <4>2. PICK other \in slots : other.cid = cid(y) /\ other.type = y.type /\ other.count = place(y, section)
                BY <1>1, <4>1
            <4>3. ~(s.count <= other.count)
                BY <2>1, <4>1, <4>2, EarlierHasLess, Places
            <4> QED
                BY <2>1, <4>1, <4>2, <4>3
        <3> QED
            BY <3>1, <3>2
    <2> HIDE DEF least
    <2>2. \A s \in slots, x \in section :
             s.cid = cid(x) /\ s.type = x.type /\ s.count = place(x, section) =>
                 (s \in firsts <=> x.type # "LEC" /\ earlier(x, section) = {})
        BY <2>1
    <2>3. {[id |-> <<s.cid, s.type>>, at |-> s.at] : s \in firsts} = labs
        <3> HIDE DEF firsts, labs
        <3>1. firsts \subseteq slots
            BY DEF firsts
        <3> QED
            BY <1>4, <2>2, <3>1
    <2> QED
        BY <2>3 DEF reformatTimetable, least
<1> QED
    BY <1>3, <1>5, <1>6 DEF read, slots

\* A component of a section is made of its own slots alone.
LEMMA OwnSlots ==
    ASSUME NEW section, NEW other, NEW id, slotsOf(other, id) = slotsOf(section, id),
           NEW x \in section, cid(x) = id[1], x.type = id[2]
    PROVE  x \in other /\ earlier(x, other) = earlier(x, section)
<1>1. \A y : y \in section /\ cid(y) = id[1] /\ y.type = id[2]
                <=> y \in other /\ cid(y) = id[1] /\ y.type = id[2]
    BY DEF slotsOf
<1>2. x \in other
    BY <1>1
<1>3. \A y : y \in earlier(x, other) <=> y \in earlier(x, section)
    BY <1>1 DEF earlier, sameComponent
<1> QED
    BY <1>2, <1>3

\* What an id of a component says.
LEMMA IdSays ==
    ASSUME NEW section, NEW x
    PROVE  /\ readAs(x, section)[1] = cid(x)
           /\ readAs(x, section)[2] = x.type
           /\ Len(readAs(x, section)) > 2 <=> x.type = "LEC"
           /\ x.type = "LEC" => readAs(x, section)[3] = place(x, section)
BY DEF readAs

\* One slot is read for an id.
LEMMA OneIsRead ==
    ASSUME NEW section, Listed(section), NEW x \in section, NEW y \in section,
           isRead(x, section), isRead(y, section), readAs(x, section) = readAs(y, section)
    PROVE  x = y
<1>1. cid(x) = cid(y) /\ x.type = y.type
    BY IdSays
<1>2. sameComponent(x, y)
    BY <1>1 DEF sameComponent
<1>3. place(x, section) = place(y, section)
    <2>1. CASE x.type = "LEC"
        BY <1>1, <2>1, IdSays
    <2>2. CASE x.type # "LEC"
        BY <1>1, <2>2, Places DEF isRead
    <2> QED
        BY <2>1, <2>2
<1> QED
    BY <1>2, <1>3, OnePlaceEach

\* What a saved component was read from, in the section as it is.
LEMMA StillRead ==
    ASSUME NEW section, Listed(section), NEW other, Listed(other),
           NEW x \in section, isRead(x, section),
           slotsOf(other, readAs(x, section)) = slotsOf(section, readAs(x, section))
    PROVE  /\ x \in other
           /\ isRead(x, other)
           /\ readAs(x, other) = readAs(x, section)
<1>1. cid(x) = readAs(x, section)[1] /\ x.type = readAs(x, section)[2]
    BY IdSays
<1>2. x \in other /\ earlier(x, other) = earlier(x, section)
    BY <1>1, OwnSlots
<1> QED
    BY <1>2 DEF isRead, readAs, place

-----------------------------------------------------------------------------
(* Drawn and downloaded                                                    *)

LEMMA DrawnWhereItIs ==
    ASSUME NEW section, Listed(section), NEW x \in section, isRead(x, section),
           x.at \in Weekday, NEW p \in Path
    PROVE  drawnAt(p, normalize_section(section), readAs(x, section)) = {x.at}
<1> DEFINE slots == normalize_section(section)
<1>1. read(p, slots) = {[id |-> readAs(y, section), at |-> y.at] : y \in {y \in section : isRead(y, section)}}
    BY ReadTheSame
<1> HIDE DEF slots
<1>2. [id |-> readAs(x, section), at |-> x.at] \in read(p, slots)
    BY <1>1
<1>3. ASSUME NEW c \in read(p, slots), c.id = readAs(x, section) PROVE c.at = x.at
    <2>1. PICK y \in section : isRead(y, section) /\ c = [id |-> readAs(y, section), at |-> y.at]
        BY <1>1
    <2>2. y = x
        BY <1>3, <2>1, OneIsRead
    <2> QED
        BY <2>1, <2>2
<1>4. drawnAt(p, slots, readAs(x, section)) = {x.at}
    <2>1. PICK id, at : id = readAs(x, section) /\ at = x.at
        OBVIOUS
    <2>2. /\ [id |-> id, at |-> at] \in components(p, slots)
          /\ \A c \in components(p, slots) : c.id = id => c.at = at
        BY <1>2, <1>3, <2>1 DEF components
    <2>3. drawnAt(p, slots, id) = {at}
        BY <2>2 DEF drawnAt
    <2> QED
        BY <2>1, <2>3
<1> QED
    BY <1>4 DEF slots

\* The first day with a number in the days from another one on.
LEMMA FirstMeeting ==
    ASSUME SectionAssumption, NEW at \in Weekday
    PROVE  firstOccurrence(startDate[at], day[at]) = firstMeeting(at)
<1>1. PICK n \in Nat : n = startDate[at]
    BY DEF SectionAssumption, Weekday
<1>2. PICK d \in 0 .. 6 : d = day[at]
    BY DEF SectionAssumption, Weekday, NoDay
<1>3. \A m, k \in n .. n + 6 : m % 7 = k % 7 => m = k
    OBVIOUS
<1>4. PICK r \in 0 .. 6 : r = n % 7 /\ n - r \in Nat /\ (n - r) % 7 = 0
    OBVIOUS
<1>5. firstOccurrence(n, d) \in n .. n + 6 /\ firstOccurrence(n, d) % 7 = d
    <2>1. CASE d < r
        <3>1. firstOccurrence(n, d) = n - r + 7 + d
            <4>1. d # NoDay /\ d < n % 7 /\ ~(d > n % 7)
                BY <1>4, <2>1 DEF NoDay
            <4>2. n - (n % 7) + 7 + d = n - r + 7 + d
                BY <1>4
            <4> QED
                BY <4>1, <4>2 DEF firstOccurrence
        <3> QED
            BY <1>4, <2>1, <3>1
    <2>2. CASE d > r
        <3>1. firstOccurrence(n, d) = n - r + d
            <4>1. d # NoDay /\ d > n % 7 /\ ~(d < n % 7)
                BY <1>4, <2>2 DEF NoDay
            <4>2. n - (n % 7) + d = n - r + d
                BY <1>4
            <4> QED
                BY <4>1, <4>2 DEF firstOccurrence
        <3> QED
            BY <1>4, <2>2, <3>1
    <2>3. CASE d = r
        <3>1. firstOccurrence(n, d) = n
            BY <1>4, <2>3 DEF firstOccurrence, NoDay
        <3> QED
            BY <1>4, <2>3, <3>1
    <2> QED
        BY <2>1, <2>2, <2>3
<1>6. (CHOOSE m \in n .. n + 6 : m % 7 = d) = firstOccurrence(n, d)
    BY <1>3, <1>5
<1> QED
    BY <1>1, <1>2, <1>6 DEF firstMeeting

LEMMA SectionsListed == ASSUME SectionAssumption, NEW section \in Section PROVE Listed(section)
BY DEF SectionAssumption, Listed

\* An id with its number is the slot's own.
LEMMA NumberedId ==
    ASSUME NEW section, Listed(section), NEW x \in section, isRead(x, section)
    PROVE  /\ numberOf(readAs(x, section)) = place(x, section)
           /\ withNumber(readAs(x, section)) = <<cid(x), x.type, place(x, section)>>
<1>1. numberOf(readAs(x, section)) = place(x, section)
    <2>1. CASE x.type = "LEC"
        BY <2>1, IdSays DEF numberOf
    <2>2. CASE x.type # "LEC"
        BY <2>2, IdSays, Places DEF numberOf, isRead
    <2> QED
        BY <2>1, <2>2
<1> QED
    BY <1>1, IdSays DEF withNumber

\* Data access finds the slot that the id was made of, and the file has it as its event.
LEMMA DownloadedThroughDataAccess ==
    ASSUME SectionAssumption, NEW section \in Section, NEW x \in section,
           isRead(x, section), x.at \in Weekday
    PROVE  downloadSchedule("v1", normalize_section(section), {readAs(x, section)})
               = {[uid |-> withNumber(readAs(x, section)), first |-> firstMeeting(x.at)]}
<1>1. PICK id, slots, slot : /\ id = readAs(x, section) /\ slots = normalize_section(section)
                             /\ slot = normalize_component(x, section)
    OBVIOUS
<1>2. /\ slot = [cid |-> cid(x), type |-> x.type, at |-> x.at, count |-> place(x, section)]
      /\ slot \in slots
      /\ \A s \in slots : \E y \in section : s = normalize_component(y, section)
    BY <1>1, Normalized DEF normalize_section
<1>3. id[1] = cid(x) /\ id[2] = x.type /\ numberOf(id) = place(x, section)
    BY <1>1, IdSays, NumberedId, SectionsListed
<1>4. ASSUME NEW s \in slots, s.cid = id[1], s.type = id[2], s.count = numberOf(id)
      PROVE  s = slot
    <2>1. PICK y \in section : s = normalize_component(y, section)
        BY <1>2
    <2>2. cid(y) = cid(x) /\ y.type = x.type /\ place(y, section) = place(x, section)
        BY <1>3, <1>4, <2>1, Normalized
    <2>3. y = x
        BY <2>2, OnePlaceEach, SectionsListed DEF sameComponent
    <2> QED
        BY <1>1, <2>1, <2>3
<1>5. pickSlot(slots, id) = {slot}
    BY <1>2, <1>3, <1>4 DEF pickSlot
<1>6. ScheduleDownloadView(slots, {id}) = response(200, {slot})
    <2>1. UNION {pickSlot(slots, i) : i \in {id}} = {slot}
        BY <1>5
    <2>2. ~beyondGroup(slots, id)
        BY <1>5 DEF beyondGroup
    <2> QED
        BY <1>5, <2>1, <2>2 DEF ScheduleDownloadView
<1>7. getFlattenedScheduleByQuery(slots, {id}) = response(200, {slot})
    BY <1>6 DEF getFlattenedScheduleByQuery, fetcher, response, isSuccess
<1>8. downloadSchedule("v1", slots, {id}) = generateFileIcal({slot})
    BY <1>7 DEF downloadSchedule, result, downloadScheduleByQuery, response, isSuccess
<1>9. generateFileIcal({slot}) =
        {[uid |-> <<cid(x), x.type, place(x, section)>>, first |-> firstOccurrence(startDate[x.at], day[x.at])]}
    BY <1>2 DEF generateFileIcal
<1> QED
    BY <1>1, <1>8, <1>9, NumberedId, SectionsListed, FirstMeeting

\* The date from which the scheduler's database counts is that of the slot the id was made of.
LEMMA EarliestIsOwn ==
    ASSUME SectionAssumption, EarliestFirst, NEW section \in Section, NEW x \in section,
           x.type # "LEC", isRead(x, section)
    PROVE  earliestStart(normalize_section(section), readAs(x, section)) = startDate[x.at]
<1>1. PICK id, slots : id = readAs(x, section) /\ slots = normalize_section(section)
    OBVIOUS
<1> DEFINE dates == {startDate[s.at] : s \in {s \in slots : s.cid = id[1] /\ s.type = id[2]}}
<1>2. startDate[x.at] \in dates
    <2>1. normalize_component(x, section) \in slots
        BY <1>1 DEF normalize_section
    <2> QED
        BY <1>1, <2>1, Normalized, IdSays
<1>3. ASSUME NEW date \in dates PROVE date \in Nat /\ startDate[x.at] <= date
    <2>1. PICK s \in slots : s.cid = id[1] /\ s.type = id[2] /\ date = startDate[s.at]
        OBVIOUS
    <2>2. PICK y \in section : s = normalize_component(y, section)
        BY <1>1 DEF normalize_section
    <2>3. cid(y) = cid(x) /\ y.type = x.type /\ date = startDate[y.at]
        BY <1>1, <2>1, <2>2, Normalized, IdSays
    <2>4. date \in Nat
        BY <2>3 DEF SectionAssumption
    <2>5. x = y \/ x \in earlier(y, section)
        <3>1. /\ y \notin earlier(x, section)
              /\ x.label \in Nat /\ x.at \in Nat /\ y.label \in Nat /\ y.at \in Nat
              /\ x.label = y.label /\ x.at = y.at => x = y
            BY <2>3, SectionsListed DEF isRead, Listed
        <3> QED
            BY <2>3, <3>1 DEF earlier, sameComponent, sortedBefore
    <2> QED
        BY <2>3, <2>4, <2>5 DEF EarliestFirst, earlier
<1> HIDE DEF dates
<1>4. Min(dates) = startDate[x.at]
    BY <1>2, <1>3 DEF Min
<1> QED
    BY <1>1, <1>4 DEF earliestStart, dates

LEMMA DownloadedFromDatabase ==
    ASSUME SectionAssumption, EarliestFirst, NEW section \in Section, NEW x \in section,
           isRead(x, section), x.at \in Weekday
    PROVE  downloadSchedule("v2", normalize_section(section), {readAs(x, section)})
               = {[uid |-> withNumber(readAs(x, section)), first |-> firstMeeting(x.at)]}
<1>1. PICK id, slots, at : /\ id = readAs(x, section) /\ slots = normalize_section(section)
                           /\ at = x.at
    OBVIOUS
<1> DEFINE c == [id |-> id, at |-> at]
           entry == [id |-> withNumber(id), day |-> day[at], start |-> startDate[at]]
<1>2. reformatTimetable(slots) = {[id |-> readAs(y, section), at |-> y.at] : y \in {y \in section : isRead(y, section)}}
    BY <1>1, ReadTheSame, SectionsListed DEF read, Path
<1>3. {y \in reformatTimetable(slots) : y.id \in {id}} = {c}
    <2>1. c \in reformatTimetable(slots)
        BY <1>1, <1>2
    <2>2. ASSUME NEW d \in reformatTimetable(slots), d.id = id PROVE d = c
        <3>1. PICK y \in section : isRead(y, section) /\ d = [id |-> readAs(y, section), at |-> y.at]
            BY <1>2
        <3>2. y = x
            BY <1>1, <2>2, <3>1, OneIsRead, SectionsListed
        <3> QED
            BY <1>1, <3>1, <3>2
    <2> QED
        BY <2>1, <2>2
<1>4. (IF Len(id) > 2 THEN startDate[at] ELSE earliestStart(slots, id)) = startDate[at]
    BY <1>1, IdSays, EarliestIsOwn
<1>5. toEntries(slots, {id}) = {entry}
    <2>1. toEntries(slots, {id}) =
             {[id |-> withNumber(y.id), day |-> day[y.at],
               start |-> IF Len(y.id) > 2 THEN startDate[y.at] ELSE earliestStart(slots, y.id)] : y \in {c}}
        BY <1>3 DEF toEntries
    <2>2. c.id = id /\ c.at = at
        OBVIOUS
    <2> HIDE DEF c
    <2> QED
        BY <1>4, <2>1, <2>2
<1>6. day[at] # NoDay
    BY <1>1 DEF Weekday
<1>7. format({entry}) = {[uid |-> withNumber(id), first |-> firstOccurrence(startDate[at], day[at])]}
    <2>1. entry.id = withNumber(id) /\ entry.day = day[at] /\ entry.start = startDate[at]
        OBVIOUS
    <2> HIDE DEF entry
    <2>2. {e \in {entry} : e.day # NoDay} = {entry}
        BY <1>6, <2>1
    <2>3. format({entry}) = {[uid |-> e.id, first |-> firstOccurrence(e.start, e.day)] : e \in {entry}}
        BY <2>2 DEF format
    <2> QED
        BY <2>1, <2>3
<1>8. downloadSchedule("v2", slots, {id}) = format({entry})
    BY <1>5 DEF downloadSchedule, result, getFileMeta, response
<1> QED
    BY <1>1, <1>7, <1>8, FirstMeeting

-----------------------------------------------------------------------------
(* What is saved                                                           *)

\* The rows are sections of the site, normalised; a saved component was read from one.
RowsInv ==
    \A k \in Followed :
        /\ site[k] \in Section \cup {{}}
        /\ rows[k].from \in Section \cup {{}}
        /\ rows[k].slots = normalize_section(rows[k].from)

SavedInv ==
    \A s \in saved :
        /\ s.of \in Followed
        /\ s.from \in Section
        /\ \E x \in s.from : isRead(x, s.from) /\ readAs(x, s.from) = s.id /\ x.at = s.at
        /\ s.at \in Weekday

LEMMA RowsStep == ASSUME RowsInv, [Next]_allVars PROVE RowsInv'
<1>1. CASE scrape_timetables
    <2>1. site' = site /\ \E t \in scraping, s \in pending : \E found \in SUBSET covers(s) :
             \E refused \in SUBSET found : send_timetable_to_da(t, found, refused)
        BY <1>1 DEF scrape_timetables
    <2> QED
        BY <2>1 DEF send_timetable_to_da, RowsInv
<1>2. CASE reschedule
    BY <1>2 DEF reschedule, RowsInv
<1>3. CASE ~scrape_timetables /\ ~reschedule
    <2>1. site' = site /\ rows' = rows
        BY <1>3 DEF Next, updateTerms, main, fresh, update_timetables, iter_wrap, endRound, endTerm,
                    die, save, allVars
    <2> QED
        BY <2>1 DEF RowsInv
<1> QED
    BY <1>1, <1>2, <1>3

LEMMA SavedStep ==
    ASSUME SectionAssumption, RowsInv, SavedInv, [Next]_allVars PROVE SavedInv'
<1>1. CASE save
    <2>1. PICK k \in Followed, p \in Path : \E c \in components(p, rows[k].slots) :
             saved' = saved \cup {[of |-> k, id |-> c.id, at |-> c.at, from |-> rows[k].from]}
        BY <1>1 DEF save
    <2>2. PICK c \in components(p, rows[k].slots) :
             saved' = saved \cup {[of |-> k, id |-> c.id, at |-> c.at, from |-> rows[k].from]}
        BY <2>1
    <2>3. PICK section : section = rows[k].from
        OBVIOUS
    <2>4. section \in Section \cup {{}} /\ Listed(section)
        <3>1. section \in Section \cup {{}}
            BY <2>3 DEF RowsInv
        <3>2. Listed({})
            BY FS_EmptySet DEF Listed
        <3> QED
            BY <3>1, <3>2, SectionsListed
    <2>5. c \in read(p, normalize_section(section)) /\ c.at \in Weekday
        BY <2>3 DEF components, RowsInv
    <2>6. PICK x \in section : isRead(x, section) /\ c = [id |-> readAs(x, section), at |-> x.at]
        BY <2>4, <2>5, ReadTheSame
    <2>7. section \in Section
        BY <2>4, <2>6
    <2> QED
        BY <2>2, <2>3, <2>5, <2>6, <2>7 DEF SavedInv
<1>2. CASE ~save
    <2>1. saved' = saved
        BY <1>2 DEF Next, updateTerms, main, fresh, update_timetables, scrape_timetables, iter_wrap,
                    endRound, endTerm, die, reschedule, allVars
    <2> QED
        BY <2>1 DEF SavedInv
<1> QED
    BY <1>1, <1>2

LEMMA SavedHolds == Spec => [](RowsInv /\ SavedInv)
<1>1. Init => RowsInv /\ SavedInv
    BY DEF Init, RowsInv, SavedInv, normalize_section
<1>2. RowsInv /\ SavedInv /\ [Next]_allVars => RowsInv' /\ SavedInv'
    BY RowsStep, SavedStep, SectionAssumption
<1> QED
    BY <1>1, <1>2, PTL DEF Spec

LEMMA MeansTheSame ==
    ASSUME SectionAssumption, EarliestFirst, RowsInv, SavedInv PROVE SavedMeansTheSame
<1> SUFFICES ASSUME NEW s \in saved, slotsOf(rows[s.of].from, s.id) = slotsOf(s.from, s.id),
                    NEW p \in Path
             PROVE  /\ drawnAt(p, rows[s.of].slots, s.id) = {s.at}
                    /\ downloadSchedule(p, rows[s.of].slots, {s.id}) =
                           {[uid |-> withNumber(s.id), first |-> firstMeeting(s.at)]}
    BY DEF SavedMeansTheSame
<1>1. PICK section, other, id, at :
         section = s.from /\ other = rows[s.of].from /\ id = s.id /\ at = s.at
    OBVIOUS
<1>2. /\ section \in Section /\ other \in Section \cup {{}} /\ at \in Weekday
      /\ rows[s.of].slots = normalize_section(other)
      /\ slotsOf(other, id) = slotsOf(section, id)
      /\ \E x \in section : isRead(x, section) /\ readAs(x, section) = id /\ x.at = at
    BY <1>1 DEF SavedInv, RowsInv
<1>3. PICK x \in section : isRead(x, section) /\ readAs(x, section) = id /\ x.at = at
    BY <1>2
<1>4. Listed(section) /\ Listed(other)
    <2>1. Listed({})
        BY FS_EmptySet DEF Listed
    <2> QED
        BY <1>2, <2>1, SectionsListed
<1>5. x \in other /\ isRead(x, other) /\ readAs(x, other) = id
    BY <1>2, <1>3, <1>4, StillRead
<1>6. other \in Section
    BY <1>2, <1>5
<1>7. drawnAt(p, normalize_section(other), id) = {at}
    BY <1>2, <1>3, <1>4, <1>5, DrawnWhereItIs
<1>8. downloadSchedule(p, normalize_section(other), {id}) = {[uid |-> withNumber(id), first |-> firstMeeting(at)]}
    <2>1. p = "v1" \/ p = "v2"
        BY DEF Path
    <2> QED
        BY <1>2, <1>3, <1>5, <1>6, <2>1, DownloadedThroughDataAccess, DownloadedFromDatabase
<1> QED
    BY <1>1, <1>2, <1>7, <1>8

\* A component of a saved schedule whose own slots are as they were is drawn where it was
\* and is one event from its first meeting on, whichever way the row is read, if its slots
\* are sorted as their dates are.
THEOREM SavedKeepsMeaning == ASSUME EarliestFirst PROVE Spec => []SavedMeansTheSame
<1>1. RowsInv /\ SavedInv => SavedMeansTheSame
    BY MeansTheSame, SectionAssumption
<1> QED
    BY <1>1, SavedHolds, PTL

-----------------------------------------------------------------------------
(* The cache                                                               *)

USE CacheAssumption

Step == {"idle", "connecting", "look", "scrape", "send", "putLook", "putCreate", "putSave",
         "again", "stub", "stubSave"}

CacheType ==
    /\ row \in [sections : Content \cup {"none"}, age : Age]
    /\ row.sections = "none" => row = NoRow
    /\ timestamp \in Age \cup {NoTimestamp}
    /\ offered \in Content
    /\ lastOffered \in [Content -> Age]
    /\ updateFailed \in BOOLEAN
    /\ doing \in [Process -> Step]
    /\ inRequest \in [Process -> BOOLEAN]
    /\ ticked \in [Process -> BOOLEAN]
    /\ missing \in [Process -> BOOLEAN]
    /\ toSend \in [Process -> Content]

\* The ticks a process has seen.
Seen(p) == IF ticked[p] THEN 1 ELSE 0

\* A process that is under way knows about the site and the row no more than a tick ago.
MissingInv(p) ==
    /\ doing[p] = "idle" => ~missing[p] /\ ~inRequest[p]
    /\ row = NoRow /\ inRequest[p] /\ doing[p] \in {"scrape", "send", "putLook"} => missing[p]
    /\ inRequest[p] /\ doing[p] = "putCreate" => missing[p]
    /\ missing[p] /\ row # NoRow => row.age <= Seen(p)

SiteInv(p) ==
    /\ doing[p] \in {"send", "putLook", "putCreate", "putSave"} =>
           lastOffered[toSend[p]] <= Seen(p)
    /\ doing[p] = "again" /\ ~updateFailed =>
           \/ lastOffered[Absent] <= Seen(p)
           \/ row # NoRow /\ (missing[p] \/ row.age <= Seen(p))
    /\ doing[p] \in {"stub", "stubSave"} /\ ~updateFailed => lastOffered[Absent] <= Seen(p)

ProcessInv(p) == (ticked[p] => timestamp # 0) /\ MissingInv(p) /\ SiteInv(p)

\* What a row says was on the site when it was written, or a tick before.
RowInv ==
    row # NoRow /\ (row.sections # Absent \/ ~updateFailed) =>
        lastOffered[row.sections] <= row.age + 1

StateInv ==
    /\ CacheType
    /\ lastOffered[offered] = 0
    /\ RowInv
    /\ \A p \in Process : ProcessInv(p)

CacheInv == StateInv /\ AnswersAreFresh /\ TimetablesAreFresh

-----------------------------------------------------------------------------
LEMMA AgeFacts ==
    /\ Oldest \in Nat /\ Oldest >= 4
    /\ 0 \in Age /\ Oldest \in Age /\ NoTimestamp \notin Age
    /\ Absent \in Content /\ "none" \notin Content /\ "error" \notin Content
    /\ \A a \in Age : older(a) \in Age /\ older(a) # 0 /\ older(a) <= a + 1 /\ a <= older(a)
    /\ \A a, b \in Age : a <= b + 1 => older(a) <= older(b) + 1
BY DEF Oldest, Age, NoTimestamp, Absent, Content, older

\* A row that is recent says what was on the site within MaxAge.
LEMMA RecentIsFresh ==
    ASSUME CacheType
    PROVE  /\ fullscrapeAge + 1 <= MaxAge
           /\ MaxAge >= 2
           /\ timestamp # 0 => fullscrapeAge >= 1
           /\ fullscrapeAge >= 0
BY DEF CacheType, fullscrapeAge, MaxAge, Age, Oldest, NoTimestamp

LEMMA InitCache == CacheInit => CacheInv
<1> SUFFICES ASSUME CacheInit PROVE CacheInv
  OBVIOUS
<1>1. NoRow \in [sections : Content \cup {"none"}, age : Age]
  BY AgeFacts DEF NoRow
<1>2. CacheType
  BY <1>1, AgeFacts DEF CacheInit, CacheType, Step
<1>3. lastOffered[offered] = 0 /\ RowInv
  BY DEF CacheInit, RowInv
<1>4. \A p \in Process : ProcessInv(p)
  BY DEF CacheInit, ProcessInv, MissingInv, SiteInv
<1>5. AnswersAreFresh /\ TimetablesAreFresh
  BY AgeFacts DEF CacheInit, AnswersAreFresh, TimetablesAreFresh, Content
<1>. QED BY <1>2, <1>3, <1>4, <1>5 DEF CacheInv, StateInv

\* A process that stands still is not disturbed by what another one writes.
LEMMA OthersKeep ==
    ASSUME StateInv, NEW q \in Process,
           doing'[q] = doing[q], inRequest'[q] = inRequest[q], ticked'[q] = ticked[q],
           missing'[q] = missing[q], toSend'[q] = toSend[q],
           timestamp' = timestamp, lastOffered' = lastOffered,
           updateFailed => updateFailed',
           row' = row \/ \E c \in Content : row' = [sections |-> c, age |-> 0]
    PROVE  ProcessInv(q)'
<1>1. ProcessInv(q) /\ CacheType
  BY DEF StateInv
<1>2. Seen(q)' = Seen(q) /\ Seen(q) \in {0, 1}
  BY DEF Seen
<1>3. row' # row => row'.age = 0 /\ row' # NoRow
  BY AgeFacts DEF NoRow
<1>4. MissingInv(q)'
  BY <1>1, <1>2, <1>3 DEF ProcessInv, MissingInv
<1>5. SiteInv(q)'
  BY <1>1, <1>2, <1>3 DEF ProcessInv, SiteInv
<1>. QED BY <1>1, <1>4, <1>5 DEF ProcessInv

\* What forget leaves of a process.
LEMMA ForgetKeeps ==
    ASSUME StateInv, NEW p \in Process, forget(p)
    PROVE  /\ ProcessInv(p)'
           /\ doing' \in [Process -> Step] /\ inRequest' \in [Process -> BOOLEAN]
           /\ ticked' \in [Process -> BOOLEAN] /\ missing' \in [Process -> BOOLEAN]
           /\ toSend' \in [Process -> Content]
           /\ \A q \in Process : q # p =>
                /\ doing'[q] = doing[q] /\ inRequest'[q] = inRequest[q] /\ ticked'[q] = ticked[q]
                /\ missing'[q] = missing[q] /\ toSend'[q] = toSend[q]
<1>1. CacheType
  BY DEF StateInv
<1>2. doing'[p] = "idle" /\ ~missing'[p] /\ ~ticked'[p] /\ ~inRequest'[p]
  BY <1>1 DEF forget, CacheType
<1>3. ProcessInv(p)'
  BY <1>2 DEF ProcessInv, MissingInv, SiteInv
<1>4. "idle" \in Step /\ Absent \in Content
  BY AgeFacts DEF Step
<1>5. /\ doing' \in [Process -> Step] /\ inRequest' \in [Process -> BOOLEAN]
      /\ ticked' \in [Process -> BOOLEAN] /\ missing' \in [Process -> BOOLEAN]
      /\ toSend' \in [Process -> Content]
  BY <1>1, <1>4 DEF forget, CacheType
<1>6. \A q \in Process : q # p =>
                /\ doing'[q] = doing[q] /\ inRequest'[q] = inRequest[q] /\ ticked'[q] = ticked[q]
                /\ missing'[q] = missing[q] /\ toSend'[q] = toSend[q]
  BY <1>1 DEF forget, CacheType
<1>. QED BY <1>3, <1>5, <1>6

\* A step of process p that leaves the row and the site as they are.
LEMMA LocalKeeps ==
    ASSUME StateInv, NEW p \in Process,
           UNCHANGED <<row, timestamp, siteVars>>,
           updateFailed => updateFailed', updateFailed' \in BOOLEAN,
           doing' \in [Process -> Step], inRequest' \in [Process -> BOOLEAN],
           ticked' \in [Process -> BOOLEAN], missing' \in [Process -> BOOLEAN],
           toSend' \in [Process -> Content],
           \A q \in Process : q # p =>
                /\ doing'[q] = doing[q] /\ inRequest'[q] = inRequest[q] /\ ticked'[q] = ticked[q]
                /\ missing'[q] = missing[q] /\ toSend'[q] = toSend[q],
           ProcessInv(p)'
    PROVE  StateInv'
<1>1. CacheType' /\ lastOffered'[offered'] = 0 /\ RowInv'
  BY DEF StateInv, CacheType, RowInv, siteVars
<1>2. \A q \in Process : q # p => ProcessInv(q)'
  BY OthersKeep DEF siteVars
<1>. QED BY <1>1, <1>2 DEF StateInv

\* A step of process p that saves the row.
LEMMA SavingKeeps ==
    ASSUME StateInv, NEW p \in Process, NEW c \in Content, saveRow(c),
           UNCHANGED <<timestamp, updateFailed, siteVars>>,
           c # Absent \/ ~updateFailed => lastOffered[c] <= 1,
           doing' \in [Process -> Step], inRequest' \in [Process -> BOOLEAN],
           ticked' \in [Process -> BOOLEAN], missing' \in [Process -> BOOLEAN],
           toSend' \in [Process -> Content],
           \A q \in Process : q # p =>
                /\ doing'[q] = doing[q] /\ inRequest'[q] = inRequest[q] /\ ticked'[q] = ticked[q]
                /\ missing'[q] = missing[q] /\ toSend'[q] = toSend[q],
           ProcessInv(p)'
    PROVE  StateInv'
<1>1. row' = [sections |-> c, age |-> 0]
  BY DEF saveRow
<1>2. row'.sections # "none" /\ row' \in [sections : Content \cup {"none"}, age : Age]
  BY <1>1, AgeFacts
<1>3. CacheType' /\ lastOffered'[offered'] = 0
  BY <1>2 DEF StateInv, CacheType, siteVars
<1>4. RowInv'
  BY <1>1 DEF RowInv, siteVars
<1>5. \A q \in Process : q # p => ProcessInv(q)'
  BY <1>1, OthersKeep DEF siteVars
<1>. QED BY <1>3, <1>4, <1>5 DEF StateInv

-----------------------------------------------------------------------------
(* One lemma for the answers of a step and one for each group of steps     *)

Fresh == AnswersAreFresh /\ TimetablesAreFresh

LEMMA AnswerIsFresh ==
    ASSUME \/ body' \notin Content
           \/ ~(body' # Absent \/ ~updateFailed')
           \/ lastOffered'[body'] <= MaxAge'
    PROVE  Fresh'
BY AgeFacts DEF Fresh, AnswersAreFresh, TimetablesAreFresh, Content

LEMMA NoAnswerIsFresh == body' = "none" => Fresh'
BY AgeFacts, AnswerIsFresh

\* Steps that change nothing but how far a process is.
LEMMA GoingOnKeeps ==
    ASSUME StateInv, NEW p \in Process, NEW step \in Step, goto(p, step),
           UNCHANGED <<row, timestamp, updateFailed, siteVars, ticked, toSend>>,
           UNCHANGED missing \/ missing' = [missing EXCEPT ![p] = (row = NoRow)],
           UNCHANGED inRequest \/ (step = "connecting" /\ inRequest' = [inRequest EXCEPT ![p] = TRUE]),
           ProcessInv(p)'
    PROVE  StateInv' /\ Fresh'
<1>1. doing' \in [Process -> Step] /\ \A q \in Process : q # p => doing'[q] = doing[q]
  BY DEF goto, StateInv, CacheType
<1>2. missing' \in [Process -> BOOLEAN] /\ \A q \in Process : q # p => missing'[q] = missing[q]
  BY DEF StateInv, CacheType
<1>3. inRequest' \in [Process -> BOOLEAN] /\ \A q \in Process : q # p => inRequest'[q] = inRequest[q]
  BY DEF StateInv, CacheType
<1>4. ticked' \in [Process -> BOOLEAN] /\ toSend' \in [Process -> Content] /\ updateFailed' \in BOOLEAN
  BY DEF StateInv, CacheType
<1>5. StateInv'
  BY <1>1, <1>2, <1>3, <1>4, LocalKeeps
<1>. QED BY <1>5, NoAnswerIsFresh DEF goto

LEMMA RequestKeeps ==
    ASSUME StateInv, NEW r \in Reader, request(r)
    PROVE  StateInv' /\ Fresh'
<1>1. r \in Process /\ "connecting" \in Step
  BY DEF Process, Step
<1>2. doing'[r] = "connecting" /\ doing[r] = "idle" /\ ~missing'[r] /\ ticked'[r] = ticked[r]
      /\ timestamp' = timestamp
  BY <1>1 DEF request, goto, StateInv, CacheType, ProcessInv, MissingInv
<1>3. ProcessInv(r)'
  BY <1>1, <1>2 DEF StateInv, ProcessInv, MissingInv, SiteInv
<1>. QED BY <1>1, <1>3, GoingOnKeeps DEF request

LEMMA MovingKeeps ==
    ASSUME StateInv, NEW p \in Process,
           (p \in Reader /\ accept(p)) \/ startFullscrape(p) \/ send(p) \/ putLook(p)
    PROVE  StateInv' /\ Fresh'
<1>1. ProcessInv(p) /\ CacheType
  BY DEF StateInv
<1>2. CASE accept(p)
  <2>1. doing'[p] = "look" /\ UNCHANGED <<row, timestamp, updateFailed, lastOffered, inRequest, ticked, missing, toSend>>
    BY <1>1, <1>2 DEF accept, goto, CacheType, siteVars
  <2>2. ProcessInv(p)'
    BY <1>1, <2>1 DEF ProcessInv, MissingInv, SiteInv, Seen
  <2>. QED BY <1>2, <2>2, GoingOnKeeps DEF accept, Step
<1>3. CASE startFullscrape(p)
  <2>1. doing'[p] = "scrape" /\ UNCHANGED <<row, timestamp, updateFailed, lastOffered, inRequest, ticked, missing, toSend>>
    BY <1>1, <1>3 DEF startFullscrape, goto, CacheType, siteVars
  <2>2. ~inRequest[p]
    BY <1>1, <1>3 DEF startFullscrape, ProcessInv, MissingInv
  <2>3. ProcessInv(p)'
    BY <1>1, <2>1, <2>2 DEF ProcessInv, MissingInv, SiteInv, Seen
  <2>. QED BY <1>3, <2>3, GoingOnKeeps DEF startFullscrape, Step
<1>4. CASE send(p)
  <2>1. doing[p] = "send" /\ doing'[p] = "putLook"
        /\ UNCHANGED <<row, timestamp, updateFailed, lastOffered, inRequest, ticked, missing, toSend>>
    BY <1>1, <1>4 DEF send, goto, CacheType, siteVars
  <2>2. ProcessInv(p)'
    BY <1>1, <2>1 DEF ProcessInv, MissingInv, SiteInv, Seen
  <2>. QED BY <1>4, <2>2, GoingOnKeeps DEF send, Step
<1>5. CASE putLook(p)
  <2>1. /\ doing[p] = "putLook"
        /\ IF row = NoRow THEN doing'[p] = "putCreate" ELSE doing'[p] = "putSave"
        /\ UNCHANGED <<row, timestamp, updateFailed, lastOffered, inRequest, ticked, missing, toSend>>
    BY <1>1, <1>5 DEF putLook, goto, CacheType, siteVars
  <2>2. ProcessInv(p)'
    BY <1>1, <2>1 DEF ProcessInv, MissingInv, SiteInv, Seen
  <2>. QED BY <1>5, <2>2, GoingOnKeeps DEF putLook, Step
<1>. QED BY <1>2, <1>3, <1>4, <1>5

\* A step with which a request or a batch is through, the row as it was.
LEMMA RespondingKeeps ==
    ASSUME StateInv, NEW p \in Process, NEW what, respondWith(p, what),
           UNCHANGED <<row, timestamp, siteVars>>,
           updateFailed => updateFailed', updateFailed' \in BOOLEAN,
           \/ what \notin Content
           \/ ~(what # Absent \/ ~updateFailed')
           \/ lastOffered[what] <= MaxAge
    PROVE  StateInv' /\ Fresh'
<1>1. StateInv'
  BY ForgetKeeps, LocalKeeps DEF respondWith
<1>2. body' = what /\ lastOffered' = lastOffered /\ MaxAge' = MaxAge
  BY DEF respondWith, siteVars, MaxAge
<1>. QED BY <1>1, <1>2, AnswerIsFresh

LEMMA LookKeeps ==
    ASSUME StateInv, NEW r \in Reader, look(r)
    PROVE  StateInv' /\ Fresh'
<1>1. r \in Process /\ CacheType /\ ProcessInv(r)
  BY DEF StateInv, Process
<1>2. CASE row # NoRow /\ timetable_is_recent
  <2>1. respondWith(r, row.sections) /\ UNCHANGED <<row, timestamp, updateFailed, siteVars>>
    BY <1>2 DEF look
  <2>2. row.sections \in Content /\ row.age \in Nat /\ row.age <= fullscrapeAge
    BY <1>1, <1>2 DEF CacheType, timetable_is_recent, Age
  <2>3. row.sections # Absent \/ ~updateFailed => lastOffered[row.sections] <= row.age + 1
    BY <1>2 DEF StateInv, RowInv
  <2>4. lastOffered[row.sections] \in Nat /\ fullscrapeAge \in Nat /\ MaxAge \in Nat
    BY <1>1, <2>2 DEF CacheType, Age, fullscrapeAge, MaxAge, Oldest, NoTimestamp
  <2>5. row.sections # Absent \/ ~updateFailed => lastOffered[row.sections] <= MaxAge
    BY <1>1, <2>2, <2>3, <2>4, RecentIsFresh
  <2>6. (updateFailed => updateFailed') /\ updateFailed' \in BOOLEAN /\ updateFailed' = updateFailed
    BY <1>1, <2>1 DEF CacheType
  <2>. QED BY <1>1, <2>1, <2>5, <2>6, RespondingKeeps
<1>3. CASE ~(row # NoRow /\ timetable_is_recent)
  <2>1. /\ doing[r] = "look" /\ doing'[r] = "scrape"
        /\ missing'[r] = (row = NoRow)
        /\ missing' = [missing EXCEPT ![r] = (row = NoRow)]
        /\ goto(r, "scrape")
        /\ UNCHANGED <<row, timestamp, updateFailed, siteVars, lastOffered, inRequest, ticked, toSend>>
    BY <1>1, <1>3 DEF look, goto, CacheType, siteVars
  <2>2. ProcessInv(r)'
    BY <1>1, <2>1 DEF ProcessInv, MissingInv, SiteInv, Seen
  <2>. QED BY <1>1, <2>1, <2>2, GoingOnKeeps DEF Step
<1>. QED BY <1>2, <1>3

\* The second look: a row that was missing at the first is new, and what is neither there
\* nor recent has not been on the site at the scrape.
LEMMA LookAgainKeeps ==
    ASSUME StateInv, NEW r \in Reader, lookAgain(r)
    PROVE  StateInv' /\ Fresh'
<1>1. r \in Process /\ CacheType /\ ProcessInv(r) /\ Absent \in Content
  BY AgeFacts DEF StateInv, Process
<1>2. doing[r] = "again" /\ UNCHANGED <<row, timestamp, updateFailed, siteVars>>
  BY DEF lookAgain
<1>3. (updateFailed => updateFailed') /\ updateFailed' \in BOOLEAN /\ updateFailed' = updateFailed
  BY <1>1, <1>2 DEF CacheType
<1>4. /\ fullscrapeAge \in Nat /\ MaxAge \in Nat
      /\ Seen(r) \in {0, 1} /\ (Seen(r) = 1 => timestamp # 0)
      /\ \A c \in Content : lastOffered[c] \in Nat
      /\ row.age \in Nat
  BY <1>1 DEF CacheType, Age, fullscrapeAge, MaxAge, Oldest, NoTimestamp, Seen, ProcessInv
<1>5. Seen(r) <= fullscrapeAge
  BY <1>1, <1>4, RecentIsFresh
<1>6. CASE row # NoRow /\ (missing[r] \/ timetable_is_recent)
  <2>1. respondWith(r, row.sections)
    BY <1>6 DEF lookAgain
  <2>2. row.sections \in Content
    BY <1>1, <1>6 DEF CacheType
  <2>3. row.age <= fullscrapeAge
    BY <1>1, <1>4, <1>5, <1>6 DEF timetable_is_recent, ProcessInv, MissingInv
  <2>4. row.sections # Absent \/ ~updateFailed => lastOffered[row.sections] <= row.age + 1
    BY <1>6 DEF StateInv, RowInv
  <2>5. row.sections # Absent \/ ~updateFailed => lastOffered[row.sections] <= MaxAge
    BY <1>1, <1>4, <2>2, <2>3, <2>4, RecentIsFresh
  <2>. QED BY <1>1, <1>2, <1>3, <2>1, <2>5, RespondingKeeps
<1>7. CASE ~(row # NoRow /\ (missing[r] \/ timetable_is_recent))
  <2>1. ~updateFailed => lastOffered[Absent] <= Seen(r)
    BY <1>1, <1>2, <1>4, <1>5, <1>7 DEF ProcessInv, SiteInv, timetable_is_recent
  <2>2. CASE row = NoRow /\ ~missing[r]
    <3>1. respondWith(r, Absent)
      BY <2>2 DEF lookAgain
    <3>2. ~updateFailed => lastOffered[Absent] <= MaxAge
      BY <1>1, <1>4, <2>1, RecentIsFresh
    <3>. QED BY <1>1, <1>2, <1>3, <3>1, <3>2, RespondingKeeps
  <2>3. CASE ~(row = NoRow /\ ~missing[r])
    <3>1. /\ goto(r, "stub") /\ doing'[r] = "stub"
          /\ UNCHANGED <<inRequest, ticked, missing, toSend, lastOffered>>
      BY <1>1, <1>7, <2>3 DEF lookAgain, goto, CacheType, siteVars
    <3>2. ProcessInv(r)'
      BY <1>1, <1>2, <2>1, <3>1 DEF ProcessInv, MissingInv, SiteInv, Seen
    <3>. QED BY <1>1, <1>2, <3>1, <3>2, GoingOnKeeps DEF Step
  <2>. QED BY <2>2, <2>3
<1>. QED BY <1>6, <1>7

LEMMA StubKeeps ==
    ASSUME StateInv, NEW r \in Reader, stub(r)
    PROVE  StateInv' /\ Fresh'
<1>1. r \in Process /\ CacheType /\ ProcessInv(r)
  BY DEF StateInv, Process
<1>2. /\ doing[r] = "stub" /\ doing'[r] = "stubSave"
      /\ missing'[r] = (row = NoRow)
      /\ missing' = [missing EXCEPT ![r] = (row = NoRow)]
      /\ goto(r, "stubSave")
      /\ UNCHANGED <<row, timestamp, updateFailed, siteVars, lastOffered, inRequest, ticked, toSend>>
  BY <1>1 DEF stub, goto, CacheType, siteVars
<1>3. ProcessInv(r)'
  BY <1>1, <1>2 DEF ProcessInv, MissingInv, SiteInv, Seen
<1>. QED BY <1>1, <1>2, <1>3, GoingOnKeeps DEF Step

LEMMA StubSaveKeeps ==
    ASSUME StateInv, NEW r \in Reader, stubSave(r)
    PROVE  StateInv' /\ Fresh'
<1>1. /\ r \in Process /\ CacheType /\ ProcessInv(r)
      /\ Absent \in Content /\ "error" \notin Content
  BY AgeFacts DEF StateInv, Process
<1>2. doing[r] = "stubSave" /\ UNCHANGED <<timestamp, updateFailed, siteVars>>
  BY DEF stubSave
<1>3. (updateFailed => updateFailed') /\ updateFailed' \in BOOLEAN /\ updateFailed' = updateFailed
  BY <1>1, <1>2 DEF CacheType
<1>4. CASE respondWith(r, "error") /\ UNCHANGED row
  BY <1>1, <1>2, <1>3, <1>4, RespondingKeeps
<1>5. CASE respondWith(r, Absent) /\ saveRow(Absent)
  <2>1. lastOffered[Absent] \in Nat /\ Seen(r) \in {0, 1} /\ MaxAge \in Nat
    BY <1>1 DEF CacheType, Age, MaxAge, Oldest, NoTimestamp, Seen
  <2>2. ~updateFailed => lastOffered[Absent] <= 1
    BY <1>1, <1>2, <2>1 DEF ProcessInv, SiteInv
  <2>3. StateInv'
    BY <1>1, <1>2, <1>5, <2>2, ForgetKeeps, SavingKeeps DEF respondWith
  <2>4. body' = Absent /\ lastOffered' = lastOffered /\ MaxAge' = MaxAge
    BY <1>2, <1>5 DEF respondWith, siteVars, MaxAge
  <2>5. ~updateFailed' => lastOffered'[body'] <= MaxAge'
    BY <1>1, <1>3, <2>1, <2>2, <2>4, RecentIsFresh
  <2>. QED BY <2>3, <2>4, <2>5, AnswerIsFresh
<1>. QED BY <1>4, <1>5 DEF stubSave

-----------------------------------------------------------------------------
(* The updater comes back                                                  *)

\* Nothing was sent.  Whether that tells anything of the site hangs on the scrape.
LEMMA ReturningKeeps ==
    ASSUME StateInv, NEW p \in Process, return(p), doing[p] \in {"scrape", "send"},
           UNCHANGED <<row, timestamp, siteVars>>,
           updateFailed => updateFailed', updateFailed' \in BOOLEAN,
           ~updateFailed' => lastOffered[Absent] <= Seen(p)
    PROVE  StateInv' /\ Fresh'
<1>1. CacheType /\ ProcessInv(p) /\ "none" \notin Content
  BY AgeFacts DEF StateInv
<1>2. CASE ~inRequest[p]
  BY <1>1, <1>2, RespondingKeeps DEF return
<1>3. CASE inRequest[p]
  <2>1. /\ doing' = [doing EXCEPT ![p] = "again"] /\ body' = "none"
        /\ UNCHANGED <<inRequest, ticked, missing, toSend>>
    BY <1>3 DEF return, goto
  <2>2. doing' \in [Process -> Step] /\ doing'[p] = "again" /\ \A q \in Process : q # p => doing'[q] = doing[q]
    BY <1>1, <2>1 DEF CacheType, Step
  <2>3. ProcessInv(p)'
    BY <1>1, <2>1, <2>2 DEF ProcessInv, MissingInv, SiteInv, Seen, siteVars
  <2>4. StateInv'
    BY <1>1, <2>1, <2>2, <2>3, LocalKeeps DEF CacheType
  <2>. QED BY <2>1, <2>4, NoAnswerIsFresh
<1>. QED BY <1>2, <1>3

LEMMA ScrapeKeeps ==
    ASSUME StateInv, NEW p \in Process, scrape(p)
    PROVE  StateInv' /\ Fresh'
<1>1. CacheType /\ ProcessInv(p) /\ lastOffered[offered] = 0 /\ Seen(p) \in {0, 1}
  BY DEF StateInv, Seen
<1>2. doing[p] = "scrape" /\ UNCHANGED <<row, timestamp, updateFailed, siteVars>>
  BY DEF scrape
<1>3. CASE offered = Absent
  <2>1. lastOffered[Absent] <= Seen(p)
    BY <1>1, <1>3
  <2>. QED BY <1>1, <1>2, <1>3, <2>1, ReturningKeeps DEF scrape, CacheType
<1>4. CASE offered # Absent
  <2>1. /\ toSend' = [toSend EXCEPT ![p] = offered]
        /\ doing' = [doing EXCEPT ![p] = "send"] /\ body' = "none"
        /\ UNCHANGED <<inRequest, ticked, missing>>
    BY <1>4 DEF scrape, goto
  <2>2. /\ doing' \in [Process -> Step] /\ toSend' \in [Process -> Content]
        /\ doing'[p] = "send" /\ toSend'[p] = offered
        /\ \A q \in Process : q # p => doing'[q] = doing[q] /\ toSend'[q] = toSend[q]
    BY <1>1, <2>1 DEF CacheType, Step
  <2>3. ProcessInv(p)'
    BY <1>1, <1>2, <2>1, <2>2 DEF ProcessInv, MissingInv, SiteInv, Seen, siteVars
  <2>4. StateInv'
    BY <1>1, <1>2, <2>1, <2>2, <2>3, LocalKeeps DEF CacheType
  <2>. QED BY <2>1, <2>4, NoAnswerIsFresh
<1>. QED BY <1>3, <1>4

LEMMA UpdateFailsKeeps ==
    ASSUME StateInv, NEW p \in Process, updateFails(p) \/ updateRaises(p)
    PROVE  StateInv' /\ Fresh'
<1>1. Absent \in Content /\ "none" \notin Content
  BY AgeFacts
<1>2. updateFailed' = TRUE /\ UNCHANGED <<row, timestamp, siteVars>>
  BY DEF updateFails, updateRaises
<1>3. CASE updateFails(p)
  BY <1>2, <1>3, ReturningKeeps DEF updateFails
<1>4. CASE updateRaises(p)
  BY <1>1, <1>2, <1>4, RespondingKeeps DEF updateRaises
<1>. QED BY <1>3, <1>4

\* The PUT has written the row, or found that another one had.
LEMMA PutKeeps ==
    ASSUME StateInv, NEW p \in Process, putCreate(p) \/ putSave(p)
    PROVE  StateInv' /\ Fresh'
<1>1. /\ CacheType /\ ProcessInv(p) /\ "none" \notin Content
      /\ toSend[p] \in Content /\ Seen(p) \in {0, 1}
      /\ lastOffered[toSend[p]] \in Nat
  BY AgeFacts DEF StateInv, CacheType, Seen, Age
<1>2. /\ doing[p] \in {"putCreate", "putSave"} /\ return(p)
      /\ UNCHANGED <<timestamp, updateFailed, siteVars>>
      /\ saveRow(toSend[p]) \/ (doing[p] = "putCreate" /\ row # NoRow /\ UNCHANGED row)
  BY DEF putCreate, putSave
<1>3. lastOffered[toSend[p]] <= Seen(p)
  BY <1>1, <1>2 DEF ProcessInv, SiteInv
<1>4. CASE ~inRequest[p]
  <2>1. respondWith(p, "none")
    BY <1>2, <1>4 DEF return
  <2>2. CASE UNCHANGED row
    BY <1>1, <1>2, <2>1, <2>2, RespondingKeeps DEF CacheType
  <2>3. CASE saveRow(toSend[p])
    <3>1. StateInv'
      BY <1>1, <1>2, <1>3, <2>1, <2>3, ForgetKeeps, SavingKeeps DEF respondWith
    <3>. QED BY <2>1, <3>1, NoAnswerIsFresh DEF respondWith
  <2>. QED BY <1>2, <2>2, <2>3
<1>5. CASE inRequest[p]
  <2>1. /\ doing' = [doing EXCEPT ![p] = "again"] /\ body' = "none"
        /\ UNCHANGED <<inRequest, ticked, missing, toSend>>
    BY <1>2, <1>5 DEF return, goto
  <2>2. doing' \in [Process -> Step] /\ doing'[p] = "again" /\ \A q \in Process : q # p => doing'[q] = doing[q]
    BY <1>1, <2>1 DEF CacheType, Step
  <2>3. CASE UNCHANGED row /\ doing[p] = "putCreate" /\ row # NoRow
    <3>1. missing[p]
      BY <1>1, <1>5, <2>3 DEF ProcessInv, MissingInv
    <3>2. ProcessInv(p)'
      BY <1>1, <1>2, <2>1, <2>2, <2>3, <3>1 DEF ProcessInv, MissingInv, SiteInv, Seen, siteVars
    <3>3. StateInv'
      BY <1>1, <1>2, <2>1, <2>2, <2>3, <3>2, LocalKeeps DEF CacheType
    <3>. QED BY <2>1, <3>3, NoAnswerIsFresh
  <2>4. CASE saveRow(toSend[p])
    <3>1. row' = [sections |-> toSend[p], age |-> 0] /\ row' # NoRow
      BY <2>4, AgeFacts DEF saveRow, NoRow
    <3>2. ProcessInv(p)'
      BY <1>1, <1>2, <2>1, <2>2, <3>1 DEF ProcessInv, MissingInv, SiteInv, Seen, siteVars
    <3>3. StateInv'
      BY <1>1, <1>2, <1>3, <2>1, <2>2, <2>4, <3>2, SavingKeeps DEF CacheType
    <3>. QED BY <2>1, <3>3, NoAnswerIsFresh
  <2>. QED BY <1>2, <2>3, <2>4
<1>. QED BY <1>4, <1>5

-----------------------------------------------------------------------------
(* The world                                                               *)

LEMMA ChangeKeeps ==
    ASSUME StateInv, change
    PROVE  StateInv' /\ Fresh'
<1>1. CacheType
  BY DEF StateInv
<1>2. PICK c \in Content : offered' = c /\ lastOffered' = [lastOffered EXCEPT ![c] = 0]
  BY DEF change
<1>3. /\ UNCHANGED <<row, timestamp, updateFailed, doing, inRequest, ticked, missing, toSend>>
      /\ body' = "none"
  BY DEF change, local
<1>4. lastOffered'[c] = 0 /\ \A d \in Content : d # c => lastOffered'[d] = lastOffered[d]
  BY <1>1, <1>2 DEF CacheType
<1>5. /\ \A d \in Content : lastOffered'[d] <= lastOffered[d]
      /\ lastOffered' \in [Content -> Age]
      /\ \A d \in Content : lastOffered'[d] \in Nat /\ lastOffered[d] \in Nat
  <2>1. \A d \in Content : lastOffered[d] \in Age /\ lastOffered[d] \in Nat
    BY <1>1 DEF CacheType, Age
  <2>2. lastOffered' \in [Content -> Age]
    BY <1>1, <1>2, AgeFacts DEF CacheType
  <2>3. \A d \in Content : lastOffered'[d] \in Nat
    BY <2>2 DEF Age
  <2>. QED BY <1>4, <2>1, <2>2, <2>3
<1>6. CacheType' /\ lastOffered'[offered'] = 0
  BY <1>1, <1>2, <1>3, <1>4, <1>5 DEF CacheType
<1>7. RowInv'
  <2>1. row # NoRow => row.sections \in Content /\ row.age \in Nat
    BY <1>1 DEF CacheType, Age
  <2>2. row # NoRow => lastOffered'[row.sections] <= lastOffered[row.sections]
    BY <1>5, <2>1
  <2>3. row # NoRow /\ (row.sections # Absent \/ ~updateFailed) =>
            lastOffered'[row.sections] <= row.age + 1
    BY <1>5, <2>1, <2>2 DEF StateInv, RowInv
  <2>. QED BY <1>3, <2>3 DEF RowInv
<1>8. ASSUME NEW p \in Process PROVE ProcessInv(p)'
  <2>1. /\ ProcessInv(p) /\ toSend[p] \in Content /\ Absent \in Content
        /\ Seen(p) \in Nat /\ Seen(p)' = Seen(p)
    BY <1>1, <1>3, AgeFacts DEF StateInv, CacheType, Seen
  <2>2. MissingInv(p)'
    BY <1>3, <2>1 DEF ProcessInv, MissingInv
  <2>3. /\ lastOffered[toSend[p]] <= Seen(p) => lastOffered'[toSend[p]] <= Seen(p)
        /\ lastOffered[Absent] <= Seen(p) => lastOffered'[Absent] <= Seen(p)
    BY <1>5, <2>1
  <2>4. SiteInv(p)'
    BY <1>3, <2>1, <2>3 DEF ProcessInv, SiteInv
  <2>. QED BY <1>3, <2>1, <2>2, <2>4 DEF ProcessInv
<1>. QED BY <1>3, <1>6, <1>7, <1>8, NoAnswerIsFresh DEF StateInv

\* Everything gets older, and whoever is under way has seen it.
LEMMA TickKeeps ==
    ASSUME StateInv, tick
    PROVE  StateInv' /\ Fresh'
<1>1. CacheType
  BY DEF StateInv
<1>2. /\ \A p \in Process : ~ticked[p]
      /\ ticked' = [p \in Process |-> doing[p] # "idle"]
      /\ row' = [row EXCEPT !.age = older(@)]
      /\ timestamp' = IF timestamp = NoTimestamp THEN NoTimestamp ELSE older(timestamp)
      /\ lastOffered' = [c \in Content |-> IF c = offered THEN 0 ELSE older(lastOffered[c])]
      /\ body' = "none"
      /\ UNCHANGED <<updateFailed, offered, doing, inRequest, missing, toSend>>
  BY DEF tick
<1>3. row'.sections = row.sections /\ row'.age = older(row.age) /\ row.age \in Age
  BY <1>1, <1>2 DEF CacheType
<1>4. row = NoRow => row' = NoRow
  BY <1>2, AgeFacts DEF NoRow, older
<1>5. row' \in [sections : Content \cup {"none"}, age : Age]
  BY <1>1, <1>2, <1>3, AgeFacts DEF CacheType
<1>6. /\ timestamp' \in Age \cup {NoTimestamp} /\ timestamp' # 0
  BY <1>1, <1>2, AgeFacts DEF CacheType, NoTimestamp
<1>7. \A c \in Content : /\ lastOffered[c] \in Age /\ lastOffered'[c] \in Age
                         /\ lastOffered'[c] <= older(lastOffered[c])
  BY <1>1, <1>2, AgeFacts DEF CacheType, Age
<1>8. CacheType' /\ lastOffered'[offered'] = 0
  BY <1>1, <1>2, <1>3, <1>4, <1>5, <1>6, <1>7 DEF CacheType
<1>9. RowInv'
  <2>1. ASSUME row' # NoRow, row.sections # Absent \/ ~updateFailed
        PROVE  lastOffered'[row.sections] <= older(row.age) + 1
    <3>1. row # NoRow /\ row.sections \in Content
      BY <1>1, <1>4, <2>1 DEF CacheType
    <3>2. lastOffered[row.sections] <= row.age + 1
      BY <2>1, <3>1 DEF StateInv, RowInv
    <3>3. older(lastOffered[row.sections]) <= older(row.age) + 1
      BY <1>3, <1>7, <3>1, <3>2, AgeFacts
    <3>4. older(lastOffered[row.sections]) \in Nat /\ older(row.age) \in Nat
          /\ lastOffered'[row.sections] \in Nat
      BY <1>3, <1>7, <3>1, AgeFacts DEF Age
    <3>. QED BY <1>7, <3>1, <3>3, <3>4
  <2>. QED BY <1>2, <1>3, <2>1 DEF RowInv
<1>10. ASSUME NEW p \in Process PROVE ProcessInv(p)'
  <2>1. ProcessInv(p) /\ ~ticked[p] /\ Seen(p) = 0
    BY <1>2 DEF StateInv, Seen
  <2>2. doing[p] # "idle" => Seen(p)' = 1
    BY <1>2 DEF Seen
  <2>3. \A c \in Content : lastOffered[c] <= 0 => lastOffered'[c] <= 1
    BY <1>7, AgeFacts DEF Age
  <2>4. row.age <= 0 => row'.age <= 1
    BY <1>3, AgeFacts DEF Age
  <2>5. row' = NoRow <=> row = NoRow
    BY <1>1, <1>3, <1>4 DEF CacheType, NoRow
  <2>6. toSend[p] \in Content /\ Absent \in Content
    BY <1>1, AgeFacts DEF CacheType
  <2>7. /\ lastOffered[toSend[p]] <= 0 => lastOffered'[toSend[p]] <= 1
        /\ lastOffered[Absent] <= 0 => lastOffered'[Absent] <= 1
    BY <2>3, <2>6
  <2>8. MissingInv(p)'
    <3>1. CASE doing[p] = "idle"
      BY <1>2, <2>1, <3>1 DEF ProcessInv, MissingInv
    <3>2. CASE doing[p] # "idle"
      <4>1. /\ doing'[p] = doing[p] /\ missing'[p] = missing[p] /\ inRequest'[p] = inRequest[p]
        BY <1>2
      <4>. QED BY <2>1, <2>2, <2>4, <2>5, <3>2, <4>1 DEF ProcessInv, MissingInv
    <3>. QED BY <3>1, <3>2
  <2>9. SiteInv(p)'
    <3>1. CASE doing[p] = "idle"
      BY <1>2, <3>1 DEF SiteInv
    <3>2. CASE doing[p] # "idle"
      <4>1. toSend'[p] = toSend[p] /\ doing'[p] = doing[p] /\ missing'[p] = missing[p] /\ updateFailed' = updateFailed
        BY <1>2
      <4>. QED BY <2>1, <2>2, <2>4, <2>5, <2>7, <3>2, <4>1 DEF ProcessInv, SiteInv
    <3>. QED BY <3>1, <3>2
  <2>. QED BY <1>6, <2>8, <2>9 DEF ProcessInv
<1>. QED BY <1>2, <1>8, <1>9, <1>10, NoAnswerIsFresh DEF StateInv

-----------------------------------------------------------------------------
LEMMA NextKeepsCache == CacheInv /\ [CacheNext]_vars => CacheInv'
<1> SUFFICES ASSUME StateInv, Fresh, [CacheNext]_vars PROVE StateInv' /\ Fresh'
  BY DEF CacheInv, Fresh
<1>1. ASSUME NEW r \in Reader, request(r) \/ Serve(r) PROVE StateInv' /\ Fresh'
  <2>1. r \in Process
    BY DEF Process
  <2>. QED BY <1>1, <2>1, RequestKeeps, MovingKeeps, LookKeeps, LookAgainKeeps, StubKeeps,
              StubSaveKeeps DEF Serve
<1>2. ASSUME NEW b \in Batch, startFullscrape(b) PROVE StateInv' /\ Fresh'
  BY <1>2, MovingKeeps DEF Process
<1>3. ASSUME NEW p \in Process, Update(p) PROVE StateInv' /\ Fresh'
  BY <1>3, MovingKeeps, ScrapeKeeps, UpdateFailsKeeps, PutKeeps DEF Update
<1>4. ASSUME change \/ tick PROVE StateInv' /\ Fresh'
  BY <1>4, ChangeKeeps, TickKeeps
<1>5. ASSUME UNCHANGED vars PROVE StateInv' /\ Fresh'
  BY <1>5 DEF vars, siteVars, local, StateInv, CacheType, RowInv, ProcessInv, MissingInv, SiteInv,
              Seen, Fresh, AnswersAreFresh, TimetablesAreFresh, MaxAge
<1>. QED BY <1>1, <1>2, <1>3, <1>4, <1>5 DEF CacheNext

LEMMA CacheCorrect == CacheSpec => []CacheInv
BY InitCache, NextKeepsCache, PTL DEF CacheSpec

\* Failing scrapes and PUTs never make TimetableViewSet.list hand out an outdated timetable,
\* in whatever order requests, batches and their PUTs look at the row and write it.
THEOREM TimetablesFresh == CacheSpec => []TimetablesAreFresh
<1>1. CacheInv => TimetablesAreFresh
  BY DEF CacheInv
<1>. QED BY <1>1, CacheCorrect, PTL

\* Until an update fails this holds of every answer, also of a stub's.
THEOREM AnswersFresh == CacheSpec => []AnswersAreFresh
<1>1. CacheInv => AnswersAreFresh
  BY DEF CacheInv
<1>. QED BY <1>1, CacheCorrect, PTL
====
