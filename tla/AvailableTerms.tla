---- MODULE AvailableTerms ----
(***************************************************************************)
(* The table of available terms (AvailableTermsBackendViewSet.put in       *)
(* data_access/views.py, AvailableTerms in models.py) and the updater that *)
(* replaces it and has what is new scraped (updater/available_terms.py;    *)
(* TimetableUpdater does the scraping).                                    *)
(*                                                                         *)
(* One updater runs at a time.  Its PUT is a loop of deletes and a loop of *)
(* saves, each committed by itself and seen by every reader at once.       *)
(***************************************************************************)
EXTENDS FiniteSets

CONSTANT Term

VARIABLES
    announced,     \* what the university's site lists
    table,         \* the rows of AvailableTerms
    pc,            \* "idle", "forward", "delete", "save", "scrapeNew", "scrape", "mail"
    new_terms,     \* the list the updater sends
    old_terms,     \* the rows the PUT found
    todo,          \* rows the current loop has still to visit
    toScrape,      \* terms still to be scraped in full
    scraped,       \* history: terms a full scrape was run for since they came in
    failed         \* history: an update has failed

termsVars == <<announced, table, pc, new_terms, old_terms, todo, toScrape, scraped, failed>>

TermsInit ==
    /\ announced \in SUBSET Term
    /\ table = {}
    /\ pc = "idle"
    /\ new_terms = {}
    /\ old_terms = {}
    /\ todo = {}
    /\ toScrape = {}
    /\ scraped = {}
    /\ failed = FALSE

\* Mutation: any two terms are equal.
isIn_Always(term, terms) == TRUE

\* AvailableTerms.__eq__ compares the bound methods of two instances, which are equal
\* only for one and the same instance: an unsaved term never equals a row.
isIn(term, terms) == FALSE

announce ==
    /\ announced' \in SUBSET Term
    /\ UNCHANGED <<table, pc, new_terms, old_terms, todo, toScrape, scraped, failed>>

\* AvailableTermsUpdater.retrieve
retrieve ==
    /\ pc = "idle"
    /\ pc' = "forward"
    /\ new_terms' = announced
    /\ UNCHANGED <<announced, table, old_terms, todo, toScrape, scraped, failed>>

\* The PUT has validated the list; the first loop evaluates the queryset.
put ==
    /\ pc = "forward"
    /\ pc' = "delete"
    /\ old_terms' = table
    /\ todo' = table
    /\ UNCHANGED <<announced, table, new_terms, toScrape, scraped, failed>>

deleteTerm ==
    /\ pc = "delete"
    /\ \E t \in todo :
        /\ todo' = todo \ {t}
        /\ table' = IF isIn(t, new_terms) THEN table ELSE table \ {t}
    /\ UNCHANGED <<announced, pc, new_terms, old_terms, toScrape, scraped, failed>>

beginSaves ==
    /\ pc = "delete"
    /\ todo = {}
    /\ pc' = "save"
    /\ todo' = new_terms
    /\ UNCHANGED <<announced, table, new_terms, old_terms, toScrape, scraped, failed>>

saveTerm ==
    /\ pc = "save"
    /\ \E t \in todo :
        /\ todo' = todo \ {t}
        /\ table' = IF isIn(t, old_terms) THEN table ELSE table \cup {t}
    /\ UNCHANGED <<announced, pc, new_terms, old_terms, toScrape, scraped, failed>>

respond ==
    /\ pc = "save"
    /\ todo = {}
    /\ pc' = "scrapeNew"
    /\ UNCHANGED <<announced, table, new_terms, old_terms, todo, toScrape, scraped, failed>>

\* Mutation: the two lists are swapped.
scrape_new_Swapped ==
    /\ pc = "scrapeNew"
    /\ toScrape' = old_terms \ table
    /\ pc' = IF toScrape' = {} THEN "idle" ELSE "scrape"
    /\ scraped' = scraped \cap table
    /\ new_terms' = {}
    /\ old_terms' = {}
    /\ UNCHANGED <<announced, table, todo, failed>>

\* scrape_new: a full scrape for what the response lists as new and not as old.
scrape_new ==
    /\ pc = "scrapeNew"
    /\ toScrape' = table \ old_terms
    /\ pc' = IF toScrape' = {} THEN "idle" ELSE "scrape"
    /\ scraped' = scraped \cap table
    /\ new_terms' = {}
    /\ old_terms' = {}
    /\ UNCHANGED <<announced, table, todo, failed>>

\* The service dies, or its response is lost: the updater has nothing to scrape from.
fail ==
    /\ pc \in {"forward", "delete", "save", "scrapeNew"}
    /\ pc' = "idle"
    /\ todo' = {}
    /\ new_terms' = {}
    /\ old_terms' = {}
    /\ failed' = TRUE
    /\ UNCHANGED <<announced, table, toScrape, scraped>>

TermsNext == announce \/ put \/ deleteTerm \/ beginSaves \/ saveTerm \/ respond
                \/ scrape_new \/ fail

-----------------------------------------------------------------------------
(* Properties                                                              *)

\* "Replace all Available Terms with the list provided" (views.py:651): a PUT that gets
\* to its response leaves exactly the list, whatever an earlier one left half-done.
ReplacesAll == pc = "scrapeNew" => table = new_terms

\* No term is left without its timetables: until an update fails, when the updater is
\* through, every term of the table has had a full scrape since it came in, terms that
\* went and came back included.
AddedAreScraped == ~failed /\ pc = "idle" => table \subseteq scraped
====
