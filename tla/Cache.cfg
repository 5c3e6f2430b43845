\* Two requests, one of which may be a batch instead; scrapes and PUTs may fail.
CONSTANTS
    Reader = {r1, r2}
    Batch = {r2}
    Version = {v1}
    THREAD_COUNT = 3
    Day = 1
    HasTimestamp = {TRUE, FALSE}
    ScrapeMayFail = TRUE
SPECIFICATION FairSpec
INVARIANTS AnswersAreFresh TimetablesAreFresh
PROPERTIES EveryRequestIsAnswered
