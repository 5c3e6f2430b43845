\* As many requests at a time as the service has threads.
CONSTANTS
    Reader = {r1, r2}
    Batch = {}
    Version = {v1}
    THREAD_COUNT = 2
    Day = 1
    HasTimestamp = {FALSE}
    ScrapeMayFail = FALSE
SPECIFICATION FairSpec
PROPERTIES UpdaterReturns
