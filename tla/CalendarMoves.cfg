\* One request at a time, nothing dies, the same season of two years.
CONSTANTS
    Request = {r1}
    Season = {"fall"}
    Year = {y1, y2}
    MaxSchedules = 3
    MaxRequests = 4
    AllowDelete = TRUE
    AllowCrash = FALSE
SPECIFICATION HistorySpec
INVARIANTS MovesWithItsCourses
CHECK_DEADLOCK FALSE
