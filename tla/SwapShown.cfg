SPECIFICATION RequestsSpec
CONSTANTS
    CourseLists <- NoCourses
    FilterChoices <- Filters
    Limits = {50}
    Requests <- AskedFor
    OldCatalogue <- Old
    NewCatalogue <- New
    TimeLimited = FALSE
INVARIANT GridShowsSchedule
CHECK_DEADLOCK FALSE
