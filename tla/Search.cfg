SPECIFICATION RequestsSpec
CONSTANTS
    CourseLists <- NoCourses
    FilterChoices <- Filters
    Limits = {1, 2, 50}
    Requests <- AskedFor
    OldCatalogue <- Old
    NewCatalogue <- New
    TimeLimited = TRUE
INVARIANTS KeptAreAcceptable AnswerIsComplete NothingBetterIsLost EveryCourseIsAccountedFor
    FirstResultIsComplete SameAnswer DrawnAsFound SavedIsShownAgain
PROPERTIES RequestsEnd
CHECK_DEADLOCK FALSE
