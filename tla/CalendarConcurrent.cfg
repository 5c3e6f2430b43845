\* Two requests at once, the same season of two years, deletions and crashes.
CONSTANTS
    Request = {r1, r2}
    Season = {"fall"}
    Year = {y1, y2}
    MaxSchedules = 3
    MaxRequests = 4
    AllowDelete = TRUE
    AllowCrash = TRUE
SPECIFICATION HistorySpec
SYMMETRY Symmetry
INVARIANTS DraftsAreAlone CoursesAreStored CoursesStayTogether ShowsItsOwnCourses
PROPERTIES OtherTermsUntouched ImplementsPlanner
CHECK_DEADLOCK FALSE
