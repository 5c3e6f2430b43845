\* Two visits and two changes, answers in every order.
CONSTANTS
    c1 = c1
    c2 = c2
    t1 = t1
    t2 = t2
    Course = {c1, c2}
    Term = {t1, t2}
    termOf <- TermOf
    switches <- Switches
    Filter = {"loose", "strict"}
    defaultFilters = "loose"
    maxNumCoursesPerTerm = 2
    MaxVisits = 2
    MaxEdits = 2
SPECIFICATION FairSpec
INVARIANTS CoursesInTheirTerm ShownIsCurrent OverridesAreMarked
PROPERTIES LoadingEnds
