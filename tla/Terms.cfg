\* PUTs may die half-way or their response be lost; two rounds per scrape as in the code.
CONSTANTS
    t1 = t1
    t2 = t2
    c1 = c1
    c2 = c2
    Term <- MCTerm
    Course <- MCCourse
    Lower <- MCLower
    Upper <- MCUpper
    Followed <- MCFollowed
    idOfLabel <- MCidOfLabel
    startDate <- MCstartDate
    day <- MCday
    Section <- MCSection
    RETRIES = 2
SPECIFICATION Spec
CONSTRAINT Bounds
ACTION_CONSTRAINT Changes
INVARIANTS ReplacesAll AddedAreScraped EveryLossIsTold SavedMeansTheSame
