\* Two terms with up to three schedules, two friends.
CONSTANTS
    Term = {fall, spring}
    NoTerm = none
    MaxSchedules = 3
    MaxLeft = 1
    Friend = {f1, f2}
    NoFriend = nobody
    Click = {k1, k2}
SPECIFICATION Spec
SYMMETRY Symmetry
ACTION_CONSTRAINT Bounds
INVARIANTS PageShowsStored SelectedDraftExists ShareSheetShowsAccess
