\* Losses, expiry, interruptions and repetitions of one request, or two whose
\* responses may overtake each other.
SPECIFICATION Spec
CONSTANTS
    m1 = m1
    Request = {m1, m2}
    MaxKeys = 1
    MaxAttempt = 1
    Environment <- OneOrTwo
SYMMETRY Symmetry
CHECK_DEADLOCK FALSE
INVARIANTS
    NothingAckedBeforeKept
    StopsOnlyWhenAnswered
    ShowsTheNewest
