\* A request whose answer is lost once or whose first transfer expires unread,
\* under fairness.
SPECIFICATION FairSpec
CONSTANTS
    m1 = m1
    Request = {m1}
    MaxKeys = 2
    MaxAttempt = 1
    Environment <- Undisturbed
CHECK_DEADLOCK FALSE
PROPERTIES
    EveryRequestIsAnswered
    KeepsPromise
    EachAskIsServed
