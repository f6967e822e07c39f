\* One deterministic job, two processes: stalled workers, lapsed leases, drafts
\* taken over, crashes anywhere.
SPECIFICATION Spec
CONSTANTS
    alice = alice
    bob = bob
    a1 = a1
    a2 = a2
    b1 = b1
    User = {alice}
    Event = {a1}
    Owner <- SoloOwner
    Topic <- SoloTopic
    Refine = {a1}
    Worker = {w1, w2}
    DirectCall = {}
    Nobody = Nobody
    MaxAttempts = 3
    Lease = 1
    Window = 2
    RetryDelay = 0
    UserLimit = 4
    GlobalLimit = 4
SYMMETRY Symmetry
CHECK_DEADLOCK FALSE
INVARIANTS
    NothingUnreviewedIsVisible
    PublishedTruthfully
PROPERTIES
    DecidedOnce
    StaleWorkersCannotSpend
