\* Two tenants and a chat compete for a budget that pays for one attempt at a
\* time.
SPECIFICATION FairSpec
CONSTANTS
    alice = alice
    bob = bob
    a1 = a1
    a2 = a2
    b1 = b1
    User = {alice, bob}
    Event = {a1, b1}
    Owner <- PairOwners
    Topic <- PairTopics
    Refine = {a1}
    Worker = {w1}
    DirectCall = {c1}
    MaxAttempts = 1
    UserLimit = 2
    GlobalLimit = 2
    Nobody = Nobody
    Lease = 1
    Window = 2
    RetryDelay = 0
CHECK_DEADLOCK FALSE
INVARIANTS
    BudgetHolds
PROPERTIES
    EveryJobIsDecided
