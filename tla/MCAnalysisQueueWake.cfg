\* Two tenants, two processes, nothing fails.
SPECIFICATION SteadySpec
CONSTANTS
    alice = alice
    bob = bob
    a1 = a1
    a2 = a2
    b1 = b1
    User = {alice, bob}
    Event = {a1, a2, b1}
    Owner <- TwoOwners
    Topic <- ThreeTopics
    Refine = {}
    Worker = {w1, w2}
    DirectCall = {}
    Nobody = Nobody
    MaxAttempts = 1
    Lease = 1
    Window = 2
    RetryDelay = 0
    UserLimit = 2
    GlobalLimit = 3
SYMMETRY Symmetry
CHECK_DEADLOCK FALSE
INVARIANTS
    WakingOneIsEnough
