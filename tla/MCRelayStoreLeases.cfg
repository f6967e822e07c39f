\* One transfer to one or two receivers that may each ask twice for a lease:
\* stale tokens, lapsed leases, late streams, repeated acknowledgements.
SPECIFICATION Spec
CONSTANTS
    Id = {t1}
    Device = {phone, desktop}
    Key = {k1}
    NoOne = NoOne
    Ttl = {2, 3}
    UploadWindow = 1
    LeaseSeconds = 1
    RecordAge = 1
    RecordLimit = 1
    Quota = 1
    MaxTime = 4
    MaxClaims = 2
SYMMETRY Symmetry
CHECK_DEADLOCK FALSE
INVARIANTS
    DeliveredMeansEveryTargetRead
PROPERTIES
    LeaseIsExclusive
    NoRevival
    KeepsPromise
