\* Two transfers with room for one, under fairness: uploads, cleanups and crashes
\* race each other over files, records and capacity, and space comes back.
SPECIFICATION FairSpec
CONSTANTS
    Id = {t1, t2}
    Device = {desktop}
    Key = {k1, k2}
    NoOne = NoOne
    Ttl = {2}
    UploadWindow = 1
    LeaseSeconds = 1
    RecordAge = 1
    RecordLimit = 1
    Quota = 1
    MaxTime = 4
    MaxClaims = 1
CHECK_DEADLOCK FALSE
INVARIANTS
    NoLossBeforeDelivery
    QuotaRespected
PROPERTIES
    EverythingIsReclaimed
