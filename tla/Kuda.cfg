SPECIFICATION FairSpec
CONSTANTS
    p1 = p1  v1 = v1  v2 = v2  A = A  B = B
    None = None
    Pods <- OnePod
    Segments <- PodNames
    ServiceAccount <- OneAccount
    Injected <- OnePod
    Templates <- Versions
    NumItems <- LastEmptied
    Digest <- Digests
    ReportPhases <- Successes
    Allowed <- Rolling
    MaxDisruptions = 1
INVARIANTS QuietIsDelivered
PROPERTIES FinalizerHolds Converges
CHECK_DEADLOCK FALSE
