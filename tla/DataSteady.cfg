SPECIFICATION Spec
CONSTANTS
    p1 = p1  v1 = v1  v2 = v2  A = A  B = B
    None = None
    Pods <- OnePod
    Segments <- PodNames
    ServiceAccount <- OneAccount
    Templates <- Versions
    NumItems <- GrowingItems
    Digest <- Digests
    ReportPhases <- Successes
    Allowed <- Steady
    MaxDisruptions = 4
INVARIANTS TypeOK SettledIsDelivered SettledIsGone
PROPERTIES ProgressKept FinalizerGuards Delivers
CHECK_DEADLOCK FALSE
