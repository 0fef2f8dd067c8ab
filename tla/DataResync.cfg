SPECIFICATION FairSpec
CONSTANTS
    p1 = p1  v1 = v1  v2 = v2  A = A  B = B
    None = None
    Pods <- OnePod
    Segments <- PodNames
    ServiceAccount <- OneAccount
    Templates <- Versions
    NumItems <- OneItem
    Digest <- Digests
    ReportPhases <- Successes
    Allowed <- Misled
    MaxDisruptions = 3
PROPERTIES ResyncCorrects
CHECK_DEADLOCK FALSE
