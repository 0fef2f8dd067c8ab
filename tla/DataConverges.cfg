SPECIFICATION FairSpec
CONSTANTS
    p1 = p1  v1 = v1  v2 = v2  A = A  B = B
    None = None
    Pods <- OnePod
    Segments <- PodNames
    ServiceAccount <- OneAccount
    Templates <- Versions
    NumItems <- GrowingItems
    Digest <- Digests
    ReportPhases <- Progress
    Allowed <- Rolling
    MaxDisruptions = 2
PROPERTIES Converges
CHECK_DEADLOCK FALSE
