SPECIFICATION Spec
CONSTANTS
    p1 = p1  p2 = p2  v1 = v1  v2 = v2  A = A  B = B
    None = None
    Pods <- OnePod
    Segments <- PodNames
    Injected <- OnePod
    Templates <- OneVersion
    NumItems <- OneItem
    Digest <- Digests
    Allowed <- Stale
    MaxDisruptions = 1
INVARIANTS NeverPanics
CHECK_DEADLOCK FALSE
