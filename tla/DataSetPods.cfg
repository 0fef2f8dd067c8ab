SPECIFICATION Spec
CONSTANTS
    p1 = p1  p2 = p2  v1 = v1  v2 = v2  A = A  B = B
    None = None
    Pods <- TwoPods
    Segments <- PodNames
    Injected <- TwoPods
    Templates <- OneVersion
    NumItems <- OneItem
    Digest <- Digests
    Allowed <- Steady
    MaxDisruptions = 2
INVARIANTS TypeOK NeverPanics OneDataPerPod StatusCounts
CHECK_DEADLOCK FALSE
