SPECIFICATION Spec
CONSTANTS
    p1 = p1  p2 = p2  v1 = v1  v2 = v2  A = A  B = B
    None = None
    Pods <- TwoPods
    Segments <- PodNames
    Injected <- TwoPods
    Templates <- Versions
    NumItems <- OneItem
    Digest <- Digests
    Allowed <- Edits
    MaxDisruptions = 1
INVARIANTS EveryDataUpdated
CHECK_DEADLOCK FALSE
