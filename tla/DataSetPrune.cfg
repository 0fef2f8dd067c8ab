SPECIFICATION Spec
CONSTANTS
    p1 = p1  p2 = p2  v1 = v1  v2 = v2  A = A  B = B
    None = None
    Pods <- TwoPods
    Segments <- BareName
    Injected <- TwoPods
    Templates <- Versions
    NumItems <- OneItem
    Digest <- Digests
    Allowed <- Hostile
    MaxDisruptions = 3
PROPERTIES PruneIsSafe
CHECK_DEADLOCK FALSE
