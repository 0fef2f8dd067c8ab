SPECIFICATION Spec
CONSTANTS
    p1 = p1  p2 = p2  s1 = s1  s2 = s2
    None = None
    Pods <- AllPods
    DataSets <- AllDataSets
    Labels <- PodLabels
    Selector <- Selectors
    OwnVolumes <- PodVolumes
    EnableAffinity = TRUE
    Readable = TRUE
    Outages = TRUE
    LateDataSets = TRUE
    MaxWrites = 5
INVARIANTS TypeOK InjectedWhole InjectedBySelector
CHECK_DEADLOCK FALSE
PROPERTIES EldersServed
