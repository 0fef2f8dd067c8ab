SPECIFICATION FairSpec
CONSTANTS
    c1 = c1  c2 = c2  c3 = c3  o1 = o1  o2 = o2
    None = None
    Clients <- ThreeClients
    Wants <- Mixed
    Readers <- OneReader
    Objects <- AllObjects
    Selected <- InNamespace
    MaxWrites = 1
INVARIANTS TypeOK OneInformer ReadyIsSynced StoreIntact
PROPERTIES ListersServe
CHECK_DEADLOCK FALSE
