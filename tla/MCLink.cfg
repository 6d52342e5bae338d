SPECIFICATION LinkFairSpec
CONSTANTS
    SeqSpace = 12
    MaxPending = 3
    MaxRetries = 1
    MaxReorder = 2
    RxQueueSize = 8
    RxCacheSize = 9
    MaxReassembly = 16
    MaxFragments = 2
    MaxPackets = 5
    MaxWork = 8
    FragmentTimeouts = FALSE
    SendErrors = FALSE
    ColdFragments = FALSE
    LongMessages = FALSE
INVARIANTS
    PendingFragmentsTracked
    IntactMessages
    AckedReachesApp
PROPERTIES
    ImplementsDelivery
    DeliveredOrFailed
    GapFillsOrFails
