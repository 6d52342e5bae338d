SPECIFICATION LinkSpec
CONSTANTS
    SeqSpace = 12
    MaxPending = 3
    MaxRetries = 1
    MaxReorder = 2
    RxQueueSize = 8
    RxCacheSize = 9
    MaxReassembly = 16
    MaxFragments = 1
    MaxPackets = 6
    MaxWork = 20
    FragmentTimeouts = FALSE
    SendErrors = FALSE
    ColdFragments = FALSE
    LongMessages = FALSE
PROPERTIES
    ExpectedAcknowledged
