SPECIFICATION LinkSpec
CONSTANTS
    SeqSpace = 12
    MaxPending = 3
    MaxRetries = 1
    MaxReorder = 1
    RxQueueSize = 4
    RxCacheSize = 2
    MaxReassembly = 3
    MaxFragments = 3
    MaxPackets = 5
    MaxWork = 7
    FragmentTimeouts = TRUE
    SendErrors = TRUE
    ColdFragments = TRUE
    LongMessages = TRUE
INVARIANTS
    LinkTypeOK
    AckedWasReceived
    TxCacheMirrors
    OneFragmentedMessage
    FramesInOrder
    SpoiltForCause
    HandedFitsQueue
