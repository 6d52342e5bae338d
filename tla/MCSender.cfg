SPECIFICATION TxFairSpec
CONSTANTS
    SeqSpace = 4
    MaxPending = 2
    TxQueueSize = 2
    MaxRetries = 2
    InitialRtt = 2
    RttAlpha = 128
    MaxMs = 5
INVARIANTS
    TxTypeOK
    TxQueueMirrors
    InflightPending
PROPERTIES
    FailedAfterSilence
    BackoffGrows
    ImplementsRetry
    SlotsSettleUnlessStarved
