SPECIFICATION ChannelsSpec
CONSTANTS
    SeqSpace = 8
    NumChannels = 3
    Reliable = {0, 2}
    MaxPending = 1
    MaxRetries = 1
    MaxReorder = 1
    TxCacheSize = 2
    RxCacheSize = 1
    MaxPackets = 2
INVARIANTS
    ChannelsTypeOK
    NoCacheLeak
PROPERTIES
    NoDoubleOvertake
