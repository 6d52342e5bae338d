SPECIFICATION NodeFairSpec
CONSTANTS
    MaxPeers = 2
    MaxChannels = 4
    PeerMac = peer
    MainChannel = 1
    Openings <- MCOpenings
    MaxPayload = 241
    Incoming <- MCIncoming
    Seqs <- MCSeqs
    MaxPending = 2
    MaxReassembly = 2
    BurstCount = 2
    FragmentTimeout = 1
    RetryTimeout = 1
    MaxLate = 1
INVARIANTS
    NodeTypeOK
    TimersNeverAhead
    BuiltFramesDecode
PROPERTIES
    BufferLostForCause
    ChannelsKept
    SilenceClearsBuffer
