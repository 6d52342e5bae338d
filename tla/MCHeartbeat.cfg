SPECIFICATION HeartbeatFairSpec
CONSTANTS
    Intervals = {0, 2}
    MissMaxes = {0, 1, 2}
    MaxSilence = 4
    MaxConfigs = 1
    MaxAir = 2
INVARIANTS
    HeartbeatTypeOK
PROPERTIES
    TimeoutAfterSilence
    DeadPeerReported
