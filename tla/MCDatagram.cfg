SPECIFICATION DatagramSpec
CONSTANTS
    SeqSpace = 6
    MaxFrames = 9
    MaxArrivals = 8
INVARIANTS
    DatagramTypeOK
    LossesBounded
PROPERTIES
    NewestWins
CHECK_DEADLOCK FALSE
