SPECIFICATION RxSpec
CONSTANTS
    SeqSpace = 10
    MaxReorder = 3
    RxQueueSize = 3
INVARIANTS
    RxTypeOK
    ReorderAhead
PROPERTIES
    DeliveryDrains
    NoGapSkipped
    BufferedThenDelivered
