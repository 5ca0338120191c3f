\* BlockUntilQueueIsEmpty returns with a frame pending; one frame is enough, and
\* no fault is needed.
CONSTANTS
    MaxMsgs = 1
    MaxDrops = 0
    MaxAge = 0
    NEndpoints = 1
    TIMEOUT_SECONDS = 10
    MINUTE = 60
    Faults = {}
SPECIFICATION Spec
PROPERTIES
    BlockDrains
CHECK_DEADLOCK FALSE
