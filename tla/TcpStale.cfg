\* The library's own constants: 10 seconds, 60 seconds to the minute.
CONSTANTS
    MaxMsgs = 2
    MaxDrops = 1
    MaxAge = 60
    NEndpoints = 1
    TIMEOUT_SECONDS = 10
    MINUTE = 60
    Faults = {}
SPECIFICATION Spec
PROPERTIES
    NoStaleRetransmission
CHECK_DEADLOCK FALSE
