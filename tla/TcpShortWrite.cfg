\* async_write_some may write less than the frame.
CONSTANTS
    MaxMsgs = 1
    MaxDrops = 0
    MaxAge = 0
    NEndpoints = 1
    TIMEOUT_SECONDS = 10
    MINUTE = 60
    Faults = {"short"}
SPECIFICATION FairSpec
PROPERTIES
    ValidConnectionDelivers
CHECK_DEADLOCK FALSE
