\* The first send fails; the second datagram waits for ever behind it.
CONSTANTS
    MaxMsgs = 2
    Faults = {"send"}
SPECIFICATION FairSpec
PROPERTIES
    BlockReturns
CHECK_DEADLOCK FALSE
