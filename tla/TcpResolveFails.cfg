\* resolve() throws: nobody clears msg_to_send_ or notifies.
CONSTANTS
    MaxMsgs = 1
    MaxDrops = 0
    MaxAge = 0
    NEndpoints = 1
    TIMEOUT_SECONDS = 10
    MINUTE = 60
    Faults = {"resolve"}
SPECIFICATION FairSpec
PROPERTIES
    BlockReturns
CHECK_DEADLOCK FALSE
