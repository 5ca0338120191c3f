\* Every fault the environment knows; two drops, so that a retransmission
\* is itself interrupted.
CONSTANTS
    MaxMsgs = 4
    MaxDrops = 2
    MaxAge = 3
    NEndpoints = 2
    TIMEOUT_SECONDS = 1
    MINUTE = 3
    Faults = {"spawn", "resolve", "connect", "short", "wakeup"}
SPECIFICATION Spec
INVARIANTS
    OneOperation
    BufferStable
    FlagsTellTheTruth
    NoIdleBacklog
    WaiterHasWaker
    IndInv
PROPERTIES
    RefinesOrderedLink
CHECK_DEADLOCK FALSE
