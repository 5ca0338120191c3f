\* Every fault the environment knows.  A resolve or send that fails can
\* leave a blocked caller behind (see UdpSendFails), hence no deadlock check.
CONSTANTS
    MaxMsgs = 4
    Faults = {"spawn", "resolve", "send", "wakeup"}
SPECIFICATION FairSpec
INVARIANTS
    BufferStable
    NoIdleDatagram
    ErrorIsFinal
    WaiterHasWaker
    IndInv
PROPERTIES
    NothingLost
    RefinesOrderedLink
    BlockEnds
    DatagramsLeave
CHECK_DEADLOCK FALSE
