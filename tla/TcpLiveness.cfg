\* Every fault but a failing resolve (see TcpResolveFails), a short write (see
\* TcpShortWrite) and spurious wakeups, which could come often enough to starve
\* the I/O thread of the mutex.  A blocked caller would deadlock.
CONSTANTS
    MaxMsgs = 4
    MaxDrops = 2
    MaxAge = 1
    NEndpoints = 2
    TIMEOUT_SECONDS = 1
    MINUTE = 60
    Faults = {"spawn", "connect"}
SPECIFICATION FairSpec
PROPERTIES
    BlockReturns
    QueueDrains
    RetransmissionDelivers
    ValidConnectionDelivers
