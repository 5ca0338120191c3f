\* A message that is given another address after it was read.
CONSTANTS
    MaxMsgs = 1
    MAX_MESSAGE_SIZE = 1500
    Sizes = {20}
    AddrLens = {1}
    StrLens = {0}
    MaxArgs = 0
    Addresses <- TwoAddresses
    Strings = {1}
    MaxTypes = 1
    MaxArguments = 0
    MaxWords = 0
SPECIFICATION SequentialSpec
INVARIANT MessageIsComplete
