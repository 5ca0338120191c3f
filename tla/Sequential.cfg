\* Facade: messages that share a bundle, that fill one to the limit, and that
\* leave no room for the header.  voscpack: all remainders modulo four of the
\* address and of a string, every type tag, three at a time.  Message: strings,
\* blobs and arrays of one byte, among numbers.  am_client: three words suffice
\* for an option or a command, its value, and what follows it.
CONSTANTS
    MaxMsgs = 4
    MAX_MESSAGE_SIZE = 1500
    Sizes = {20, 740, 1500}
    AddrLens = {1, 2, 3, 4}
    StrLens = {0, 3, 4}
    MaxArgs = 3
    Addresses <- TwoAddresses
    Strings = {1}
    MaxTypes = 3
    MaxArguments = 3
    MaxWords = 3
SPECIFICATION SequentialSpec
INVARIANTS
    SequentialTypeOK
    EveryMessageOnce
    OverrunBounded
    EmptyOnlyBeforeLarge
    SizeIsWritten
    ReturnsOscSize
    SizersRefuseAlike
    ReadersSeeTheMessage
    ArgumentsAreTaken
    CommandsAreSent
PROPERTIES
    StrayEndIsIgnored
