\* The blocking iterator, among other calls.
SPECIFICATION StreamFairSpec
CONSTANTS
    Simple = {"GetWorkAntenna"}
    Firmware = {}
    Region = {}
    Single = {}
    Fast = {"FastSwitchAntInventory"}
    MaxTags = 2
    MaxCalls = 2
    Nonblocking = FALSE
    Async = FALSE
INVARIANTS
    StreamTypeOK
    TagsYieldedOnce
    EndedStreamIsComplete
PROPERTIES
    ReadFailureIsReported
    StreamsEnd
CHECK_DEADLOCK FALSE
