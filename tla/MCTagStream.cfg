\* The async stream, which can be dropped while it waits.
SPECIFICATION StreamSpec
CONSTANTS
    Simple = {"GetWorkAntenna"}
    Firmware = {}
    Region = {}
    Single = {}
    Fast = {"FastSwitchAntInventory"}
    MaxTags = 1
    MaxCalls = 3
    Nonblocking = FALSE
    Async = TRUE
INVARIANTS
    TagsYieldedOnce
    EndedStreamIsComplete
CHECK_DEADLOCK FALSE
