\* The async stream and a reader that does not answer.
SPECIFICATION StreamSpec
CONSTANTS
    Simple = {"GetWorkAntenna"}
    Firmware = {}
    Region = {}
    Single = {}
    Fast = {"FastSwitchAntInventory"}
    MaxTags = 1
    MaxCalls = 1
    Nonblocking = FALSE
    Async = TRUE
PROPERTY
    ReadFailureIsReported
CHECK_DEADLOCK FALSE
