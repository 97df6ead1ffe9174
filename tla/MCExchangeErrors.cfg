\* An answer of another command, or an antenna error, opens the buffer.
SPECIFICATION Spec
CONSTANTS
    Simple = {"GetWorkAntenna", "GetRfPortReturnLoss"}
    Firmware = {}
    Region = {}
    Single = {}
    Fast = {"FastSwitchAntInventory"}
    MaxTags = 1
    MaxCalls = 2
    Nonblocking = FALSE
PROPERTY
    ParseErrorsAreReturned
CHECK_DEADLOCK FALSE
