\* A socket whose empty read is WouldBlock.
SPECIFICATION FairSpec
CONSTANTS
    Simple = {"GetWorkAntenna", "GetRfPortReturnLoss"}
    Firmware = {}
    Region = {}
    Single = {}
    Fast = {"FastSwitchAntInventory"}
    MaxTags = 1
    MaxCalls = 2
    Nonblocking = TRUE
PROPERTY
    CallsEnd
CHECK_DEADLOCK FALSE
