\* Both inventories, and two commands with a refusal that is not read: by a
\* panic, or never.
SPECIFICATION FairSpec
CONSTANTS
    Simple = {}
    Firmware = {"GetFirmwareVersion"}
    Region = {"GetFrequencyRegion"}
    Single = {"CustomizeSessionTargetInventory"}
    Fast = {"FastSwitchAntInventory"}
    MaxTags = 1
    MaxCalls = 3
    Nonblocking = FALSE
INVARIANTS
    TypeOK
    OwnUnlessAbandoned
    FramesReportedOnce
    InventoryComplete
    PanicNeedsTwoAbandoned
PROPERTIES
    PortSpec
    CallsEnd
CHECK_DEADLOCK FALSE
