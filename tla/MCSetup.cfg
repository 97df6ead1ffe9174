\* Setup, run again as long as there are calls left; the wanted power
\* is 17 dBm, the code of a refusal; the region wanted may be a custom one, or
\* one that is not in the table.
SPECIFICATION SetupSpec
CONSTANTS
    Commands = {"GetAntConnectionDetector", "SetAntConnectionDetector",
                "GetFrequencyRegion", "SetDefaultFrequencyRegion",
                "GetOutputPower", "SetOutputPower",
                "GetRfLinkProfile", "SetRfLinkProfile"}
    MaxCalls = 6
    Wanted <- AllRegions
    PowerIsErrorCode = TRUE
CONSTRAINT
    OtherRegionsShort
INVARIANTS
    SetupTypeOK
    PassedSettingsHold
PROPERTIES
    WritesAreNeeded
CHECK_DEADLOCK FALSE
