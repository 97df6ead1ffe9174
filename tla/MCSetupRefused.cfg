\* A reader that may refuse what it is asked to set.
SPECIFICATION SetupSpec
CONSTANTS
    Commands = {"GetAntConnectionDetector", "SetAntConnectionDetector",
                "GetFrequencyRegion", "SetDefaultFrequencyRegion",
                "GetOutputPower", "SetOutputPower",
                "GetRfLinkProfile", "SetRfLinkProfile"}
    MaxCalls = 5
    Wanted <- OneRegion
    PowerIsErrorCode = FALSE
INVARIANT
    SetupConfigures
CHECK_DEADLOCK FALSE
