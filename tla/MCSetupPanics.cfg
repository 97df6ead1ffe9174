\* The region of the tests.
SPECIFICATION SetupSpec
CONSTANTS
    Commands = {"GetAntConnectionDetector", "SetAntConnectionDetector",
                "GetFrequencyRegion", "SetDefaultFrequencyRegion",
                "GetOutputPower", "SetOutputPower",
                "GetRfLinkProfile", "SetRfLinkProfile"}
    MaxCalls = 5
    Wanted <- TestRegion
    PowerIsErrorCode = FALSE
INVARIANT
    SupportsRegion
CHECK_DEADLOCK FALSE
