\* One call of either inventory, asked for phases.
SPECIFICATION Spec
CONSTANTS
    Requests <- PhaseRequests
    ReadSizes = {5}
    Tags <- OneTag
    MaxTags = 1
    MaxCalls = 1
INVARIANTS
    PhasesAreRead
CHECK_DEADLOCK FALSE
