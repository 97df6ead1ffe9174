\* Two calls of any requests, three of those that are merged: what calls left
\* unread, in front of an inventory or inside it, cut at any fifth byte.
SPECIFICATION Spec
CONSTANTS
    Requests <- AllRequests
    ReadSizes = {5}
    Tags <- OneTag
    MaxTags = 1
    MaxCalls = 3
CONSTRAINT
    ThirdIsMerged
INVARIANTS
    RequestsUnderstood
    AnswersAreRead
    StraysNeedAbandoned
PROPERTIES
    ReadsAtoms
CHECK_DEADLOCK FALSE
