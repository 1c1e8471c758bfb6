CONSTANTS
    Clusters = {1, 2}
    Attributes = {1, 2}
    MaxHandlers = 1
    MaxCalls = 1
    MaxFabrics = 2
    MaxAttributes = 1
SPECIFICATION Spec
CHECK_DEADLOCK FALSE
INVARIANT
    BlocksKeepTheMap
