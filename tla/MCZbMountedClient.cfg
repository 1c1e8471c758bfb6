SPECIFICATION Spec
CONSTANTS
    Attrs = {time, zone, other}
    Known = {time, zone}
    Time = time
    ZoneAttrs = {zone}
    NoAttr = noAttr
    NumHandlers = 2
    MaxCalls = 2
    MaxLosses = 1
    MaxChanges = 1
INVARIANT
    MountedFindTheirAttributes
CHECK_DEADLOCK FALSE
