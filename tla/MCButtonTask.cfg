SPECIFICATION Spec
CONSTANTS
    Periods = {1, 2}
    LongMs = 4
    ShorterMs = {2}
    SleepMs = 14
    MaxBounce = 3
    IdleWrap = 17
INVARIANTS
    TypeOK
    OneReportPerPress
    HeldIsLong
    SleepsOnlyAfterReport
    HandlersHaveLoop
PROPERTIES
    LongWasHeld
