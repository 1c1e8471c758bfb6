SPECIFICATION Spec
CONSTANTS
    Producers = {p1, p2}
    Loop = loop
    NoTask = noTask
    Calls = {c1, c2, c3}
    Stop = stop
    NoCall = noCall
INVARIANTS
    TypeOK
    FifoExactlyOnce
    LockDiscipline
    NoLostWakeup
PROPERTIES
    ImplementsExecutor
    EveryCallRuns
    EnqueueReturns
\* Idle or destroyed loops stop for good.
CHECK_DEADLOCK FALSE
