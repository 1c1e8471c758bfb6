CONSTANTS
    Handlers = {event_handler, other}
    EventHandler = event_handler
    None = None
    EventQueueSize = 1
    MaxRegistered = 2
    Muxes = {m1, m2}
    Pgas = {p1}
    Nothing = Nothing
SPECIFICATION Spec
CHECK_DEADLOCK FALSE
INVARIANTS
    TypeOK
    LastSetWins
    PointersOutliveEvents
PROPERTIES
    ReportsTheRequest
    Answered
