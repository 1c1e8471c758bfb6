SPECIFICATION NewsSpec
CONSTANTS
    Clients = {app}
    Zb = zb
    Timer = timer
    Loop = loop
    NumHandlers = 2
    MaxCalls = 1
    MaxFailures = 1
    MaxIncidents = 1
INVARIANTS
    TypeOK
    OutcomeAfterJoining
    QuietHandlersKnow
    RetryChainsBounded
PROPERTIES
    JoinsInTheEnd
    TellsInTurn
    EverybodyHears
\* A node that is joined and left alone does nothing.
CHECK_DEADLOCK FALSE
