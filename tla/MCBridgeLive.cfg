CONSTANTS
    MaxSessions = 1
    MaxMsgs = 1
    CrCap = 2
    MaxOut = 1
    MaxHelpers = 1
    MaxRelays = 0
SPECIFICATION FairSpec
CHECK_DEADLOCK FALSE
PROPERTIES
    SessionEnds
    TerminateStops
