CONSTANTS
    MaxSessions = 1
    MaxMsgs = 2
    CrCap = 4
    MaxOut = 0
    MaxHelpers = 0
    MaxRelays = 0
SPECIFICATION FairSpec
CHECK_DEADLOCK FALSE
PROPERTIES
    TerminateHonoured
