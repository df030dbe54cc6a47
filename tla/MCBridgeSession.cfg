CONSTANTS
    MaxSessions = 2
    MaxMsgs = 2
    CrCap = 3
    MaxOut = 1
    MaxHelpers = 0
    MaxRelays = 1
SPECIFICATION TwoSessions
CHECK_DEADLOCK FALSE
INVARIANTS
    NoStrayKill
    ExitStatusOnce
    ReapedOnReturn
    NoSilentEnd
    OutputBeforeExitStatus
    ControlStreamIntact
    HangupBeforeKill
PROPERTIES
    ImplementsService
