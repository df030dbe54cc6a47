SPECIFICATION FairSpec
CONSTANTS
    Pids = {p1, p2}
    NoPid = NoPid
    Base = {1}
    Volumes = {2}
    MaxMounts = 2
    MaxRequests = 2
    MaxInbox = 1
    MaxOthers = 1
    MaxFails = 1
CHECK_DEADLOCK FALSE
INVARIANTS
    NoLostDeath
    CleanStop
PROPERTIES
    StopReturns
