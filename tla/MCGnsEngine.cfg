\* Two IPv4 ports and one IPv6 port with a silent host, or one port beside one
\* of a few kinds of request and then any request.
SPECIFICATION MCSpec
CONSTANTS
    N4 = 2
    N6 = 1
    MaxChanges = 2
    MaxFails = 1
    MaxRequests = 2
    MaxWrites = 1
    Requests <- MCRequests
CHECK_DEADLOCK FALSE
INVARIANTS
    
    RelayMatchesSnapshot
PROPERTIES
    GnsLive
