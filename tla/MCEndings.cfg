\* The tunnel: two UDP slots, no TCP.  The interpreter: two acts of the user, one
\* chunk of one stream, room for one chunk of input.
SPECIFICATION EndSpec
CONSTANTS
    UdpSlots = 2
    TcpSlots = 0
    IdMod = 4
    MaxQueries = 2
    MaxConns = 0
    MaxFrames = 1
    MaxAnswers = 1
    Streams = {"out"}
    MaxActs = 2
    MaxChunks = 1
    StdinRoom = 1
CHECK_DEADLOCK FALSE
INVARIANTS
    NtSafe
PROPERTIES
    SlotReclaimed
    ClientEnds
