\* Safety: one UDP slot for two queries, one TCP slot for two connections.
SPECIFICATION Spec
CONSTANTS
    UdpSlots = 1
    TcpSlots = 1
    IdMod = 4
    MaxQueries = 2
    MaxConns = 2
    MaxFrames = 1
    MaxAnswers = 2
CHECK_DEADLOCK FALSE
INVARIANTS
    ReplyToAsker
    NoRepeatedReply
    EventForItsConnection
