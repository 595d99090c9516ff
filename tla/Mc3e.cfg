CONSTANTS
    c1 = c1
    c2 = c2
    NoConn = NoConn
    Conn = {c1, c2}
    Script <- MCScript
    Request <- MCRequest
    BodyLength = 1
    InitialSize = 2
    Size = 4
    WordBits = 2
SPECIFICATION ServerSpec
INVARIANTS
    HandledAsSent
PROPERTIES
    ArrivedIsHandled
    ImplementsMemory
CHECK_DEADLOCK FALSE
