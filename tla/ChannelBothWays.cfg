SPECIFICATION Spec
CONSTANTS
    Client = client
    Server = server
    a = a
    b = b
    Empty = empty
    Msg = {a, b}
    Greeting <- NoGreeting
    MaxWindow = 2
    Lock3Deferred = {TRUE}
    Garbage = {0}
    StaleFlag = {FALSE}
    Leavers = {}
    MaxSend <- TwoAndOne
    MaxAcks = 1
    MaxDeficit = 0
    NetCap <- OneToEach
INVARIANTS
    InOrderExactlyOnce
    NothingForgotten
    AckNeverAhead
PROPERTY LinkSpec
SYMMETRY Messages
CHECK_DEADLOCK FALSE
