SPECIFICATION Spec
CONSTANTS
    Client = client
    Server = server
    a = a
    b = b
    Empty = empty
    Msg = {a, b}
    Greeting <- NoGreeting
    MaxWindow = 2
    Lock3Deferred = {TRUE}
    Garbage = {0, 9}
    StaleFlag = {FALSE}
    Leavers = {}
    MaxSend <- TwoAndNone
    MaxAcks = 2
    MaxDeficit = 1
    NetCap <- OneToEach
INVARIANT InOrderExactlyOnce
CHECK_DEADLOCK FALSE
