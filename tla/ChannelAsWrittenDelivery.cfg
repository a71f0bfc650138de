SPECIFICATION FairSpec
CONSTANTS
    Client = client
    Server = server
    a = a
    b = b
    Empty = empty
    Msg = {a}
    Greeting <- Hello
    MaxWindow = 2
    Lock3Deferred = {FALSE}
    Garbage = {0}
    StaleFlag = {FALSE}
    Leavers = {}
    MaxSend <- OneAndOne
    MaxAcks = 1
    MaxDeficit = 1
    NetCap <- OneToEach
PROPERTY SentIsDelivered
CHECK_DEADLOCK FALSE
