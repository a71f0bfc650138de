SPECIFICATION FairSpec
CONSTANTS
    Client = client
    Server = server
    a = a
    b = b
    Empty = empty
    Msg = {a}
    Greeting <- Hello
    MaxWindow = 2
    Lock3Deferred = {TRUE, FALSE}
    Garbage = {0}
    StaleFlag = {FALSE}
    Leavers = {}
    MaxSend <- ThreeAndNone
    MaxAcks = 1
    MaxDeficit = 0
    NetCap <- OneToEach
PROPERTY WindowDelivered
CHECK_DEADLOCK FALSE
