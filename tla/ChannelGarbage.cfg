SPECIFICATION Spec
CONSTANTS
    Client = client
    Server = server
    a = a
    b = b
    Empty = empty
    Msg = {a, b}
    Greeting <- NoGreeting
    MaxWindow = 2
    Lock3Deferred = {TRUE}
    Garbage = {9}
    StaleFlag = {TRUE}
    Leavers = {client}
    MaxSend <- TwoAndNone
    MaxAcks = 1
    MaxDeficit = 1
    NetCap <- TwoToServer
INVARIANTS
    TypeOK
    OrderSurvivesGarbage
SYMMETRY Messages
CHECK_DEADLOCK FALSE
