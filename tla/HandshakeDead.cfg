SPECIFICATION FairSpec
CONSTANTS
    c1 = c1
    c2 = c2
    One = One
    Ok = Ok
    Empty = Empty
    None = None
    Client = {c1, c2}
    CountMod = 4
    Crashers = {c1}
    Leavers = {}
    Awaited <- OneAfterTheOther
    MaxChannels = 2
    MaxStarts = 1
    Garbage = {}
    MaxAcks = 1
    MaxDeficit <- Never
    NetCap = 2
PROPERTIES
    AskingIsTold
CHECK_DEADLOCK FALSE
