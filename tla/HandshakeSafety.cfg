SPECIFICATION Spec
CONSTANTS
    c1 = c1
    c2 = c2
    One = One
    Ok = Ok
    Empty = Empty
    None = None
    Client = {c1}
    CountMod = 2
    Crashers = {c1}
    Leavers = {c1}
    Awaited <- Nobody
    MaxChannels = 3
    MaxStarts = 2
    Garbage = {0}
    MaxAcks = 1
    MaxDeficit <- Twice
    NetCap = 3
INVARIANTS
    TypeOK
    OneChannelPerClient
    RegisteredHasConfirmed
    NotAbandoned
PROPERTY RegisteredForGood
CHECK_DEADLOCK FALSE
