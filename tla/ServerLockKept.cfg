SPECIFICATION FairSpec
CONSTANTS
    r1 = r1
    r2 = r2
    d1 = d1
    d2 = d2
    t1 = t1
    t2 = t2
    i1 = i1
    i2 = i2
    None = None
    Thread = {t1}
    Reliable = {r1, r2}
    Datagram = {}
    IpOf <- OneAddress
    ClosedFlags = FALSE
    Operations = {"receive"}
    MaxChannels = 2
    MaxQueued = 1
PROPERTIES
    ConfirmedIsInserted
CHECK_DEADLOCK FALSE
