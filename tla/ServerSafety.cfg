SPECIFICATION Spec
CONSTANTS
    r1 = r1
    r2 = r2
    d1 = d1
    d2 = d2
    t1 = t1
    t2 = t2
    i1 = i1
    i2 = i2
    None = None
    Thread = {t1, t2}
    Reliable = {r1, r2}
    Datagram = {d1, d2}
    IpOf <- TwoAddresses
    ClosedFlags = TRUE
    Operations = {"receive", "send", "close", "wait"}
    MaxChannels = 2
    MaxQueued = 2
INVARIANTS
    TypeOK
    RoutedToOwner
    NoLostWakeup
PROPERTIES
    StuckForGood
SYMMETRY Symmetry
CHECK_DEADLOCK FALSE
