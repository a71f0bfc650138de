SPECIFICATION Spec
CONSTANTS
    c1 = c1
    c2 = c2
    a = a
    b = b
    Zero = zero
    Reply = reply
    Message = message
    Listener = listener
    None = None
    Client = {c1, c2}
    IpOf <- OwnAddress
    Restarters = {c1}
    Text = {a, b}
    MaxChannels = 2
    MaxTasks <- TwoForTheFirst
    NetCap = 2
INVARIANTS
    TypeOK
    ConnectedToOwn
    ComingWasSent
    QueuedByAddress
    
PROPERTY StrandedForGood
SYMMETRY Symmetry
CHECK_DEADLOCK FALSE
