CONSTANTS
    r = r
    a = a
    b = b
    c = c
    p1 = p1
    Nodes = {r, a, b, c}
    Root = r
    NoAddress = NoAddress
    NoPacket = NoPacket
    Packets = {p1}
    Hellos = {}
    Origin <- MCOrigin
    InitialTTL = 3
    HistorySize = 1
    SequenceNumbers = 2
    MaxDelivered = 0
    ForwardingCost = 1
    Costs = {1, 2, 255}
    Unsettled = {c}
    Stopping = {b}
SPECIFICATION GradientSpec
INVARIANTS
    GradientTypeOK
    NoNodeTwice
    DeadEndsOnlyAsked
    HopLimitBoundsPath
