CONSTANTS
    r = r
    a = a
    b = b
    p1 = p1
    p2 = p2
    p3 = p3
    Nodes = {r, a, b}
    Root = r
    NoAddress = NoAddress
    NoPacket = NoPacket
    Packets = {p1, p3}
    Hellos = {}
    Origin <- MCOriginTwo
    InitialTTL = 3
    HistorySize = 1
    SequenceNumbers = 4
    MaxDelivered = 2
SPECIFICATION Spec
INVARIANT
    SignalledPacketExists
