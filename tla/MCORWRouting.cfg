CONSTANTS
    r = r
    a = a
    b = b
    p1 = p1
    p2 = p2
    p3 = p3
    Nodes = {r, a, b}
    Root = r
    NoAddress = NoAddress
    NoPacket = NoPacket
    Packets = {p1, p2, p3}
    Hellos = {p2}
    Origin <- MCOriginOne
    InitialTTL = 3
    HistorySize = 1
    SequenceNumbers = 2
    MaxDelivered = 6
SPECIFICATION FairSpec
INVARIANTS
    TypeOK
    SlotServed
    HopChain
    DuplicateWindow
    FalseDuplicateOnlyAfterWrap
PROPERTIES
    QueuedNotLost
    SlotEmptied
