CONSTANTS
    r = r
    a = a
    b = b
    c = c
    p1 = p1
    Nodes = {r, a, b, c}
    Root = r
    Links <- TriangleLinks
    Meetings <- TriangleMeetings
    Packets = {}
    Hello = Hello
    Helloing = {a, b}
    Origin <- FromRoot
    Destination <- ToB
    InitialTTL = 3
    ForwardingCost = 0
    Estimates = {4, 6, 8}
    InitialEstimates <- EqualOrStaggered
    Unsettled = {r}
    MaxFrames = 1
    MaxInteractions = 1
    NoPacket = NoPacket
SPECIFICATION OrplFairSpec
INVARIANTS
    RoutingSetsConsistent
PROPERTIES
    LeftIsForgotten
