CONSTANTS
    r = r
    a = a
    b = b
    c = c
    p1 = p1
    Nodes = {r, a, b}
    Root = r
    Links <- LineLinks
    Meetings <- LineMeetings
    Packets = {p1}
    Hello = Hello
    Helloing = {a}
    Origin <- FromRoot
    Destination <- ToB
    InitialTTL = 3
    ForwardingCost = 1
    Estimates = {4, 6}
    InitialEstimates <- Rising
    Unsettled = {}
    MaxFrames = 1
    MaxInteractions = 1
    NoPacket = NoPacket
SPECIFICATION OrplSpec
INVARIANTS
    OrplTypeOK
    AcceptedBetween
    LoopsOnlyByTurning
