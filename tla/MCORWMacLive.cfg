SPECIFICATION FairSpec
CONSTANTS
    u1 = u1  b1 = b1  n1 = n1  x1 = x1  x2 = x2
    NoFrame = NoFrame
    Packets = {u1, b1}
    BroadcastPackets = {b1}
    Neighbours = {n1}
    RxPackets = {x1, x2}
    RxPacketsForMe = {x1}
    QueueCapacity = 2
    MaxTxTries = 1
    CheckDataPacketEqDC = TRUE
    SkipDirectTxFinalAck = FALSE
    InstantSleep = FALSE
PROPERTIES
    AwaitEnds
    PhasesEnd
    EveryPacketResolved
