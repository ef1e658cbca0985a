SPECIFICATION Spec
CONSTANTS
    DestAddresses <- OneDestination
    OtherAddresses = {"sink"}
    PacketCapacity = 3
    RateNum = 2
    RateDen = 5
    MaxCycles = 12
INVARIANTS
    HelloTypeOK
    SilenceBounded
\* MaxCycles ends every behaviour
CHECK_DEADLOCK FALSE
