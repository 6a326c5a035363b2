SPECIFICATION FairSpec
CONSTANTS
    NPorts = 1
    Devices = {d1, d2}
    NoDevice = NoDevice
    Ids = {i1}
    NoId = NoId
    MayDie = TRUE
    MayReset = TRUE
    Unload = TRUE
CHECK_DEADLOCK FALSE
INVARIANTS
    PortsApart
    FreePortQuiet
    SpeedReported
PROPERTIES
    HubLearnsArrival
    HubSeesRemoval
    ResetCompletes
