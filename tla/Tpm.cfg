SPECIFICATION FairSpec
CONSTANTS
    MaxCmds = 3
    CmdSize = 3
    RspSize = 3
    RspHead = 2
    OutSizes = {2, 4}
    Bursts = {1, 2}
CHECK_DEADLOCK FALSE
INVARIANTS
    OwnAnswer
    LocalityLetGo
    LaunchClear
PROPERTIES
    LaunchEnds
