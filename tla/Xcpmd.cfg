SPECIFICATION FairSpec
CONSTANTS
    Bays <- MCBays
    Cells = {1, 2, 3}
    InitBays <- MCInitBays
    Text <- MCText
    MaxChanges = 3
    MaxFaults = 1
CHECK_DEADLOCK FALSE
PROPERTIES
    NodesFollow
