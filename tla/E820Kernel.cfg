SPECIFICATION Spec
CONSTANTS
    Top = 8
    OneM = 2
    FourG = 5
    MaxEntries = 4
    MaxRaw = 3
    Sizes = {0, 1, 2, 4}
    LogRegions <- LogRegionsDef
    MinRams = {0, 2}
CHECK_DEADLOCK FALSE
INVARIANTS
    KernelRamProtected
