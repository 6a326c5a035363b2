SPECIFICATION DeviceSpec
CONSTANTS
    Urbs = {u1}
    NoUrb = NoUrb
    Shadows = {s1, s2}
    NoShadow = NoShadow
    Immediate = {}
    Cancellable = {}
    MayReset = FALSE
    MayDestroy = TRUE
    GrantShortage = FALSE
CHECK_DEADLOCK FALSE
PROPERTIES
    DestroyCompletes
