SPECIFICATION Spec
CONSTANTS
    Urbs = {u1, u2}
    NoUrb = NoUrb
    Shadows = {s1, s2, s3}
    NoShadow = NoShadow
    Immediate = {u2}
    Cancellable = {u1}
    MayReset = TRUE
    MayDestroy = TRUE
    GrantShortage = FALSE
SYMMETRY ShadowSymmetry
CHECK_DEADLOCK FALSE
INVARIANTS
    OnePlace
    ShadowsConserved
    ResponseFindsUrb
    HaltedIsQuiet
PROPERTIES
    ImplementsChannel
