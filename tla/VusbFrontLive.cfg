SPECIFICATION DriverSpec
CONSTANTS
    Urbs = {u1, u2}
    NoUrb = NoUrb
    Shadows = {s1, s2}
    NoShadow = NoShadow
    Immediate = {}
    Cancellable = {u1}
    MayReset = FALSE
    MayDestroy = FALSE
    GrantShortage = TRUE
CHECK_DEADLOCK FALSE
INVARIANTS
    CancelHitsItsUrb
PROPERTIES
    UrbGivenBack
    CancelledGivenBack
