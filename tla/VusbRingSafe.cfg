SPECIFICATION Spec
CONSTANTS
    N = 3
    Shadows = {s1, s2, s3}
    NoShadow = NoShadow
    Preqs = {p1, p2}
    NoPreq = NoPreq
    AlwaysNotify = FALSE
    MaxPush = 4
SYMMETRY RingSymmetry
CHECK_DEADLOCK FALSE
INVARIANTS
    RingSafe
    RequestsIntact
    ResponsesIntact
    NoStrandedRequest
    NoStrandedResponse
PROPERTIES
    ImplementsChannel
