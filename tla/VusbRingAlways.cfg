SPECIFICATION DriverSpec
CONSTANTS
    N = 2
    Shadows = {s1, s2}
    NoShadow = NoShadow
    Preqs = {p1, p2}
    NoPreq = NoPreq
    AlwaysNotify = TRUE
    MaxPush = 3
CHECK_DEADLOCK FALSE
PROPERTIES
    RequestTaken
    ResponseReleases
