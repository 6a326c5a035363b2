SPECIFICATION FairChannelSpec
CONSTANTS
    d1 = d1
    d2 = d2
    out = out
    iso = iso
    int = int
    cancel = cancel
    Devices = {d1, d2}
    Preqs = {p1, p2}
    NSegs = 2
    Requests = {out, iso, int, cancel}
    DevOf <- MCDevOf
    Direct = {}
    Cancels = {cancel}
    Indirect = {out}
    Timed = {out}
    Leaving = {d2}
    Extra = 1
    AtomicFails = FALSE
    NoReq = NoReq
    NoPreq = NoPreq
    NoDev = NoDev
    Watched = d2
CHECK_DEADLOCK FALSE
INVARIANTS
    PoolConserved
    AnsweredOnce
    UsbifCounted
    GrantsReturned
PROPERTIES
    
    ImplementsChannel
    StopCompletes
    RequestAnswered
