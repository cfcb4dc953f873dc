\* One connection: the ring of send times wraps, the reader outlives runConn.
SPECIFICATION Spec
CONSTANTS
    NBuckets = 2
    Low <- Doubling
    Conn = {c1}
    Warm = 1
    Dur = 2
    Window = 1
    Period = 1
    Ring = 2
    P <- Median
    PW <- MedianMax
    Offsets = {0, 2}
    NetCap = 2
    MaxSnaps = 2
    MaxClock = 5
INVARIANTS TypeOK WindowsInside ReportExact LateBounded
