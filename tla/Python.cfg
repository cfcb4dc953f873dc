SPECIFICATION Spec
CONSTANTS
    Procs = {p1}
    c1 = c1
    c2 = c2
    Clients = {c1, c2}
    Rooms = {r1, r2}
    Tick = 2
    StepCost = 1
    MaxLate = 2
    PidMod = 8
    PosMax = 1
    MaxFrames <- Quota
    None = None
INVARIANTS
    TypeOK
    MembersExact
    JoinedFirst
    PaceExact
PROPERTY
    Handled
CHECK_DEADLOCK FALSE
