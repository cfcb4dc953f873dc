\* Two clients of one room: their writers race the broadcast for the count.
SPECIFICATION Spec
CONSTANTS
    Conn = {c1, c2}
    RoomId = {r1}
    None = None
    Buf = {b1, b2, b3}
    InboxCap = 1
    MaxPid = 2
    MaxJoin = 1
    MaxMove = 0
    MaxTick = 1
    SendCap = 1
SYMMETRY Symmetry
CHECK_DEADLOCK FALSE
INVARIANTS IndInv PoolSafe NoLeak
PROPERTIES ImplementsGo
