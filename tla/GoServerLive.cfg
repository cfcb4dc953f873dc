\* With fairness: a client that need not read, nor send; ticks without end.
SPECIFICATION Spec
CONSTANTS
    Conn = {c1}
    RoomId = {r1}
    None = None
    InboxCap = 2
    MaxPid = 1
    MaxJoin = 1
    MaxMove = 2
    MaxTick = 1
    SendCap = 2
CHECK_DEADLOCK FALSE
PROPERTIES SeqNeverBack RoomNotStalled JoinAnswered Departure
