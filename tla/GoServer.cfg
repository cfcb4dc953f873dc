\* Two clients, two rooms, one JOIN each; inboxes and send channels overflow.
SPECIFICATION SafeSpec
CONSTANTS
    Conn = {c1, c2}
    RoomId = {r1, r2}
    None = None
    InboxCap = 1
    MaxPid = 2
    MaxJoin = 1
    MaxMove = 0
    MaxTick = 2
    SendCap = 1
SYMMETRY Symmetry
CHECK_DEADLOCK FALSE
INVARIANTS TypeOK NoGhost OncePerTick
