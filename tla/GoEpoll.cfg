\* Three clients, two descriptors: stale events, reuse, every kind of frame.
SPECIFICATION Spec
CONSTANTS
    Conn = {c1, c2, c3}
    RoomId = {r1}
    None = None
    FdCount = 2
    MaxEvents = 3
    WbufCap = 1
    MaxJoin = 1
    MaxFrame = 2
SYMMETRY Symmetry
INVARIANTS TypeOK MembersIndexed EachOnce OutArmed
PROPERTIES ClosedForCause
