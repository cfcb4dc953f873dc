\* A client that joins twice and leaves, and one that gets its descriptor.
SPECIFICATION Spec
CONSTANTS
    Conn = {c1, c2}
    RoomId = {r1, r2}
    None = None
    FdCount = 1
    MaxEvents = 3
    WbufCap = 2
    MaxJoin = 2
    MaxFrame = 2
SYMMETRY Symmetry
INVARIANTS OnlyMembers
