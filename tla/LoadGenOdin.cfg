\* Two connections, a worker that is delayed by up to three intervals.
SPECIFICATION Spec
CONSTANTS
    Conn = {c1, c2}
    None = None
    Interval = 2
    Warm = 1
    Deadline = 7
    RING = 2
    MaxDelay = 6
CHECK_DEADLOCK FALSE
SYMMETRY Symmetry
INVARIANTS TypeOK Scheduled NearlySorted
PROPERTIES SampleExact
