SPECIFICATION Spec
CONSTANTS
    go = go
    python = python
    nosuch = nosuch
    None = None
    Commands <- Matrix
    KnownServers = {go, python}
    Compiled = {go}
    PerCore = {python}
    ReusePort = {python}
    Faults = {"build", "notool", "exit", "nojson", "slowjoin", "slowkill"}
    MaxCpu = 1
    MaxWindows = 1
    MaxSlow = 1
    Earlier <- OldCells
    Leftovers <- OldFiles
    MaxStarts = 1
INVARIANTS
    TypeOK
    OneServer
    SamplesSound
    Ledger
    TimelineFollows
PROPERTY
    Finishes
CHECK_DEADLOCK FALSE
