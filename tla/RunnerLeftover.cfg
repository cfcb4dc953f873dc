SPECIFICATION SpecInterrupted
CONSTANTS
    go = go
    python = python
    nosuch = nosuch
    None = None
    Commands <- Matrix
    KnownServers = {go, python}
    Compiled = {go}
    PerCore = {python}
    ReusePort = {python}
    Faults = {}
    MaxCpu = 1
    MaxWindows = 1
    MaxSlow = 1
    Earlier <- OldCells
    Leftovers <- OldFiles
    MaxStarts = 2
INVARIANT
    RowHonest
CHECK_DEADLOCK FALSE
