SPECIFICATION Spec
CONSTANTS
    go = go
    python = python
    nosuch = nosuch
    None = None
    Commands <- Shared
    KnownServers = {go, python}
    Compiled = {go}
    PerCore = {python}
    ReusePort = {python}
    Faults = {}
    MaxCpu = 1
    MaxWindows = 1
    MaxSlow = 1
    Earlier <- OldCells
    Leftovers <- OldFiles
    MaxStarts = 1
INVARIANT
    AllReady
CHECK_DEADLOCK FALSE
