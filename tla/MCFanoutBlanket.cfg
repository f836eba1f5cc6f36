\* A stop that names no run, and the repeats that follow it.
SPECIFICATION Spec
CONSTANTS
    n1 = n1
    n2 = n2
    r1 = r1
    r2 = r2
    Node <- MCOneNode
    Run <- MCOneRun
    Room <- MCRoom
    AllRooms = "all"
    NoRun = "norun"
    NoNode = "nonode"
    Repeats = 3
    Interval = 1
    Lag = 1
    ReplayTTL = 100
    StopTombstone = 4
    MaxLosses = 0
    MaxStops = 1
    MaxCrashes = 0
    MaxTime = 6
INVARIANTS StopDropsRun
CHECK_DEADLOCK FALSE
