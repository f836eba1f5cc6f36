\* Safety: one node, two runs, two stops, a restart; the tombstone expires.
SPECIFICATION Spec
CONSTANTS
    n1 = n1
    n2 = n2
    r1 = r1
    r2 = r2
    Node <- MCOneNode
    Run <- MCRun
    Room <- MCNoRoom
    AllRooms = "all"
    NoRun = "norun"
    NoNode = "nonode"
    Repeats = 3
    Interval = 1
    Lag = 1
    ReplayTTL = 100
    StopTombstone = 4
    MaxLosses = 0
    MaxStops = 2
    MaxCrashes = 1
    MaxTime = 6
SYMMETRY RunSymmetry
INVARIANTS TypeOK StopSticks
CHECK_DEADLOCK FALSE
