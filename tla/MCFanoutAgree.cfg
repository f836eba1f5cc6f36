\* Two cues that cross on the bus reach two nodes in two orders.
SPECIFICATION Spec
CONSTANTS
    n1 = n1
    n2 = n2
    r1 = r1
    r2 = r2
    Node <- MCTwoNodes
    Run <- MCRun
    Room <- MCRoom
    AllRooms = "all"
    NoRun = "norun"
    NoNode = "nonode"
    Repeats = 2
    Interval = 1
    Lag = 0
    ReplayTTL = 100
    StopTombstone = 1
    MaxLosses = 0
    MaxStops = 0
    MaxCrashes = 0
    MaxTime = 1
INVARIANTS MemoriesAgree
CHECK_DEADLOCK FALSE
