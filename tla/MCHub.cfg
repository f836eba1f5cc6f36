\* Safety and liveness: two connections and a broadcast; two nodes, one run, and
\* a bus that loses all repeats but one.
SPECIFICATION MCSpec
CONSTANTS
    c1 = c1
    c2 = c2
    k1 = k1
    Client <- MCClient
    Room <- MCRoom
    DefaultRoom = "faz0"
    AllRooms = "all"
    Cast <- MCOneCast
    NoRoom = "none"
    ReadLoop = "loop"
    Pinger = "pinger"
    Node = {n1, n2}
    Run = {r1}
    NoRun = "norun"
    NoNode = "nonode"
    Repeats = 3
    Interval = 1
    Lag = 1
    ReplayTTL = 100
    StopTombstone = 4
    MaxLosses = 2
    MaxStops = 0
    MaxCrashes = 1
    MaxTime = 4
INVARIANTS HubTypeOK MembershipInv SocketInv CastComplete
PROPERTIES KeepsPromise CastEnds DeadClientLeaves CueSurvivesLoss
CHECK_DEADLOCK FALSE
