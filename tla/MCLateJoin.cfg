\* Safety: one connection, a run of its room and a run of all, two frames.
SPECIFICATION Spec
CONSTANTS
    c1 = c1
    k1 = k1
    k2 = k2
    r1 = r1
    r2 = r2
    Client <- MCOneClient
    Cast <- MCTwoCasts
    Run <- MCRun
    Room <- MCRoom
    DefaultRoom = "faz0"
    AllRooms = "all"
    NoRoom = "none"
    ReadLoop = "loop"
    Pinger = "pinger"
    NoRun = "norun"
    NotLooked = "notlooked"
    ScopeOf <- MCScopeOf
    ReplayTTL = 0
    StopTombstone = 0
    MaxTime = 1
SYMMETRY CastSymmetry
CHECK_DEADLOCK FALSE
INVARIANTS TypeOK NoMissedRun OnlyOwnRooms
