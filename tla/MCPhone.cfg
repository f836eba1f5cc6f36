\* Safety and liveness: two cues over the socket and a beacon.
SPECIFICATION FairSpec
CONSTANTS
    r1 = r1
    r2 = r2
    Run <- MCRun
    FireAt <- MCFireAt
    Length = 2
    BeaconFire <- MCBeacon
    Second = 2
    Window = 4
    Picture <- MCPicture
    Black = "black"
    NoCue = NoCue
    MaxTime = 5
INVARIANTS TypeOK PlaysLatest StopIsFinal DarkWhenIdle
PROPERTIES EffectEnds
CHECK_DEADLOCK FALSE
