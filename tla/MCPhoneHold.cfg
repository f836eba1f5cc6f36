\* HOLD before the cue fires.
SPECIFICATION Spec
CONSTANTS
    r1 = r1
    r2 = r2
    Run <- MCOneRun
    FireAt <- MCFireAt
    Length = 2
    BeaconFire <- MCNoBeacon
    Second = 2
    Window = 4
    Picture <- MCPicture
    Black = "black"
    NoCue = NoCue
    MaxTime = 3
INVARIANTS HoldIsDark
CHECK_DEADLOCK FALSE
