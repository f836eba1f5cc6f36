\* A beacon around a STOP; a tick is 100 ms here.
SPECIFICATION Spec
CONSTANTS
    r1 = r1
    r2 = r2
    Run <- MCNoRun
    FireAt <- MCFireAt
    Length = 30
    BeaconFire <- MCCloseBeacon
    Second = 10
    Window = 20
    Picture <- MCPicture
    Black = "black"
    NoCue = NoCue
    MaxTime = 2
INVARIANTS BeaconIsOneRun
CHECK_DEADLOCK FALSE
