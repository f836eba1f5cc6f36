\* A stop while the platform is switching the torch on.
SPECIFICATION Spec
CONSTANTS
    r1 = r1
    r2 = r2
    Run <- MCOneRun
    FireAt <- MCFireAt
    Length = 2
    BeaconFire <- MCNoBeacon
    Second = 2
    Window = 4
    Picture <- MCPicture
    Black = "black"
    NoCue = NoCue
    MaxTime = 3
PROPERTIES TorchObeys
CHECK_DEADLOCK FALSE
