------------------------------ MODULE MCPhone ------------------------------
(* One phone, two cues over the socket, and a beacon whose repeats resolve  *)
(* to moments on the two sides of a half second.  A tick is 500 ms, or      *)
(* 100 ms with MCCloseBeacon, whose repeats differ by that rounding alone.  *)
EXTENDS Phone

CONSTANTS r1, r2

MCRun == {r1, r2}
MCOneRun == {r1}
MCNoRun == {}
MCFireAt == [r \in Run |-> IF r = r1 THEN 1 ELSE 2]
MCBeacon == {2, 3}
MCCloseBeacon == {4, 5}
MCNoBeacon == {}
MCPicture == {"black", "red"}
=============================================================================
