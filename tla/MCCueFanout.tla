---------------------------- MODULE MCCueFanout ----------------------------
(* Small clusters for CueFanout.  Ticks stand for 250 ms: Interval is one   *)
(* tick, and the tombstone is as short as TombstoneAssumption allows, so    *)
(* that it expires, and is swept, within the bounded clock.                 *)
EXTENDS CueFanout, TLC

CONSTANTS n1, n2, r1, r2

MCOneNode == {n1}
MCTwoNodes == {n1, n2}
MCRoom == {"salon"}
MCNoRoom == {}
MCRun == {r1, r2}
MCOneRun == {r1}

MCTombstone == (Repeats - 1) * Interval + 2 * Lag

RunSymmetry == Permutations(MCRun)
=============================================================================
