----------------------------- MODULE MCLateJoin -----------------------------
(* A node with the default room and one more, a run issued to the second   *)
(* room and one issued to all, one phone that may say hello again and move, *)
(* and two frames: the cues of both runs, or a cue and a stop.              *)
EXTENDS LateJoin, TLC

CONSTANTS c1, k1, k2, r1, r2

MCOneClient == {c1}
MCRoom == {"faz0", "salon"}
MCTwoCasts == {k1, k2}
MCRun == {r1, r2}
MCOneRun == {r1}
MCScopeOf == [r \in Run |-> IF r = r1 THEN "salon" ELSE "all"]

CastSymmetry == Permutations(MCTwoCasts)
=============================================================================
