------------------------------- MODULE MCHub -------------------------------
(* A small gateway: two connections, the default room and one more, and one *)
(* broadcast that may overlap everything else; and the bus before it: two   *)
(* nodes, one run, and all its repeats lost but one.  The hub and the bus   *)
(* take their steps in behaviours of their own.                             *)
EXTENDS Hub

CONSTANTS c1, c2, k1

CONSTANTS Node, Run, NoRun, NoNode, Repeats, Interval, Lag, ReplayTTL,
          StopTombstone, MaxLosses, MaxStops, MaxCrashes, MaxTime

VARIABLES now, issued, flights, store, stops, losses, crashes, seen, dropped, part

Fan == INSTANCE CueFanout

busVars == <<now, issued, flights, store, stops, losses, crashes, seen, dropped>>

MCClient == {c1, c2}
MCRoom == {"faz0", "salon"}
MCOneCast == {k1}

MCInit == HubInit /\ Fan!Init /\ part \in {"hub", "bus"}

MCNext ==
    /\ \/ part = "hub" /\ HubNext /\ UNCHANGED busVars
       \/ part = "bus" /\ Fan!Next /\ UNCHANGED hubVars
    /\ UNCHANGED part

\* The bus rests in a behaviour of the hub, and is under no obligation to move.
BusFairness ==
    /\ WF_busVars(part = "bus" /\ Fan!Tick)
    /\ \A r \in Run : WF_busVars(part = "bus" /\ Fan!FireRepeat(r))
    /\ WF_busVars(part = "bus" /\ \E f \in flights : Fan!ObserveFrame(f))

MCSpec ==
    /\ MCInit /\ [][MCNext]_<<hubVars, busVars, part>>
    /\ HubFairness /\ BusFairness

CueSurvivesLoss == Fan!CueSurvivesLoss
=============================================================================
