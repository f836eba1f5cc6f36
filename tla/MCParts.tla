------------------------------ MODULE MCParts ------------------------------
(***************************************************************************)
(* The components that share no state with another one, side by side: a    *)
(* behaviour is one of the component that "part" names, and the others     *)
(* stay as they began.  A tick of the clock is a minute for the console's  *)
(* sessions, 5 s for the presence of nodes and 150 s for round trips; it   *)
(* is about two seconds for the realtime client, whose rounds have two     *)
(* samples and whose long periods are shortened but keep their order:      *)
(* Retry < Resync < Fresh.                                                 *)
(***************************************************************************)
EXTENDS Sessions, Presence, ClockStats, ClockSync, Venue, Manifest, Beacon,
        RealtimeClient

VARIABLE part

Parts == {"sessions", "presence", "clockstats", "clocksync", "venue", "manifest",
          "beacon", "client"}

\* How far the clock goes for each part that reads it.
Horizon == [sessions |-> 3, presence |-> 7, clockstats |-> 3]
-----------------------------------------------------------------------------
MCTheta == {-7, 4}

\* A broken time stamp, a good sample, a poor one within the margin of the
\* good one, and a poor one outside it.
MCRtt == {-1, 20, 28, 40}
MCDelay == <<{1}, {1, 2}>>

NoBlock == [id |-> <<"A">>, kind |-> "", rows |-> 1, seatsPerRow |-> 0,
            origin |-> <<0, 0, 0>>, rowVec |-> NoStep, seatVec |-> NoStep,
            center |-> <<>>, radius |-> 0, rowStep |-> 0, rake |-> 0,
            angleStart |-> 0, angleEnd |-> 0, seatStep |-> 0]
Grid == [NoBlock EXCEPT !.rows = 2, !.seatsPerRow = 2,
                        !.rowVec = <<0, 8, 4>>, !.seatVec = <<-5, 2, 0>>]
Arc == [NoBlock EXCEPT !.id = <<"B">>, !.kind = "arc", !.center = <<5, 5, 0>>,
                       !.radius = 1, !.rake = 4, !.seatStep = 1]
MCPlan ==
    [blocks : {<<[Grid EXCEPT !.id = id, !.rowVec = v]>> :
                  id \in {<<"A">>, <<"A", "1">>, <<"", "A">>, <<"">>},
                  v \in {NoStep, <<0, 8, 4>>}}
              \cup {<<Grid, [Arc EXCEPT !.id = id, !.rows = n, !.rowStep = n - 1,
                                        !.angleStart = a, !.angleEnd = a + span]>> :
                  id \in {<<"A">>, <<"A", "1">>}, n \in {1, 2}, a \in {-1, 0, 2},
                  span \in {0, 3, 8}}
              \cup {<<[Grid EXCEPT !.rows = 256, !.seatsPerRow = 256]>>},
     landmark : {<<>>, [kind |-> "pitch", w |-> 5, d |-> 0]}]
MCRef == [block : {<<"A">>, <<"A", "1">>, <<"", "A">>}, row : {1, 3}, seat : {1, 2, 8}]
MCTyped == {<<"A", "1">>, <<"A", "02", "2">>, <<"", "1", "1">>, <<"A", "x", "0">>}

NoEffect == [kind |-> "wave", axis |-> "", reverse |-> FALSE, period |-> 0,
             width |-> 0, color2 |-> Off, bitmap |-> <<>>, blocks |-> <<>>,
             area |-> <<>>, colors |-> <<>>]
Waves == {[NoEffect EXCEPT !.axis = a, !.reverse = (a = "ring"), !.period = p,
                           !.width = w, !.color2 = c] :
             a \in {"", "w", "ring"}, p \in {3, 4, 5}, w \in {0, 3, 8}, c \in {Off, 7}}
Cycles == {[NoEffect EXCEPT !.kind = "cycle", !.period = p, !.colors = c] :
             p \in {0, 3, 4}, c \in {<<9>>, <<9, 255>>}}
Gradients == {[NoEffect EXCEPT !.kind = "gradient", !.axis = "v", !.color2 = 9]}
Bitmaps == {[NoEffect EXCEPT !.kind = "bitmap", !.axis = a, !.period = p,
                             !.bitmap = [palette |-> <<255, 9>>, rows |-> r],
                             !.area = area, !.blocks = b] :
             a \in {"u", "ring"}, p \in {0, 4, 16},
             r \in {<<<<0, Dot, 0, Dot>>>>, <<<<0, 1, 0>>, <<1, Dot, 1>>>>},
             area \in {<<>>, [u0 |-> 2, u1 |-> 8, w0 |-> 0, w1 |-> 4]},
             b \in {<<>>, <<"N", "N">>}}
WithEffect(lane, e) ==
    [version |-> 0, title |-> "t", blocks |-> {"N"}, program |-> <<>>,
     sequences |-> <<[id |-> "s", duration |-> 10, lines |-> <<>>,
         lanes |-> <<[id |-> "l", kind |-> lane,
             cues |-> <<[at |-> 0, duration |-> 5, flashHz |-> 0, asset |-> "",
                         color |-> IF lane = "torch" THEN Off ELSE 255,
                         effect |-> e]>>]>>]>>]
Short(id, duration) == [id |-> id, duration |-> duration, lanes |-> <<>>,
                        lines |-> <<[at |-> 0, duration |-> 1, text |-> "x"]>>]
WithProgram(p) ==
    [version |-> 1, title |-> "t", blocks |-> {}, program |-> p,
     sequences |-> <<Short("s", 5), Short("t", 3)>>]
Item == [sequence : {"s", "t", "x"}, at : {0, 3, 5}]
MCShow == {WithEffect("screen", e) : e \in Waves \cup Cycles \cup Gradients \cup Bitmaps}
          \cup {WithEffect("torch", e) : e \in Waves \cup Cycles}
          \cup {WithProgram(<<a, b>>) : a, b \in Item} \cup {WithProgram(<<>>)}
MCSeat == [u : {0, 8}, v : {4, 8}, w : {0, 8}, block : {"N", ""}]

MCPayload == [version : {1}, cueIndex : {3, 256}, seq : {7}, countdown : {2550}]
MCNearDamage == {{}, {4}, {33}, {4, 26}, {0, 4, 19}}
MCFarDamage == {{}, {0, 4, 19}}
MCWeak == {<<23, 4, 26, 33>>}
-----------------------------------------------------------------------------
\* A component that rests has one initial state.
MCInit ==
    /\ part \in Parts
    /\ part # "sessions" => locked = TRUE /\ validator = TRUE
    /\ part # "clocksync" => theta = 4
    /\ part # "venue" => /\ venue = [blocks |-> <<Grid>>, landmark |-> <<>>]
                         /\ seatRef = [block |-> <<"A">>, row |-> 1, seat |-> 1]
    /\ part # "manifest" => show = WithProgram(<<>>)
    /\ SessionsInit /\ PresenceInit /\ ClockStatsInit
    /\ ClockSyncInit /\ VenueInit /\ ManifestInit /\ BeaconInit
    /\ Init

\* What the components keep, apart from the clock.
Console == <<locked, validator, ended, sessCache, call>>
Nodes == <<life, died, due, peers, wire, missed>>
RoundTripsSeen == <<rttMs, rttAtMs, writing, asked, loaded, stats, came>>
Phones == <<now, client, up, sent>>
Timeless == <<syncVars, venueVars, showVars, beaconVars, Phones>>

Timed ==
    /\ \/ part = "sessions" /\ SessionsNext /\ UNCHANGED <<Nodes, RoundTripsSeen>>
       \/ part = "presence" /\ PresenceNext /\ UNCHANGED <<Console, RoundTripsSeen>>
       \/ part = "clockstats" /\ ClockStatsNext /\ UNCHANGED <<Console, Nodes>>
    /\ nowMs' <= Horizon[part]
    /\ UNCHANGED Timeless

Untimed ==
    /\ \/ /\ part = "clocksync" /\ ClockSyncNext
          /\ UNCHANGED <<venueVars, showVars, beaconVars, Phones>>
       \/ /\ part = "venue" /\ VenueNext
          /\ UNCHANGED <<syncVars, showVars, beaconVars, Phones>>
       \/ /\ part = "manifest" /\ ManifestNext
          /\ UNCHANGED <<syncVars, venueVars, beaconVars, Phones>>
       \/ /\ part = "beacon" /\ BeaconNext
          /\ UNCHANGED <<syncVars, venueVars, showVars, Phones>>
       \/ /\ part = "client" /\ Next
          /\ UNCHANGED <<syncVars, venueVars, showVars, beaconVars>>
    /\ UNCHANGED <<nowMs, Console, Nodes, RoundTripsSeen>>

MCNext == (Timed \/ Untimed) /\ UNCHANGED part

MCvars == <<part, nowMs, Console, Nodes, RoundTripsSeen, Timeless>>

MCSpec == MCInit /\ [][MCNext]_MCvars
=============================================================================
