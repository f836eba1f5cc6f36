----------------------------- MODULE ClockSync -----------------------------
(***************************************************************************)
(* The offset between a phone's clock and the gateway's, estimated from    *)
(* exchanges of time stamps (packages/clocksync/estimator.go).  A request  *)
(* takes one time on its way and the reply another; neither is known to    *)
(* the phone.  A clock may step, forward or back, by any amount: a phone   *)
(* that sleeps stops its monotonic clock, and a time stamp may be broken.  *)
(***************************************************************************)
EXTENDS Integers, FiniteSets, Sequences

CONSTANTS
    Latency,       \* how long a message may take
    Theta,       \* gateway's clock less the phone's
    Holding,     \* how long the gateway may hold a request
    RTTBandMs,
    MaxSamples   \* bound: exchanges of a round

ASSUME ClockSyncAssumption ==
    /\ Latency \subseteq Nat /\ Holding \subseteq Nat
    /\ Theta \subseteq Int
    /\ RTTBandMs \in Nat /\ MaxSamples \in Nat

VARIABLES
    theta,     \* the offset that is to be found
    thetas,    \* those that the clocks of the round have had, a history
    samples,   \* the exchanges the estimator has taken
    round      \* whether a round is on

syncVars == <<theta, thetas, samples, round>>

Sample == [T0 : Int, T1 : Int, T2 : Int, T3 : Int]

ClockSyncTypeOK ==
    /\ theta \in Theta
    /\ thetas \subseteq Theta
    /\ samples \in Seq(Sample)
    /\ round \in BOOLEAN

ClockSyncInit ==
    /\ theta \in Theta /\ thetas = {theta}
    /\ samples = <<>> /\ round = FALSE
-----------------------------------------------------------------------------
\* Go divides towards zero.
Half(n) == IF n >= 0 THEN n \div 2 ELSE -((-n) \div 2)

RTT(s) == (s.T3 - s.T0) - (s.T2 - s.T1)
Offset(s) == Half((s.T1 - s.T0) + (s.T2 - s.T3))

\* What an exchange that begins at 0 leaves behind.
Exchanged(there, held, back) ==
    [T0 |-> 0, T1 |-> there + theta, T2 |-> there + held + theta,
     T3 |-> there + held + back]

Add(s) == samples' = IF RTT(s) < 0 THEN samples ELSE Append(samples, s)

Reset ==
    /\ ~round
    /\ samples' = <<>> /\ round' = TRUE
    /\ thetas' = {theta}
    /\ UNCHANGED theta

Exchange(there, held, back) ==
    /\ round /\ Len(samples) < MaxSamples
    /\ Add(Exchanged(there, held, back))
    /\ UNCHANGED <<theta, thetas, round>>

\* A clock steps while an exchange is under way: T2 and T3 belong to the new
\* offset, and it makes no difference to RTT and Offset which of the two clocks
\* stepped.  A step forward of more than the way there and back makes RTT
\* negative; a shorter one passes for a faster exchange, one back for a slower.
ExchangeAcross(there, held, back, t) ==
    /\ round /\ Len(samples) < MaxSamples
    /\ t # theta
    /\ Add([Exchanged(there, held, back) EXCEPT !.T2 = @ + (t - theta)])
    /\ theta' = t /\ thetas' = thetas \cup {t}
    /\ UNCHANGED round

\* A clock steps between two exchanges, or between two rounds: the samples stay.
ClockStep(t) ==
    /\ t # theta
    /\ theta' = t
    /\ thetas' = IF round THEN thetas \cup {t} ELSE thetas
    /\ UNCHANGED <<samples, round>>

RoundDone ==
    /\ round /\ samples # <<>>
    /\ round' = FALSE
    /\ UNCHANGED <<theta, thetas, samples>>

ClockSyncNext ==
    \/ Reset \/ RoundDone
    \/ \E t \in Theta : ClockStep(t)
    \/ \E there, back \in Latency, held \in Holding :
        \/ Exchange(there, held, back)
        \/ \E t \in Theta : ExchangeAcross(there, held, back, t)

ClockSyncSpec == ClockSyncInit /\ [][ClockSyncNext]_syncVars
-----------------------------------------------------------------------------
Least(S) == CHOOSE n \in S : \A m \in S : n <= m

BestRTT == Least({RTT(samples[i]) : i \in DOMAIN samples})

\* Mutant of Chosen: the band is left out.
ChosenAll == DOMAIN samples

\* The samples that took no more than the band longer than the best.
Chosen == {i \in DOMAIN samples : RTT(samples[i]) <= BestRTT + RTTBandMs}

\* The offset at place n, from 0, among those of the chosen in ascending order.
Ranked(n) ==
    Least({Offset(samples[i]) : i \in {k \in Chosen :
        n < Cardinality({l \in Chosen : Offset(samples[l]) <= Offset(samples[k])})}})

Median ==
    LET keep == Cardinality(Chosen)
    IN  IF keep % 2 = 1 THEN Ranked(keep \div 2)
        ELSE Half(Ranked(keep \div 2 - 1) + Ranked(keep \div 2))

\* Beyond an offset that the clocks have had during the round, on either side,
\* the estimate is off by at most half of what a chosen exchange took, and the
\* two roundings: however uneven the ways there and back have been, whatever
\* slow exchanges have come between and wherever a clock has stepped.  Without
\* a step that is the offset itself.
OffsetWithinHalfRtt ==
    samples # <<>> =>
        LET bound == BestRTT + RTTBandMs + 2
        IN  /\ \E t \in thetas : 2 * (Median - t) <= bound
            /\ \E t \in thetas : 2 * (t - Median) <= bound
=============================================================================
