----------------------------- MODULE ClockStats -----------------------------
(***************************************************************************)
(* The round-trip times of one room as the clockstats endpoint tells them  *)
(* (gateway/internal/server/clockstats.go), from samples that the pong     *)
(* handlers write and the endpoint reads without a lock (hub.go).          *)
(***************************************************************************)
EXTENDS Clock, FiniteSets, Sequences

CONSTANTS
    Member,        \* clients of the room
    RoundTrips,    \* what a pong may show
    StaleAfter,    \* staleAfterMs
    Lt10, Lt30, Lt100   \* the bounds of the buckets

ASSUME ClockStatsAssumption ==
    /\ IsFiniteSet(Member)
    /\ RoundTrips \subseteq Nat /\ StaleAfter \in Nat
    /\ {Lt10, Lt30, Lt100} \subseteq Nat /\ Lt10 < Lt30 /\ Lt30 < Lt100

NoStats == [clients |-> 0, sampled |-> 0, noSample |-> 0, stale |-> 0,
            p50 |-> 0, p95 |-> 0, buckets |-> <<0, 0, 0, 0>>]

VARIABLES
    rttMs, rttAtMs,   \* of each client; 0 at first
    writing,          \* the rttAtMs a pong handler is about to store, or 0
    asked,            \* the clock the endpoint read, 0 when it is not at work
    loaded,           \* the values it has read: <<>>, <<rtt>> or <<rtt, at>>
    stats,            \* its last answer
    came              \* history: when the last pong of each client came

clockStatsVars == <<nowMs, rttMs, rttAtMs, writing, asked, loaded, stats, came>>

ClockStatsInit ==
    /\ ClockInit
    /\ rttMs = [c \in Member |-> 0] /\ rttAtMs = [c \in Member |-> 0]
    /\ writing = [c \in Member |-> 0]
    /\ asked = 0 /\ loaded = [c \in Member |-> <<>>]
    /\ stats = NoStats
    /\ came = [c \in Member |-> 0]
-----------------------------------------------------------------------------
\* The pong handler: SetRTT stores the round trip, then its moment.
OnPong(c, rtt) ==
    /\ writing[c] = 0
    /\ rttMs' = [rttMs EXCEPT ![c] = rtt]
    /\ writing' = [writing EXCEPT ![c] = nowMs]
    /\ came' = [came EXCEPT ![c] = nowMs]
    /\ UNCHANGED <<nowMs, rttAtMs, asked, loaded, stats>>

SetRttAt(c) ==
    /\ writing[c] # 0
    /\ rttAtMs' = [rttAtMs EXCEPT ![c] = writing[c]]
    /\ writing' = [writing EXCEPT ![c] = 0]
    /\ UNCHANGED <<nowMs, rttMs, asked, loaded, stats, came>>

HandleClockStats ==
    /\ asked = 0
    /\ asked' = nowMs /\ stats' = NoStats
    /\ UNCHANGED <<nowMs, rttMs, rttAtMs, writing, loaded, came>>

\* RTT reads in the same order.
LoadRtt(c) ==
    /\ asked # 0 /\ loaded[c] = <<>>
    /\ loaded' = [loaded EXCEPT ![c] = <<rttMs[c]>>]
    /\ UNCHANGED <<nowMs, rttMs, rttAtMs, writing, asked, stats, came>>

LoadRttAt(c) ==
    /\ Len(loaded[c]) = 1
    /\ loaded' = [loaded EXCEPT ![c] = Append(@, rttAtMs[c])]
    /\ UNCHANGED <<nowMs, rttMs, rttAtMs, writing, asked, stats, came>>

NoSample == {c \in Member : loaded[c][2] = 0}
StaleSample == {c \in Member \ NoSample : asked - loaded[c][2] > StaleAfter}
FreshSample == Member \ (NoSample \cup StaleSample)

\* How many of the fresh round trips lie in a range.
Within(lo, hi) == Cardinality({c \in FreshSample : loaded[c][1] \in lo..(hi - 1)})
Beyond(lo) == Cardinality({c \in FreshSample : loaded[c][1] >= lo})

\* Mutant of Buckets: each counts what lies below its bound.
BucketsBelow == <<Within(0, Lt10), Within(0, Lt30), Within(0, Lt100), Beyond(Lt100)>>

Buckets == <<Within(0, Lt10), Within(Lt10, Lt30), Within(Lt30, Lt100), Beyond(Lt100)>>

\* Of the fresh round trips in ascending order the one at a percentage of the
\* way: as many as that are before it, or are as long as it is.
Percentile(p) ==
    LET k == (Cardinality(FreshSample) * p) \div 100
    IN  IF FreshSample = {} THEN 0
        ELSE CHOOSE ms \in {loaded[c][1] : c \in FreshSample} :
                 Within(0, ms) <= k /\ k < Within(0, ms + 1)

Answer ==
    /\ asked # 0 /\ \A c \in Member : Len(loaded[c]) = 2
    /\ stats' = [clients |-> Cardinality(Member),
                 sampled |-> Cardinality(FreshSample),
                 noSample |-> Cardinality(NoSample),
                 stale |-> Cardinality(StaleSample),
                 p50 |-> Percentile(50), p95 |-> Percentile(95),
                 buckets |-> Buckets]
    /\ asked' = 0 /\ loaded' = [c \in Member |-> <<>>]
    /\ UNCHANGED <<nowMs, rttMs, rttAtMs, writing, came>>

ClockStatsTick == ClockTick /\ UNCHANGED <<rttMs, rttAtMs, writing, asked, loaded, stats, came>>

ClockStatsNext ==
    \/ \E c \in Member : \/ \E rtt \in RoundTrips : OnPong(c, rtt)
                         \/ SetRttAt(c) \/ LoadRtt(c) \/ LoadRttAt(c)
    \/ HandleClockStats \/ Answer \/ ClockStatsTick

ClockStatsSpec == ClockStatsInit /\ [][ClockStatsNext]_clockStatsVars
-----------------------------------------------------------------------------
\* Whatever pongs come between the unlocked reads: every client is in one of
\* the three groups, every fresh one in one bucket; the percentiles are in
\* order and lie in buckets that are not empty; and a fresh one has answered a
\* ping in the last staleAfterMs.
BucketOf(ms) == IF ms < Lt10 THEN 1 ELSE IF ms < Lt30 THEN 2
                ELSE IF ms < Lt100 THEN 3 ELSE 4

ClockStatsHonest ==
    /\ stats.clients = stats.sampled + stats.noSample + stats.stale
    /\ stats.sampled = stats.buckets[1] + stats.buckets[2] + stats.buckets[3]
                       + stats.buckets[4]
    /\ stats.p50 <= stats.p95
    /\ stats.sampled > 0 => /\ stats.buckets[BucketOf(stats.p50)] > 0
                            /\ stats.buckets[BucketOf(stats.p95)] > 0
    /\ asked # 0 => \A c \in Member :
           Len(loaded[c]) = 2 =>
               \/ loaded[c][2] = 0
               \/ asked - loaded[c][2] > StaleAfter
               \/ asked - came[c] <= StaleAfter
=============================================================================
