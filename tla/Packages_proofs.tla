-------------------------- MODULE Packages_proofs --------------------------
(***************************************************************************)
(* Proofs about the shared packages: how far the estimate of a clock's     *)
(* offset can be off, that the seats of a venue come back from their       *)
(* tickets, that what a show lets a seat see is safe, and that a beacon's  *)
(* detections are what was sent, in the order of time: for any times that  *)
(* messages take, any venues, shows and recordings.                        *)
(***************************************************************************)
EXTENDS ClockSync, Venue, Manifest, Beacon, FiniteSetTheorems, SequenceTheorems,
        NaturalsInduction, WellFoundedInduction, TLAPS

-----------------------------------------------------------------------------
(* The offset of a clock.                                                   *)

\* Least finds what it is asked for, in a set of integers that has a lower bound.
LEMMA LeastInt ==
  ASSUME NEW S \in SUBSET Int, S # {}, NEW b \in Int, \A m \in S : b <= m
  PROVE  Least(S) \in S /\ \A m \in S : Least(S) <= m
  <1> DEFINE T == {m - b : m \in S}
  <1>1. T \in SUBSET Nat /\ T # {}
    <2>1. \A m \in S : m - b \in Nat
      OBVIOUS
    <2>2. T # {}
      OBVIOUS
    <2> QED
      BY <2>1, <2>2, Zenon
  <1>2. PICK x \in T : \A y \in T : <<y, x>> \notin OpToRel(<, Nat)
    BY <1>1, WFMin, NatLessThanWellFounded, Zenon
  <1>3. \A y \in T : ~(y < x)
    BY <1>1, <1>2, Zenon DEF OpToRel
  <1>4. PICK n \in S : x = n - b
    BY <1>2
  <1>5. \A m \in S : ~(m - b < x)
    BY <1>3
  <1>6. \A m \in S : n <= m
    BY <1>4, <1>5
  <1> QED
    BY <1>6 DEF Least

\* And so does the greatest.
LEMMA GreatestInt ==
  ASSUME NEW S \in SUBSET Int, S # {}, NEW b \in Int, \A m \in S : m <= b
  PROVE  \E n \in S : \A m \in S : m <= n
  <1> DEFINE T == {b - m : m \in S}
  <1>1. T \in SUBSET Int /\ T # {} /\ \A t \in T : 0 <= t
    <2>1. \A m \in S : b - m \in Int /\ 0 <= b - m
      OBVIOUS
    <2>2. T # {}
      OBVIOUS
    <2> QED
      BY <2>1, <2>2, Zenon
  <1>2. Least(T) \in T /\ \A t \in T : Least(T) <= t
    <2> HIDE DEF T
    <2> QED
      BY <1>1, LeastInt
  <1>3. PICK n \in S : Least(T) = b - n
    BY <1>2
  <1>4. \A m \in S : b - n <= b - m
    BY <1>2, <1>3
  <1> QED
    BY <1>4

\* The values that a function takes on a finite set have a greatest.
LEMMA FiniteMax ==
  ASSUME NEW F, IsFiniteSet(F), F # {}, NEW f \in [F -> Int]
  PROVE  \E c \in F : \A d \in F : f[d] <= f[c]
  <1> DEFINE Above(c) == {d \in F : f[d] > f[c]}
             T == {Cardinality(Above(c)) : c \in F}
  <1>1. \A c \in F : IsFiniteSet(Above(c)) /\ Cardinality(Above(c)) \in Nat
    BY FS_Subset, FS_CardinalityType
  <1>2. T \in SUBSET Nat /\ T # {}
    BY <1>1
  <1>3. PICK n \in T : \A y \in T : <<y, n>> \notin OpToRel(<, Nat)
    <2> HIDE DEF T
    <2> QED
      BY <1>2, WFMin, NatLessThanWellFounded, Zenon
  <1>4. n \in Nat /\ \A y \in T : y \in Nat /\ ~(y < n)
    <2>1. \A y \in T : y \in Nat
      BY <1>2
    <2>2. \A y \in T : ~(y < n)
      BY <1>2, <1>3, <2>1, Zenon DEF OpToRel
    <2> QED
      BY <2>1, <2>2
  <1>5. PICK c \in F : n = Cardinality(Above(c))
    OBVIOUS
  <1>6. SUFFICES ASSUME NEW d \in F, f[d] > f[c] PROVE FALSE
    BY <1>5
  <1>7. Above(d) \in SUBSET Above(c)
    <2>1. \A e \in F : f[e] \in Int
      OBVIOUS
    <2>2. \A e \in F : f[e] > f[d] => f[e] > f[c]
      BY <2>1, <1>6
    <2> QED
      BY <2>2
  <1>8. d \in Above(c) /\ d \notin Above(d)
    BY <1>6
  <1> HIDE DEF Above
  <1>9. Cardinality(Above(d)) <= n /\ Cardinality(Above(d)) # n
    BY <1>1, <1>5, <1>7, <1>8, FS_Subset
  <1>10. Cardinality(Above(d)) \in T
    OBVIOUS
  <1>11. Cardinality(Above(d)) \in Nat /\ ~(Cardinality(Above(d)) < n)
    <2> HIDE DEF T
    <2> QED
      BY <1>4, <1>10
  <1> QED
    BY <1>4, <1>9, <1>11

\* And a least.
LEMMA FiniteMin ==
  ASSUME NEW F, IsFiniteSet(F), F # {}, NEW f \in [F -> Int]
  PROVE  \E c \in F : \A d \in F : f[c] <= f[d]
  <1> DEFINE g == [d \in F |-> -f[d]]
  <1>1. g \in [F -> Int]
    OBVIOUS
  <1>2. \E c \in F : \A d \in F : g[d] <= g[c]
    <2> HIDE DEF g
    <2> QED
      BY <1>1, FiniteMax
  <1>3. PICK c \in F : \A d \in F : -f[d] <= -f[c]
    BY <1>2
  <1>4. \A d \in F : f[d] \in Int
    OBVIOUS
  <1>5. \A d \in F : f[c] <= f[d]
    BY <1>3, <1>4
  <1> QED
    BY <1>5

\* Half is off by one at most.
LEMMA HalfRounds ==
  ASSUME NEW n \in Int
  PROVE  Half(n) \in Int /\ 2 * Half(n) <= n + 1 /\ n - 1 <= 2 * Half(n)
  BY DEF Half

\* Within e, twice over, of two of the offsets T: not further above the one, and
\* not further below the other.
Near(x, e, T) ==
    /\ \E t \in T : 2 * (x - t) <= e
    /\ \E t \in T : 2 * (t - x) <= e

\* A sample takes no negative time, and is off by at most half the time it took
\* and its rounding.
Honest(s, T) ==
    /\ s \in Sample
    /\ RTT(s) \in Nat /\ Offset(s) \in Int
    /\ Near(Offset(s), RTT(s) + 1, T)

SyncInv ==
    /\ ClockSyncTypeOK
    /\ round => theta \in thetas
    /\ \A i \in DOMAIN samples : Honest(samples[i], thetas)

LEMMA ThetasInt ==
  ASSUME ClockSyncTypeOK
  PROVE  theta \in Int /\ \A t \in thetas : t \in Int
  BY ClockSyncAssumption DEF ClockSyncTypeOK

\* The clocks may have had more offsets than those.
LEMMA NearMore ==
  ASSUME NEW x, NEW e, NEW S, NEW T, S \subseteq T, Near(x, e, S)
  PROVE  Near(x, e, T)
  BY Zenon DEF Near

LEMMA HonestMore ==
  ASSUME NEW s, NEW S, NEW T, S \subseteq T, Honest(s, S)
  PROVE  Honest(s, T)
  BY NearMore, Zenon DEF Honest

\* However uneven the way there and the way back have been, and whether a clock
\* has stepped in between: an exchange that counts is at most half its round-trip
\* time above the offset at its end, and no more below the one at its beginning.
LEMMA OneExchange ==
  ASSUME NEW there \in Latency, NEW back \in Latency, NEW held \in Holding,
         theta \in Int, NEW t \in Int, NEW s, NEW T, theta \in T, t \in T,
         s = [Exchanged(there, held, back) EXCEPT !.T2 = @ + (t - theta)]
  PROVE  RTT(s) \in Int /\ (RTT(s) >= 0 => Honest(s, T))
  <1>1. there \in Nat /\ back \in Nat /\ held \in Nat
    BY ClockSyncAssumption
  <1>2. s \in Sample /\ s.T0 = 0 /\ s.T1 = there + theta
        /\ s.T2 = (there + held + theta) + (t - theta) /\ s.T3 = there + held + back
    BY <1>1 DEF Exchanged, Sample
  <1>3. RTT(s) = there + back - (t - theta)
    BY <1>1, <1>2 DEF RTT
  <1> DEFINE n == there - back + theta + t
  <1>4. n \in Int /\ Offset(s) = Half(n)
    <2>1. (s.T1 - s.T0) + (s.T2 - s.T3) = n
      BY <1>1, <1>2
    <2> QED
      BY <1>1, <2>1 DEF Offset
  <1>5. Half(n) \in Int /\ 2 * Half(n) <= n + 1 /\ n - 1 <= 2 * Half(n)
    <2> HIDE DEF n
    <2> QED
      BY <1>4, HalfRounds
  <1>6. /\ Offset(s) \in Int
        /\ 2 * (Offset(s) - t) <= RTT(s) + 1
        /\ 2 * (theta - Offset(s)) <= RTT(s) + 1
    BY <1>1, <1>3, <1>4, <1>5
  <1>7. Near(Offset(s), RTT(s) + 1, T)
    BY <1>6, Zenon DEF Near
  <1>8. RTT(s) \in Int
    BY <1>1, <1>3
  <1>9. RTT(s) >= 0 => RTT(s) \in Nat
    BY <1>8
  <1> QED
    BY <1>2, <1>6, <1>7, <1>8, <1>9, Zenon DEF Honest

\* A reading that is honest, or that Add drops, leaves honest readings only.
LEMMA AddHonest ==
  ASSUME SyncInv, NEW s, Add(s), RTT(s) \in Int, RTT(s) >= 0 => Honest(s, thetas'),
         thetas \subseteq thetas', thetas' \subseteq Theta, theta' \in thetas',
         round' \in BOOLEAN
  PROVE  SyncInv'
  <1>1. \A i \in DOMAIN samples : Honest(samples[i], thetas')
    BY HonestMore, Zenon DEF SyncInv
  <1>2. CASE RTT(s) < 0
    <2>1. samples' = samples
      BY <1>2 DEF Add
    <2> QED
      BY <1>1, <2>1 DEF SyncInv, ClockSyncTypeOK
  <1>3. CASE ~(RTT(s) < 0)
    <2>1. samples' = Append(samples, s) /\ Honest(s, thetas')
      BY <1>3 DEF Add
    <2>2. s \in Sample
      BY <2>1, Zenon DEF Honest
    <2>3. /\ samples' \in Seq(Sample) /\ DOMAIN samples' = 1..(Len(samples) + 1)
          /\ samples'[Len(samples) + 1] = s
          /\ \A i \in 1..Len(samples) : samples'[i] = samples[i]
          /\ DOMAIN samples = 1..Len(samples) /\ Len(samples) \in Nat
      BY <2>1, <2>2 DEF SyncInv, ClockSyncTypeOK
    <2>4. \A i \in DOMAIN samples' : Honest(samples'[i], thetas')
      BY <1>1, <2>1, <2>3
    <2> QED
      BY <2>3, <2>4 DEF SyncInv, ClockSyncTypeOK
  <1> QED
    BY <1>2, <1>3

\* Every step keeps it so.
LEMMA SyncInductive == SyncInv /\ [ClockSyncNext]_syncVars => SyncInv'
  <1> SUFFICES ASSUME SyncInv, [ClockSyncNext]_syncVars PROVE SyncInv'
    OBVIOUS
  <1>0. theta \in Int /\ theta \in Theta /\ thetas \subseteq Theta /\ round \in BOOLEAN
    BY ThetasInt DEF SyncInv, ClockSyncTypeOK
  <1>1. CASE Reset
    <2>1. samples' = <<>> /\ theta' = theta /\ thetas' = {theta} /\ round' = TRUE
      BY <1>1 DEF Reset
    <2>2. samples' \in Seq(Sample) /\ DOMAIN samples' = {}
      BY <2>1
    <2> QED
      BY <1>0, <2>1, <2>2 DEF SyncInv, ClockSyncTypeOK
  <1>2. ASSUME NEW there \in Latency, NEW back \in Latency, NEW held \in Holding,
               Exchange(there, held, back)
        PROVE  SyncInv'
    <2> DEFINE s == Exchanged(there, held, back)
    <2>1. s = [s EXCEPT !.T2 = @ + (theta - theta)]
      <3>1. there + held + theta \in Int
        BY <1>0, ClockSyncAssumption
      <3> QED
        BY <1>0, <3>1 DEF Exchanged
    <2>2. /\ theta \in thetas /\ Add(s) /\ theta' = theta /\ thetas' = thetas
          /\ round' = round
      BY <1>2 DEF Exchange, SyncInv
    <2> HIDE DEF s
    <2>3. RTT(s) \in Int /\ (RTT(s) >= 0 => Honest(s, thetas))
      BY <1>0, <2>1, <2>2, OneExchange DEF s
    <2> QED
      BY <1>0, <2>2, <2>3, AddHonest
  <1>3. ASSUME NEW there \in Latency, NEW back \in Latency, NEW held \in Holding,
               NEW t \in Theta, ExchangeAcross(there, held, back, t)
        PROVE  SyncInv'
    <2> DEFINE s == [Exchanged(there, held, back) EXCEPT !.T2 = @ + (t - theta)]
    <2>1. /\ theta \in thetas /\ Add(s) /\ theta' = t /\ thetas' = thetas \cup {t}
          /\ round' = round
      BY <1>3 DEF ExchangeAcross, SyncInv
    <2>2. t \in Int
      BY ClockSyncAssumption
    <2> HIDE DEF s
    <2>3. theta \in thetas' /\ t \in thetas' /\ thetas \subseteq thetas' /\ thetas' \subseteq Theta
      BY <1>0, <2>1
    <2>4. RTT(s) \in Int /\ (RTT(s) >= 0 => Honest(s, thetas'))
      BY <1>0, <2>2, <2>3, OneExchange DEF s
    <2> QED
      BY <1>0, <2>1, <2>3, <2>4, AddHonest
  <1>4. ASSUME NEW t \in Theta, ClockStep(t)
        PROVE  SyncInv'
    <2>1. /\ samples' = samples /\ theta' = t /\ round' = round
          /\ thetas \subseteq thetas' /\ thetas' \subseteq Theta
          /\ round' => t \in thetas'
      BY <1>0, <1>4 DEF ClockStep
    <2>2. \A i \in DOMAIN samples : Honest(samples[i], thetas')
      BY <2>1, HonestMore, Zenon DEF SyncInv
    <2> QED
      BY <2>1, <2>2 DEF SyncInv, ClockSyncTypeOK
  <1>5. CASE RoundDone
    BY <1>5 DEF RoundDone, SyncInv, ClockSyncTypeOK
  <1>6. CASE UNCHANGED syncVars
    BY <1>6 DEF syncVars, SyncInv, ClockSyncTypeOK
  <1> QED
    BY <1>1, <1>2, <1>3, <1>4, <1>5, <1>6 DEF ClockSyncNext

-----------------------------------------------------------------------------
(* The estimate.                                                            *)

\* More room.
LEMMA NearWider ==
  ASSUME NEW x \in Int, NEW d \in Int, NEW e \in Int, d <= e, Near(x, d, thetas),
         ClockSyncTypeOK
  PROVE  Near(x, e, thetas)
  <1>1. PICK t \in thetas : 2 * (x - t) <= d
    BY DEF Near
  <1>2. PICK u \in thetas : 2 * (u - x) <= d
    BY DEF Near
  <1>3. 2 * (x - t) <= e /\ 2 * (u - x) <= e
    BY <1>1, <1>2, ThetasInt
  <1> QED
    BY <1>3, Zenon DEF Near

\* What it is made from: some of the samples, none of which is off by more than
\* half the best round-trip time and the band.
LEMMA ChosenOK ==
  ASSUME SyncInv, samples # <<>>
  PROVE  /\ BestRTT \in Nat
         /\ IsFiniteSet(Chosen) /\ Chosen # {}
         /\ \A i \in Chosen : /\ Offset(samples[i]) \in Int
                              /\ Near(Offset(samples[i]), BestRTT + RTTBandMs + 1, thetas)
  <1> DEFINE R == {RTT(samples[i]) : i \in DOMAIN samples}
  <1>1. DOMAIN samples = 1..Len(samples) /\ Len(samples) \in Nat /\ 1 \in DOMAIN samples
    BY DEF SyncInv, ClockSyncTypeOK
  <1>2. \A i \in DOMAIN samples : RTT(samples[i]) \in Nat /\ Honest(samples[i], thetas)
    BY DEF SyncInv, Honest
  <1>3. R \in SUBSET Int /\ R # {} /\ \A m \in R : 0 <= m
    BY <1>1, <1>2
  <1>4. Least(R) \in R /\ \A m \in R : Least(R) <= m
    <2> HIDE DEF R
    <2> QED
      BY <1>3, LeastInt
  <1>5. BestRTT = Least(R)
    BY DEF BestRTT
  <1>6. BestRTT \in Nat /\ \E i \in DOMAIN samples : RTT(samples[i]) = BestRTT
    BY <1>2, <1>4, <1>5
  <1>7. Chosen # {}
    BY <1>6, ClockSyncAssumption DEF Chosen
  <1>8. IsFiniteSet(Chosen)
    <2>1. IsFiniteSet(1..Len(samples))
      BY <1>1, FS_Interval
    <2> QED
      BY <1>1, <2>1, FS_Subset DEF Chosen
  <1>9. ASSUME NEW i \in Chosen
        PROVE  /\ Offset(samples[i]) \in Int
               /\ Near(Offset(samples[i]), BestRTT + RTTBandMs + 1, thetas)
    <2>1. i \in DOMAIN samples /\ RTT(samples[i]) <= BestRTT + RTTBandMs
      BY DEF Chosen
    <2>2. /\ Offset(samples[i]) \in Int /\ RTT(samples[i]) \in Nat
          /\ Near(Offset(samples[i]), RTT(samples[i]) + 1, thetas)
      BY <1>2, <2>1 DEF Honest
    <2>3. /\ RTT(samples[i]) + 1 \in Int /\ BestRTT + RTTBandMs + 1 \in Int
          /\ RTT(samples[i]) + 1 <= BestRTT + RTTBandMs + 1
      BY <1>6, <2>1, <2>2, ClockSyncAssumption
    <2>4. ClockSyncTypeOK
      BY DEF SyncInv
    <2> QED
      BY <2>2, <2>3, <2>4, NearWider
  <1> QED
    BY <1>6, <1>7, <1>8, <1>9

\* What stands at a place is the offset of a chosen sample: at the place before
\* the last at the latest there is one.
LEMMA RankedOK ==
  ASSUME SyncInv, samples # <<>>, NEW n \in Nat, n < Cardinality(Chosen)
  PROVE  \E i \in Chosen : Ranked(n) = Offset(samples[i])
  <1> DEFINE K == {k \in Chosen :
                     n < Cardinality({l \in Chosen : Offset(samples[l]) <= Offset(samples[k])})}
             V == {Offset(samples[i]) : i \in K}
             f == [i \in Chosen |-> Offset(samples[i])]
             g == [i \in K |-> Offset(samples[i])]
  <1>1. /\ IsFiniteSet(Chosen) /\ Chosen # {}
        /\ \A i \in Chosen : Offset(samples[i]) \in Int
    BY ChosenOK
  <1>2. PICK k \in Chosen : \A l \in Chosen : Offset(samples[l]) <= Offset(samples[k])
    <2>1. f \in [Chosen -> Int]
      BY <1>1
    <2>2. \E c \in Chosen : \A d \in Chosen : f[d] <= f[c]
      <3> HIDE DEF f
      <3> QED
        BY <1>1, <2>1, FiniteMax
    <2> QED
      BY <2>2
  <1>3. {l \in Chosen : Offset(samples[l]) <= Offset(samples[k])} = Chosen
    BY <1>2
  <1>4. k \in K
    BY <1>3
  <1>5. IsFiniteSet(K) /\ K # {} /\ \A i \in K : i \in Chosen
    <2>1. K \subseteq Chosen
      OBVIOUS
    <2>2. IsFiniteSet(K)
      <3> HIDE DEF K
      <3> QED
        BY <1>1, <2>1, FS_Subset
    <2> QED
      BY <1>4, <2>1, <2>2
  <1> HIDE DEF K
  <1>6. PICK b \in K : \A d \in K : Offset(samples[b]) <= Offset(samples[d])
    <2>1. g \in [K -> Int]
      BY <1>1, <1>5
    <2>2. \E c \in K : \A d \in K : g[c] <= g[d]
      <3> HIDE DEF g
      <3> QED
        BY <1>5, <2>1, FiniteMin
    <2> QED
      BY <2>2
  <1>7. V \in SUBSET Int /\ V # {} /\ Offset(samples[b]) \in Int
        /\ \A m \in V : Offset(samples[b]) <= m
    BY <1>1, <1>5, <1>6
  <1>8. Least(V) \in V
    <2> HIDE DEF V
    <2> QED
      BY <1>7, LeastInt
  <1>9. Ranked(n) = Least(V)
    BY DEF Ranked, K
  <1> QED
    BY <1>5, <1>8, <1>9

\* Half of a sum is not further off than the worse of the two, but for rounding.
LEMMA HalfwayNear ==
  ASSUME NEW x \in Int, NEW y \in Int, NEW e \in Int, ClockSyncTypeOK,
         Near(x, e + 1, thetas), Near(y, e + 1, thetas)
  PROVE  Near(Half(x + y), e + 2, thetas)
  <1>1. PICK t \in thetas : 2 * (x - t) <= e + 1
    BY DEF Near
  <1>2. PICK u \in thetas : 2 * (y - u) <= e + 1
    BY DEF Near
  <1>3. PICK v \in thetas : 2 * (v - x) <= e + 1
    BY DEF Near
  <1>4. PICK w \in thetas : 2 * (w - y) <= e + 1
    BY DEF Near
  <1>5. t \in Int /\ u \in Int /\ v \in Int /\ w \in Int
    BY ThetasInt
  <1> DEFINE h == Half(x + y)
  <1>6. h \in Int /\ 2 * h <= (x + y) + 1 /\ (x + y) - 1 <= 2 * h
    <2>1. x + y \in Int
      OBVIOUS
    <2> QED
      BY <2>1, HalfRounds
  <1> HIDE DEF h
  <1>7. 2 * (h - t) <= e + 2 \/ 2 * (h - u) <= e + 2
    BY <1>1, <1>2, <1>5, <1>6
  <1>8. 2 * (v - h) <= e + 2 \/ 2 * (w - h) <= e + 2
    BY <1>3, <1>4, <1>5, <1>6
  <1>9. Near(h, e + 2, thetas)
    BY <1>7, <1>8, Zenon DEF Near
  <1> QED
    BY <1>9 DEF h

\* The median of the best readings is near the offset.
LEMMA MedianOK ==
  ASSUME SyncInv, samples # <<>>
  PROVE  Near(Median, BestRTT + RTTBandMs + 2, thetas)
  <1> DEFINE e == BestRTT + RTTBandMs
             keep == Cardinality(Chosen)
  <1>1. ClockSyncTypeOK /\ e \in Int
    BY ChosenOK, ClockSyncAssumption DEF SyncInv
  <1>2. keep \in Nat /\ keep # 0
    BY ChosenOK, FS_CardinalityType, FS_EmptySet
  <1>3. ASSUME NEW n \in Nat, n < keep
        PROVE  Ranked(n) \in Int /\ Near(Ranked(n), e + 1, thetas)
    BY <1>3, RankedOK, ChosenOK
  <1>4. CASE keep % 2 = 1
    <2>1. keep \div 2 \in Nat /\ keep \div 2 < keep
      BY <1>2, <1>4
    <2>2. Median = Ranked(keep \div 2)
      BY <1>4 DEF Median
    <2> HIDE DEF keep, e
    <2>3. Ranked(keep \div 2) \in Int /\ Near(Ranked(keep \div 2), e + 1, thetas)
      BY <1>3, <2>1
    <2>4. e + 1 \in Int /\ e + 2 \in Int /\ e + 1 <= e + 2
      BY <1>1
    <2>5. Near(Median, e + 2, thetas)
      BY <1>1, <2>2, <2>3, <2>4, NearWider
    <2> QED
      BY <2>5 DEF e
  <1>5. CASE keep % 2 # 1
    <2> DEFINE x == Ranked(keep \div 2 - 1)
               y == Ranked(keep \div 2)
    <2>1. keep \div 2 \in Nat /\ keep \div 2 - 1 \in Nat
          /\ keep \div 2 < keep /\ keep \div 2 - 1 < keep
      BY <1>2, <1>5
    <2>2. Median = Half(x + y)
      BY <1>5 DEF Median
    <2> HIDE DEF keep, e
    <2>3. x \in Int /\ Near(x, e + 1, thetas) /\ y \in Int /\ Near(y, e + 1, thetas)
      BY <1>3, <2>1
    <2> HIDE DEF x, y
    <2>4. Near(Median, e + 2, thetas)
      BY <1>1, <2>2, <2>3, HalfwayNear
    <2> QED
      BY <2>4 DEF e
  <1> QED
    BY <1>4, <1>5

\* Whatever times the messages of a round have taken, and wherever a clock has
\* stepped by whatever amount, the estimate the round yields lies between the
\* offsets that the clocks have had in it, but for half of the best round-trip
\* time and the band, and rounding: without a step that close to the one offset.
THEOREM EstimateIsNear == ClockSyncSpec => []OffsetWithinHalfRtt
  <1>1. ClockSyncInit => SyncInv
    <2> SUFFICES ASSUME ClockSyncInit PROVE SyncInv
      OBVIOUS
    <2>1. samples \in Seq(Sample) /\ DOMAIN samples = {}
      BY DEF ClockSyncInit
    <2> QED
      BY <2>1 DEF ClockSyncInit, SyncInv, ClockSyncTypeOK
  <1>2. SyncInv => OffsetWithinHalfRtt
    BY MedianOK, Zenon DEF OffsetWithinHalfRtt, Near
  <1> QED
    BY <1>1, <1>2, SyncInductive, PTL DEF ClockSyncSpec

-----------------------------------------------------------------------------
(* Seats of a venue.                                                        *)

\* One coordinate of a direction, eight of them to a turn.
CosAt(a) == Cos[a % 8]

\* Two of the eighth turns are as wide as it goes each way, and two in the middle.
LEMMA CosValues ==
  /\ Cos[0] = 10 /\ Cos[1] = 7 /\ Cos[2] = 0 /\ Cos[3] = -7
  /\ Cos[4] = -10 /\ Cos[5] = -7 /\ Cos[6] = 0 /\ Cos[7] = 7
  BY DEF Cos

\* A coordinate of a direction is no larger than the radius.
LEMMA CosRange ==
  ASSUME NEW a \in Int
  PROVE  CosAt(a) \in Int /\ CosAt(a) \in -10..10
  <1>1. a % 8 \in 0..7
    OBVIOUS
  <1> DEFINE r == a % 8
  <1> HIDE DEF r
  <1>2. r = 0 \/ r = 1 \/ r = 2 \/ r = 3 \/ r = 4 \/ r = 5 \/ r = 6 \/ r = 7
    BY <1>1 DEF r
  <1>3. Cos[r] \in -10..10
    BY <1>2, CosValues
  <1> QED
    BY <1>3 DEF CosAt, r

\* In between two quarter turns is no extreme.
LEMMA CosBetween ==
  ASSUME NEW a \in Int, a % 2 = 1
  PROVE  \/ CosAt(a - 1) <= CosAt(a) /\ CosAt(a) <= CosAt(a + 1)
         \/ CosAt(a + 1) <= CosAt(a) /\ CosAt(a) <= CosAt(a - 1)
  <1> DEFINE r == a % 8
             p == (a - 1) % 8
             q == (a + 1) % 8
  <1>1. \/ r = 1 /\ p = 0 /\ q = 2
        \/ r = 3 /\ p = 2 /\ q = 4
        \/ r = 5 /\ p = 4 /\ q = 6
        \/ r = 7 /\ p = 6 /\ q = 0
    OBVIOUS
  <1> HIDE DEF r, p, q
  <1>2. \/ Cos[p] <= Cos[r] /\ Cos[r] <= Cos[q]
        \/ Cos[q] <= Cos[r] /\ Cos[r] <= Cos[p]
    BY <1>1, CosValues
  <1> QED
    BY <1>2 DEF CosAt, r, p, q

\* On either axis the extreme angles of an arc go as far as any angle of it.
LEMMA AnglesSpan ==
  ASSUME NEW b, b.angleStart \in Int, b.angleEnd \in Int,
         NEW a \in b.angleStart..b.angleEnd, NEW h \in {0, 6}
  PROVE  \E lo, hi \in ExtremeAngles(b) :
             /\ lo \in Int /\ hi \in Int
             /\ CosAt(lo + h) <= CosAt(a + h) /\ CosAt(a + h) <= CosAt(hi + h)
  <1>1. a \in Int /\ a + h \in Int /\ CosAt(a + h) \in Int
    <2>1. a \in Int /\ a + h \in Int
      OBVIOUS
    <2> QED
      BY <2>1, CosRange
  <1>2. CASE a \in ExtremeAngles(b)
    BY <1>1, <1>2
  <1>3. CASE a \notin ExtremeAngles(b)
    <2>1. a % 2 # 0 /\ a # b.angleStart /\ a # b.angleEnd
      BY <1>3 DEF ExtremeAngles
    <2>2. a - 1 \in ExtremeAngles(b) /\ a + 1 \in ExtremeAngles(b)
      <3>1. a - 1 \in b.angleStart..b.angleEnd /\ a + 1 \in b.angleStart..b.angleEnd
        BY <2>1
      <3>2. (a - 1) % 2 = 0 /\ (a + 1) % 2 = 0
        BY <2>1
      <3> QED
        BY <3>1, <3>2 DEF ExtremeAngles
    <2>3. (a + h) % 2 = 1
      BY <2>1
    <2>4. \/ CosAt(a + h - 1) <= CosAt(a + h) /\ CosAt(a + h) <= CosAt(a + h + 1)
          \/ CosAt(a + h + 1) <= CosAt(a + h) /\ CosAt(a + h) <= CosAt(a + h - 1)
      <3> DEFINE n == a + h
      <3>1. n \in Int /\ n % 2 = 1
        BY <1>1, <2>3
      <3> HIDE DEF n
      <3>2. \/ CosAt(n - 1) <= CosAt(n) /\ CosAt(n) <= CosAt(n + 1)
            \/ CosAt(n + 1) <= CosAt(n) /\ CosAt(n) <= CosAt(n - 1)
        BY <3>1, CosBetween
      <3> QED
        BY <3>2 DEF n
    <2>5. a + h - 1 = (a - 1) + h /\ a + h + 1 = (a + 1) + h
          /\ a - 1 \in Int /\ a + 1 \in Int
      BY <1>1
    <2>6. \/ CosAt((a - 1) + h) <= CosAt(a + h) /\ CosAt(a + h) <= CosAt((a + 1) + h)
          \/ CosAt((a + 1) + h) <= CosAt(a + h) /\ CosAt(a + h) <= CosAt((a - 1) + h)
      BY <2>4, <2>5
    <2> QED
      BY <2>2, <2>5, <2>6
  <1> QED
    BY <1>2, <1>3

\* The first row or the last goes as far as a row between them.
LEMMA RadiusSpan ==
  ASSUME NEW r \in Nat, NEW s \in Nat, NEW t \in Nat, s <= r, r <= t,
         NEW c \in Int, NEW d \in Int, c <= d
  PROVE  (\E q \in {s, t} : q * c <= r * d) /\ (\E q \in {s, t} : r * c <= q * d)
  <1>1. r * c <= r * d
    OBVIOUS
  <1>2. s * c <= r * c \/ t * c <= r * c
    OBVIOUS
  <1>3. r * d <= s * d \/ r * d <= t * d
    OBVIOUS
  <1>4. s * c \in Int /\ t * c \in Int /\ r * c \in Int /\ r * d \in Int
        /\ s * d \in Int /\ t * d \in Int
    OBVIOUS
  <1>5. s * c <= r * d \/ t * c <= r * d
    BY <1>1, <1>2, <1>4
  <1>6. r * c <= s * d \/ r * c <= t * d
    BY <1>1, <1>3, <1>4
  <1> QED
    BY <1>5, <1>6

\* And so does a step along a straight line.
LEMMA LineSpan ==
  ASSUME NEW n \in Nat, NEW m \in 1..n, NEW v \in Int
  PROVE  /\ \E k \in {1, n} : (k - 1) * v <= (m - 1) * v
         /\ \E k \in {1, n} : (m - 1) * v <= (k - 1) * v
  <1>1. 0 * v = 0 /\ (1 - 1) * v = 0
    OBVIOUS
  <1>2. CASE v >= 0
    <2>1. 0 <= (m - 1) * v /\ (m - 1) * v <= (n - 1) * v
      BY <1>2
    <2> QED
      BY <1>1, <2>1
  <1>3. CASE v < 0
    <2>1. (m - 1) * v <= 0 /\ (n - 1) * v <= (m - 1) * v
      BY <1>3
    <2> QED
      BY <1>1, <2>1
  <1> QED
    BY <1>2, <1>3

\* What the types of a block's fields say, and what validation lets through.
BlockTyped(b) ==
    /\ {b.rows, b.seatsPerRow, b.radius, b.rowStep, b.rake, b.angleStart,
        b.angleEnd, b.seatStep} \subseteq Int
    /\ IsPoint(b.origin) /\ IsPoint(b.rowVec) /\ IsPoint(b.seatVec)
    /\ b.center = <<>> \/ IsPoint(b.center)

BlockOK(b) ==
    /\ BlockTyped(b)
    /\ b.rows >= 1
    /\ \/ b.kind \in {"", "grid"} /\ GridOK(b)
       \/ b.kind = "arc" /\ ArcOK(b)

\* An arc that validation lets through has the numbers that its seats need.
LEMMA ArcTypes ==
  ASSUME NEW b, BlockOK(b), b.kind = "arc"
  PROVE  /\ b.rows \in Nat \ {0} /\ b.radius \in Nat \ {0} /\ b.rake \in Int
         /\ b.rowStep \in Int /\ (b.rows > 1 => b.rowStep \in Nat)
         /\ b.seatStep \in Nat \ {0} /\ b.angleStart \in Int /\ b.angleEnd \in Int
         /\ b.angleStart <= b.angleEnd
         /\ b.center[1] \in Int /\ b.center[2] \in Int /\ b.center[3] \in Int
  <1>1. /\ b.rows \in Int /\ b.radius \in Int /\ b.rowStep \in Int /\ b.rake \in Int
        /\ b.angleStart \in Int /\ b.angleEnd \in Int /\ b.seatStep \in Int
        /\ b.center = <<>> \/ IsPoint(b.center)
    BY DEF BlockOK, BlockTyped
  <1>2. b.rows >= 1 /\ ArcOK(b)
    BY DEF BlockOK
  <1>3. \A axis \in 1..3 : b.center[axis] \in Int
    BY <1>1, <1>2 DEF ArcOK, IsPoint
  <1>4. b.rows \in Nat \ {0}
    BY <1>1, <1>2
  <1>5. b.radius \in Nat \ {0} /\ b.seatStep \in Nat \ {0}
        /\ (b.rows > 1 => b.rowStep \in Nat)
    BY <1>1, <1>2 DEF ArcOK
  <1>6. b.angleStart <= b.angleEnd
    BY <1>1, <1>2 DEF ArcOK
  <1> QED
    BY <1>1, <1>3, <1>4, <1>5, <1>6

\* And so has a grid.
LEMMA GridTypes ==
  ASSUME NEW b, BlockOK(b), b.kind # "arc"
  PROVE  /\ b.rows \in Nat \ {0} /\ b.seatsPerRow \in Nat \ {0}
         /\ \A axis \in 1..3 : b.origin[axis] \in Int /\ b.rowVec[axis] \in Int
                               /\ b.seatVec[axis] \in Int
  <1>1. b.rows \in Int /\ b.seatsPerRow \in Int
        /\ IsPoint(b.origin) /\ IsPoint(b.rowVec) /\ IsPoint(b.seatVec)
    BY DEF BlockOK, BlockTyped
  <1>2. b.rows >= 1 /\ b.seatsPerRow >= 1
    BY DEF BlockOK, GridOK
  <1> QED
    BY <1>1, <1>2 DEF IsPoint

\* Rows lie further out the further back they are.
LEMMA RadiusGrows ==
  ASSUME NEW b, BlockOK(b), b.kind = "arc", NEW row \in 1..b.rows
  PROVE  /\ RadiusOf(b, row) \in Nat \ {0} /\ RadiusOf(b, 1) \in Nat
         /\ RadiusOf(b, b.rows) \in Nat
         /\ RadiusOf(b, 1) <= RadiusOf(b, row) /\ RadiusOf(b, row) <= RadiusOf(b, b.rows)
  <1> DEFINE n == b.rows
             s == b.rowStep
             r == b.radius
  <1>1. n \in Nat \ {0} /\ r \in Nat \ {0} /\ s \in Int /\ (n > 1 => s \in Nat)
        /\ row \in 1..n
    BY ArcTypes
  <1>2. /\ RadiusOf(b, row) = r + (row - 1) * s /\ RadiusOf(b, n) = r + (n - 1) * s
        /\ RadiusOf(b, 1) = r + (1 - 1) * s
    BY DEF RadiusOf
  <1> HIDE DEF n, s, r
  <1>3. (1 - 1) * s = 0
    BY <1>1
  <1>4. CASE n = 1
    <2>1. row = 1
      BY <1>1, <1>4
    <2> QED
      BY <1>1, <1>2, <1>3, <1>4, <2>1 DEF n
  <1>5. CASE n # 1
    <2>1. s \in Nat
      BY <1>1, <1>5
    <2>2. (row - 1) * s \in Nat /\ (n - 1) * s \in Nat /\ (row - 1) * s <= (n - 1) * s
      BY <1>1, <2>1
    <2> QED
      BY <1>1, <1>2, <1>3, <2>2 DEF n
  <1> QED
    BY <1>4, <1>5

\* The samples of a block go as far on an axis as any point of a row of it.
LEMMA ArcSpan ==
  ASSUME NEW b, BlockOK(b), b.kind = "arc", NEW row \in 1..b.rows,
         NEW a \in b.angleStart..b.angleEnd, NEW axis \in 1..3
  PROVE  /\ OnArc(b, row, a)[axis] \in Int
         /\ \E lo, hi \in BoundsSamples(b) :
                lo[axis] <= OnArc(b, row, a)[axis] /\ OnArc(b, row, a)[axis] <= hi[axis]
  <1>0. /\ b.angleStart \in Int /\ b.angleEnd \in Int /\ a \in Int
        /\ b.center[1] \in Int /\ b.center[2] \in Int /\ b.center[3] \in Int
        /\ b.rake \in Int /\ b.rows \in Nat \ {0}
    BY ArcTypes
  <1>1. \A q \in {1, b.rows}, x \in ExtremeAngles(b) : OnArc(b, q, x) \in BoundsSamples(b)
    BY DEF BoundsSamples
  <1>2. \A q, x : /\ OnArc(b, q, x)[1] = b.center[1] + RadiusOf(b, q) * CosAt(x)
                  /\ OnArc(b, q, x)[2] = b.center[2] + RadiusOf(b, q) * CosAt(x + 6)
                  /\ OnArc(b, q, x)[3] = b.center[3] + (q - 1) * b.rake
    BY DEF OnArc, Towards, CosAt
  <1> DEFINE r == RadiusOf(b, row)
             s == RadiusOf(b, 1)
             t == RadiusOf(b, b.rows)
  <1>3. r \in Nat /\ s \in Nat /\ t \in Nat /\ s <= r /\ r <= t
    BY RadiusGrows
  <1> HIDE DEF r, s, t
  <1>4. ASSUME NEW h \in {0, 6}, NEW c \in Int
        PROVE  /\ c + r * CosAt(a + h) \in Int
               /\ \E q \in {1, b.rows}, x \in ExtremeAngles(b) :
                     c + RadiusOf(b, q) * CosAt(x + h) <= c + r * CosAt(a + h)
               /\ \E q \in {1, b.rows}, x \in ExtremeAngles(b) :
                     c + r * CosAt(a + h) <= c + RadiusOf(b, q) * CosAt(x + h)
    <2>1. PICK lo \in ExtremeAngles(b), hi \in ExtremeAngles(b) :
              /\ lo \in Int /\ hi \in Int
              /\ CosAt(lo + h) <= CosAt(a + h) /\ CosAt(a + h) <= CosAt(hi + h)
      BY <1>0, AnglesSpan
    <2> DEFINE l == CosAt(lo + h)
               m == CosAt(a + h)
               u == CosAt(hi + h)
    <2>2. l \in Int /\ m \in Int /\ u \in Int
      <3>1. lo + h \in Int /\ a + h \in Int /\ hi + h \in Int
        BY <1>0, <2>1
      <3> QED
        BY <3>1, CosRange
    <2> HIDE DEF l, m, u
    <2>3. l <= m /\ m <= u
      BY <2>1 DEF l, m, u
    <2>4. \E q \in {s, t} : q * l <= r * m
      BY <1>3, <2>2, <2>3, RadiusSpan
    <2>5. \E q \in {s, t} : r * m <= q * u
      BY <1>3, <2>2, <2>3, RadiusSpan
    <2>6. r * m \in Int /\ s * l \in Int /\ t * l \in Int /\ s * u \in Int /\ t * u \in Int
      BY <1>3, <2>2
    <2>7. c + s * l <= c + r * m \/ c + t * l <= c + r * m
      BY <2>4, <2>6
    <2>8. c + r * m <= c + s * u \/ c + r * m <= c + t * u
      BY <2>5, <2>6
    <2>9. c + r * m \in Int
      BY <2>6
    <2> QED
      BY <2>1, <2>7, <2>8, <2>9 DEF s, t, l, m, u
  <1>5. CASE axis = 1
    <2>1. a + 0 = a /\ \A x \in ExtremeAngles(b) : x + 0 = x
      BY <1>0 DEF ExtremeAngles
    <2>2. /\ b.center[1] + r * CosAt(a) \in Int
          /\ \E q \in {1, b.rows}, x \in ExtremeAngles(b) :
                b.center[1] + RadiusOf(b, q) * CosAt(x) <= b.center[1] + r * CosAt(a)
          /\ \E q \in {1, b.rows}, x \in ExtremeAngles(b) :
                b.center[1] + r * CosAt(a) <= b.center[1] + RadiusOf(b, q) * CosAt(x)
      BY <1>0, <1>4, <2>1
    <2> QED
      BY <1>1, <1>2, <1>5, <2>2 DEF r
  <1>6. CASE axis = 2
    <2>1. /\ b.center[2] + r * CosAt(a + 6) \in Int
          /\ \E q \in {1, b.rows}, x \in ExtremeAngles(b) :
                b.center[2] + RadiusOf(b, q) * CosAt(x + 6) <= b.center[2] + r * CosAt(a + 6)
          /\ \E q \in {1, b.rows}, x \in ExtremeAngles(b) :
                b.center[2] + r * CosAt(a + 6) <= b.center[2] + RadiusOf(b, q) * CosAt(x + 6)
      BY <1>0, <1>4
    <2> QED
      BY <1>1, <1>2, <1>6, <2>1 DEF r
  <1>7. CASE axis = 3
    <2> DEFINE c == b.center[3]
               v == b.rake
               n == b.rows
    <2>1. n \in Nat /\ row \in 1..n /\ v \in Int /\ c \in Int
      BY <1>0
    <2> HIDE DEF c, v, n
    <2>2. /\ \E k \in {1, n} : (k - 1) * v <= (row - 1) * v
          /\ \E k \in {1, n} : (row - 1) * v <= (k - 1) * v
      BY <2>1, LineSpan
    <2>3. /\ \E k \in {1, n} : c + (k - 1) * v <= c + (row - 1) * v
          /\ \E k \in {1, n} : c + (row - 1) * v <= c + (k - 1) * v
          /\ c + (row - 1) * v \in Int
      <3>1. \A k \in {1, n, row} : (k - 1) * v \in Int
        BY <2>1
      <3> QED
        BY <2>1, <2>2, <3>1
    <2>4. b.angleStart \in ExtremeAngles(b)
      BY DEF ExtremeAngles
    <2> QED
      BY <1>1, <1>2, <1>7, <2>3, <2>4 DEF c, v, n
  <1> QED
    BY <1>5, <1>6, <1>7

\* The corners of a grid lie as far out on an axis as any seat of it.
LEMMA GridSpan ==
  ASSUME NEW b, BlockOK(b), b.kind # "arc", NEW row \in 1..b.rows,
         NEW seat \in 1..b.seatsPerRow, NEW axis \in 1..3
  PROVE  /\ SeatWorld(b, row, seat)[axis] \in Int
         /\ \E lo, hi \in BoundsSamples(b) :
                /\ lo[axis] <= SeatWorld(b, row, seat)[axis]
                /\ SeatWorld(b, row, seat)[axis] <= hi[axis]
  <1> DEFINE o == b.origin[axis]
             v == b.rowVec[axis]
             w == b.seatVec[axis]
             n == b.rows
             m == b.seatsPerRow
  <1>1. \A q, x : SeatWorld(b, q, x)[axis] = o + (q - 1) * v + (x - 1) * w
    BY DEF SeatWorld
  <1>2. \A q \in {1, n}, x \in {1, m} : SeatWorld(b, q, x) \in BoundsSamples(b)
    BY DEF BoundsSamples
  <1>3. n \in Nat \ {0} /\ m \in Nat \ {0} /\ o \in Int /\ v \in Int /\ w \in Int
        /\ row \in 1..n /\ seat \in 1..m
    BY GridTypes
  <1> HIDE DEF o, v, w, n, m
  <1>4. /\ \E k \in {1, n} : (k - 1) * v <= (row - 1) * v
        /\ \E k \in {1, n} : (row - 1) * v <= (k - 1) * v
        /\ \E k \in {1, m} : (k - 1) * w <= (seat - 1) * w
        /\ \E k \in {1, m} : (seat - 1) * w <= (k - 1) * w
    BY <1>3, LineSpan
  <1>5. /\ \A k \in {1, n, row} : (k - 1) * v \in Int
        /\ \A k \in {1, m, seat} : (k - 1) * w \in Int
    BY <1>3
  <1>6. PICK k \in {1, n}, l \in {1, m} :
            (k - 1) * v <= (row - 1) * v /\ (l - 1) * w <= (seat - 1) * w
    BY <1>4
  <1>7. PICK p \in {1, n}, q \in {1, m} :
            (row - 1) * v <= (p - 1) * v /\ (seat - 1) * w <= (q - 1) * w
    BY <1>4
  <1> DEFINE here == o + (row - 1) * v + (seat - 1) * w
  <1>8. /\ here \in Int
        /\ o + (k - 1) * v + (l - 1) * w <= here /\ here <= o + (p - 1) * v + (q - 1) * w
    BY <1>3, <1>5, <1>6, <1>7
  <1> HIDE DEF here
  <1>9. /\ SeatWorld(b, row, seat)[axis] = here
        /\ SeatWorld(b, k, l)[axis] <= here /\ here <= SeatWorld(b, p, q)[axis]
    BY <1>1, <1>8 DEF here
  <1>10. SeatWorld(b, k, l) \in BoundsSamples(b) /\ SeatWorld(b, p, q) \in BoundsSamples(b)
    BY <1>2
  <1> QED
    BY <1>8, <1>9, <1>10

\* No seat of an arc is beyond its end.
LEMMA SeatAngle ==
  ASSUME NEW b, BlockOK(b), b.kind = "arc", NEW row \in 1..b.rows,
         NEW seat \in 1..SeatsInRow(b, row)
  PROVE  b.angleStart + ((seat - 1) * b.seatStep) \div RadiusOf(b, row)
             \in b.angleStart..b.angleEnd
  <1> DEFINE r == RadiusOf(b, row)
             s == b.angleStart
             e == b.angleEnd
             d == b.seatStep
             f == r * (e - s)
             g == (seat - 1) * d
  <1>1. r \in Nat \ {0} /\ s \in Int /\ e \in Int /\ s <= e /\ d \in Nat \ {0}
    BY RadiusGrows, ArcTypes
  <1>2. SeatsInRow(b, row) = (f \div d) + 1
    BY DEF SeatsInRow
  <1> HIDE DEF r, s, e, d
  <1>3. f \in Int
    BY <1>1
  <1>4. seat - 1 \in Nat /\ seat - 1 <= f \div d
    <2> HIDE DEF f
    <2>1. f \div d \in Int
      BY <1>1, <1>3
    <2> QED
      BY <1>2, <2>1
  <1>5. 0 <= g /\ g <= f /\ g \in Int
    <2>1. g \in Int /\ 0 <= g
      BY <1>1, <1>4
    <2>2. g <= (f \div d) * d
      <3> DEFINE x == f \div d
                 y == seat - 1
      <3>1. x \in Int /\ y \in Nat /\ y <= x
        BY <1>1, <1>3, <1>4
      <3> HIDE DEF x, y
      <3>2. y * d <= x * d
        BY <1>1, <3>1
      <3> QED
        BY <3>2 DEF x, y
    <2>3. (f \div d) * d <= f /\ (f \div d) * d \in Int
      <3> HIDE DEF f
      <3> QED
        BY <1>1, <1>3
    <2> HIDE DEF g, f
    <2> QED
      BY <1>3, <2>1, <2>2, <2>3
  <1>6. g \div r \in 0..(e - s)
    <2>1. g < (e - s + 1) * r /\ 0 * r <= g
      <3>1. (e - s + 1) * r = f + r /\ 0 * r = 0
        BY <1>1
      <3> HIDE DEF f, g
      <3> QED
        BY <1>1, <1>3, <1>5, <3>1
    <2> DEFINE k == e - s + 1
    <2>2. k \in Int /\ 0 \in Int
      BY <1>1
    <2> HIDE DEF g, k
    <2>3. g \div r \in 0..(k - 1)
      BY <1>1, <1>5, <2>1, <2>2 DEF k
    <2> QED
      BY <1>1, <2>3 DEF k
  <1> DEFINE j == g \div r
  <1>7. s + j \in s..e
    <2> HIDE DEF j
    <2> QED
      BY <1>1, <1>6 DEF j
  <1> QED
    BY <1>7 DEF r, s, e, d

Abs(n) == IF n < 0 THEN -n ELSE n

\* The samples of a block are bounded on every axis.
Bounded(b, axis, k) ==
    \A p \in BoundsSamples(b) : p[axis] \in Int /\ -k <= p[axis] /\ p[axis] <= k

\* The samples of an arc do not go on for ever.
LEMMA ArcBounded ==
  ASSUME NEW b, BlockOK(b), b.kind = "arc", NEW axis \in 1..3
  PROVE  \E k \in Nat : Bounded(b, axis, k)
  <1> DEFINE n == b.rows
             r == RadiusOf(b, n)
             c == b.center[axis]
             v == b.rake
             w == (n - 1) * v
  <1>1. n \in Nat \ {0} /\ c \in Int /\ v \in Int /\ n \in 1..n /\ 1 \in 1..n
        /\ b.angleStart \in Int /\ b.angleEnd \in Int
    BY ArcTypes
  <1>2. r \in Nat /\ \A q \in {1, n} : RadiusOf(b, q) \in Nat /\ RadiusOf(b, q) <= r
    BY <1>1, RadiusGrows
  <1>3. ASSUME NEW p \in BoundsSamples(b)
        PROVE  \E q \in {1, n}, x \in Int : p = OnArc(b, q, x)
    <2>1. ExtremeAngles(b) \subseteq Int
      BY <1>1 DEF ExtremeAngles
    <2> QED
      BY <1>3, <2>1 DEF BoundsSamples
  <1>4. w \in Int
    <2> HIDE DEF n, v
    <2> QED
      BY <1>1
  <1> DEFINE k == Abs(c) + 10 * r + Abs(w)
  <1>5. Abs(c) \in Nat /\ Abs(w) \in Nat /\ c <= Abs(c) /\ -Abs(c) <= c
        /\ w <= Abs(w) /\ -Abs(w) <= w
    <2> HIDE DEF w
    <2> QED
      BY <1>1, <1>4 DEF Abs
  <1>6. k \in Nat
    <2> HIDE DEF w, r, c
    <2> QED
      BY <1>2, <1>5
  <1>7. ASSUME NEW p \in BoundsSamples(b)
        PROVE  p[axis] \in Int /\ -k <= p[axis] /\ p[axis] <= k
    <2>1. PICK q \in {1, n}, x \in Int : p = OnArc(b, q, x)
      BY <1>3
    <2> DEFINE s == RadiusOf(b, q)
    <2>2. s \in Nat /\ s <= r
      BY <1>2
    <2>3. /\ p[1] = b.center[1] + s * CosAt(x)
          /\ p[2] = b.center[2] + s * CosAt(x + 6)
          /\ p[3] = b.center[3] + (q - 1) * v
      BY <2>1 DEF OnArc, Towards, CosAt
    <2> HIDE DEF s, r
    <2>4. ASSUME NEW d \in -10..10 PROVE s * d \in Int /\ s * d <= 10 * r /\ -(10 * r) <= s * d
      <3>1. s * d <= s * 10 /\ s * (-10) <= s * d /\ s * d \in Int
        BY <2>2
      <3> DEFINE z == s * d
      <3>2. z \in Int /\ z <= s * 10 /\ s * (-10) <= z
        BY <3>1
      <3> HIDE DEF z
      <3> QED
        BY <1>2, <2>2, <3>2 DEF z
    <2>5. CosAt(x) \in -10..10 /\ CosAt(x + 6) \in -10..10
      BY CosRange
    <2>6. (q - 1) * v \in {0, w}
      <3>1. 0 * v = 0
        BY <1>1
      <3> QED
        BY <3>1
    <2>7. \/ \E z \in Int : p[axis] = c + z /\ z <= 10 * r /\ -(10 * r) <= z
          \/ \E z \in {0, w} : p[axis] = c + z
      <3>1. CASE axis = 1
        BY <2>3, <2>4, <2>5, <3>1
      <3>2. CASE axis = 2
        BY <2>3, <2>4, <2>5, <3>2
      <3>3. CASE axis = 3
        <4>1. p[axis] = c + (q - 1) * v
          BY <2>3, <3>3
        <4> QED
          BY <2>6, <4>1
      <3> QED
        BY <3>1, <3>2, <3>3
    <2> HIDE DEF c, w
    <2> QED
      BY <1>1, <1>2, <1>4, <1>5, <2>7
  <1> HIDE DEF k
  <1> QED
    BY <1>6, <1>7 DEF Bounded

\* Nor do those of a grid.
LEMMA GridBounded ==
  ASSUME NEW b, BlockOK(b), b.kind # "arc", NEW axis \in 1..3
  PROVE  \E k \in Nat : Bounded(b, axis, k)
  <1> DEFINE At(q, x) == SeatWorld(b, q, x)[axis]
             n == b.rows
             m == b.seatsPerRow
             x1 == At(1, 1)
             x2 == At(1, m)
             x3 == At(n, 1)
             x4 == At(n, m)
             k == Abs(x1) + Abs(x2) + Abs(x3) + Abs(x4)
  <1>1. x1 \in Int /\ x2 \in Int /\ x3 \in Int /\ x4 \in Int
    <2>1. 1 \in 1..n /\ n \in 1..n /\ 1 \in 1..m /\ m \in 1..m
      BY GridTypes
    <2> QED
      BY <2>1, GridSpan
  <1>2. \A p \in BoundsSamples(b) : p[axis] \in {x1, x2, x3, x4}
    BY DEF BoundsSamples
  <1> HIDE DEF x1, x2, x3, x4
  <1>3. k \in Nat /\ \A z \in {x1, x2, x3, x4} : z \in Int /\ -k <= z /\ z <= k
    BY <1>1 DEF Abs
  <1> HIDE DEF k
  <1> QED
    BY <1>2, <1>3 DEF Bounded

\* A set of integers that is bounded has a least and a greatest.
LEMMA MinMaxInt ==
  ASSUME NEW S \in SUBSET Int, S # {}, NEW k \in Nat, \A x \in S : -k <= x /\ x <= k
  PROVE  /\ Min(S) \in S /\ Max(S) \in S
         /\ \A x \in S : Min(S) <= x /\ x <= Max(S)
  <1>1. \E n \in S : \A x \in S : n <= x
    <2>1. -k \in Int
      OBVIOUS
    <2>2. Least(S) \in S /\ \A m \in S : Least(S) <= m
      BY <2>1, LeastInt
    <2> QED
      BY <2>2
  <1>2. \E n \in S : \A x \in S : n >= x
    <2>1. k \in Int
      OBVIOUS
    <2>2. \E n \in S : \A x \in S : x <= n
      BY <2>1, GreatestInt
    <2> QED
      BY <2>2
  <1>3. Min(S) \in S /\ \A x \in S : Min(S) <= x
    BY <1>1 DEF Min
  <1>4. Max(S) \in S /\ \A x \in S : Max(S) >= x
    BY <1>2 DEF Max
  <1> QED
    BY <1>3, <1>4

\* A plan that has been accepted.
Planned ==
    /\ DOMAIN venue.blocks = 1..Len(venue.blocks) /\ Len(venue.blocks) \in Nat \ {0}
    /\ \A i \in DOMAIN venue.blocks :
        /\ BlockOK(venue.blocks[i])
        /\ \A j \in 1..(i - 1) : venue.blocks[j].id # venue.blocks[i].id

\* What the validation of a plan leaves.
LEMMA AcceptedIsPlanned ==
  ASSUME venue \in Plan, VenueOK(venue)
  PROVE  Planned
  <1>1. DOMAIN venue.blocks = 1..Len(venue.blocks) /\ Len(venue.blocks) \in Nat
        /\ \A i \in DOMAIN venue.blocks : BlockTyped(venue.blocks[i])
    BY PlanAssumption DEF BlockTyped
  <1>2. Len(venue.blocks) \in 1..MaxVenueBlocks
    BY DEF VenueOK
  <1>3. ASSUME NEW i \in DOMAIN venue.blocks
        PROVE  /\ BlockOK(venue.blocks[i])
               /\ \A j \in 1..(i - 1) : venue.blocks[j].id # venue.blocks[i].id
    BY <1>1 DEF VenueOK, BlockOK
  <1>4. Len(venue.blocks) \in Nat \ {0}
    BY <1>1, <1>2
  <1>5. DOMAIN venue.blocks = 1..Len(venue.blocks)
    BY <1>1
  <1> QED
    BY <1>3, <1>4, <1>5 DEF Planned

\* The ends of the venue on an axis are those of its blocks' samples.
LEMMA BoundsHold ==
  ASSUME Planned, NEW axis \in 1..3
  PROVE  /\ Bounds(axis)[1] \in Int /\ Bounds(axis)[2] \in Int
         /\ \A i \in DOMAIN venue.blocks : \A p \in BoundsSamples(venue.blocks[i]) :
                /\ p[axis] \in Int
                /\ Bounds(axis)[1] <= p[axis] /\ p[axis] <= Bounds(axis)[2]
  <1> DEFINE D == DOMAIN venue.blocks
             Samples == UNION {BoundsSamples(venue.blocks[i]) : i \in D}
             along == {p[axis] : p \in Samples}
             f == [i \in D |-> CHOOSE k \in Nat : Bounded(venue.blocks[i], axis, k)]
  <1>1. IsFiniteSet(D) /\ D # {}
    <2> DEFINE n == Len(venue.blocks)
    <2>1. D = 1..n /\ n \in Nat \ {0}
      BY DEF Planned
    <2> HIDE DEF n
    <2>2. 1 \in Int /\ n \in Int
      BY <2>1
    <2>3. IsFiniteSet(1..n)
      BY <2>2, FS_Interval
    <2> QED
      BY <2>1, <2>3
  <1>2. ASSUME NEW i \in D
        PROVE  f[i] \in Nat /\ Bounded(venue.blocks[i], axis, f[i])
    <2>1. \E k \in Nat : Bounded(venue.blocks[i], axis, k)
      BY ArcBounded, GridBounded DEF Planned
    <2> QED
      BY <2>1
  <1>3. PICK c \in D : \A d \in D : f[d] <= f[c]
    <2>1. f \in [D -> Int]
      <3>1. \A i \in D : f[i] \in Int
        BY <1>2
      <3> QED
        BY <3>1
    <2> HIDE DEF f, D
    <2> QED
      BY <1>1, <2>1, FiniteMax
  <1> HIDE DEF f
  <1> DEFINE k == f[c]
  <1>4. k \in Nat
    BY <1>2
  <1>5. ASSUME NEW i \in D, NEW p \in BoundsSamples(venue.blocks[i])
        PROVE  p[axis] \in Int /\ -k <= p[axis] /\ p[axis] <= k
    <2>1. f[i] \in Nat /\ f[i] <= k
      BY <1>2, <1>3
    <2>2. p[axis] \in Int /\ -f[i] <= p[axis] /\ p[axis] <= f[i]
      BY <1>2 DEF Bounded
    <2> HIDE DEF k
    <2> QED
      BY <1>4, <2>1, <2>2
  <1>6. \A i \in D : \A p \in BoundsSamples(venue.blocks[i]) : p[axis] \in along
    OBVIOUS
  <1>7. along \in SUBSET Int /\ \A x \in along : -k <= x /\ x <= k
    <2> HIDE DEF k
    <2> QED
      BY <1>5
  <1>8. along # {}
    <2> DEFINE b == venue.blocks[c]
    <2>1. b.kind = "arc" => OnArc(b, 1, b.angleStart) \in BoundsSamples(b)
      BY DEF BoundsSamples, ExtremeAngles
    <2>2. b.kind # "arc" => SeatWorld(b, 1, 1) \in BoundsSamples(b)
      BY DEF BoundsSamples
    <2>3. \E p : p \in BoundsSamples(b)
      <3> HIDE DEF b
      <3> QED
        BY <2>1, <2>2
    <2> HIDE DEF along
    <2> QED
      BY <1>6, <2>3
  <1>9. Bounds(axis) = <<Min(along), Max(along)>>
    BY DEF Bounds
  <1>10. /\ Min(along) \in along /\ Max(along) \in along
         /\ \A x \in along : Min(along) <= x /\ x <= Max(along)
    <2> HIDE DEF along, k
    <2> QED
      BY <1>4, <1>7, <1>8, MinMaxInt
  <1>11. Bounds(axis)[1] = Min(along) /\ Bounds(axis)[2] = Max(along)
    BY <1>9
  <1> HIDE DEF along
  <1>12. \A i \in D : \A p \in BoundsSamples(venue.blocks[i]) :
             Bounds(axis)[1] <= p[axis] /\ p[axis] <= Bounds(axis)[2]
    BY <1>6, <1>10, <1>11
  <1>13. Bounds(axis)[1] \in Int /\ Bounds(axis)[2] \in Int
    BY <1>7, <1>10, <1>11
  <1> QED
    BY <1>5, <1>12, <1>13

\* A seat that a plan has lies within the venue.
LEMMA SeatWithin ==
  ASSUME Planned, NEW i \in DOMAIN venue.blocks, NEW row \in 1..venue.blocks[i].rows,
         NEW seat \in 1..SeatsInRow(venue.blocks[i], row), NEW axis \in 1..3
  PROVE  /\ Bounds(axis)[1] \in Int /\ Bounds(axis)[2] \in Int
         /\ SeatWorld(venue.blocks[i], row, seat)[axis]
                \in Bounds(axis)[1]..Bounds(axis)[2]
  <1> DEFINE b == venue.blocks[i]
             x == SeatWorld(b, row, seat)[axis]
  <1>1. BlockOK(b)
    BY DEF Planned
  <1>2. /\ x \in Int
        /\ \E lo, hi \in BoundsSamples(b) : lo[axis] <= x /\ x <= hi[axis]
    <2>1. CASE b.kind = "arc"
      <3> DEFINE a == b.angleStart + ((seat - 1) * b.seatStep) \div RadiusOf(b, row)
      <3>1. a \in b.angleStart..b.angleEnd
        BY <1>1, <2>1, SeatAngle
      <3>2. x = OnArc(b, row, a)[axis]
        BY <2>1 DEF SeatWorld
      <3> HIDE DEF a, b
      <3>3. row \in 1..b.rows
        BY DEF b
      <3> QED
        BY <1>1, <2>1, <3>1, <3>2, <3>3, ArcSpan
    <2>2. CASE b.kind # "arc"
      <3>1. seat \in 1..b.seatsPerRow
        BY <2>2 DEF SeatsInRow
      <3> HIDE DEF b
      <3>2. row \in 1..b.rows
        BY DEF b
      <3> QED
        BY <1>1, <2>2, <3>1, <3>2, GridSpan
    <2> QED
      BY <2>1, <2>2
  <1> HIDE DEF x
  <1>3. PICK lo \in BoundsSamples(b), hi \in BoundsSamples(b) : lo[axis] <= x /\ x <= hi[axis]
    BY <1>2
  <1>4. /\ Bounds(axis)[1] \in Int /\ Bounds(axis)[2] \in Int
        /\ lo[axis] \in Int /\ hi[axis] \in Int
        /\ Bounds(axis)[1] <= lo[axis] /\ hi[axis] <= Bounds(axis)[2]
    BY BoundsHold
  <1> DEFINE l == Bounds(axis)[1]
             h == Bounds(axis)[2]
  <1> HIDE DEF l, h, b
  <1>5. x \in l..h
    BY <1>2, <1>3, <1>4 DEF l, h
  <1> QED
    BY <1>4, <1>5 DEF x, l, h, b

\* The nine digits a ticket is written with.
LEMMA Digits ==
  /\ DOMAIN Numeral = 1..11
  /\ Numeral[1] = "1" /\ Numeral[2] = "2" /\ Numeral[3] = "3" /\ Numeral[4] = "4"
  /\ Numeral[5] = "5" /\ Numeral[6] = "6" /\ Numeral[7] = "7" /\ Numeral[8] = "8"
  /\ Numeral[9] = "9" /\ Numeral[10] = "0" /\ Numeral[11] = "02"
  BY DEF Numeral

\* No other part is written as a digit is.
LEMMA DigitsDiffer ==
  ASSUME NEW k \in 1..9
  PROVE  \A j \in DOMAIN Numeral : Numeral[j] = Numeral[k] => j = k
  <1>1. k = 1 \/ k = 2 \/ k = 3 \/ k = 4 \/ k = 5 \/ k = 6 \/ k = 7 \/ k = 8 \/ k = 9
    OBVIOUS
  <1>2. \A j \in DOMAIN Numeral : j = 1 \/ j = 2 \/ j = 3 \/ j = 4 \/ j = 5 \/ j = 6 \/ j = 7
                         \/ j = 8 \/ j = 9 \/ j = 10 \/ j = 11
    BY Digits
  <1> QED
    BY <1>1, <1>2, Digits

\* A digit that is written is read as it was.
LEMMA NumeralRead ==
  ASSUME NEW k \in 1..9
  PROVE  Numeric(Numeral[k]) /\ NumberOf(Numeral[k]) = k
  <1>1. k \in DOMAIN Numeral
    BY Digits
  <1>2. Numeric(Numeral[k])
    BY <1>1 DEF Numeric
  <1> DEFINE P(n) == \E j \in DOMAIN Numeral :
                 Numeral[j] = Numeral[k] /\ n = (IF j = 11 THEN 2 ELSE j % 10)
  <1>3. \A n : P(n) => n = k
    <2>1. k % 10 = k /\ k # 11
      OBVIOUS
    <2> QED
      BY DigitsDiffer, <2>1
  <1>4. P(k)
    <2>1. k = (IF k = 11 THEN 2 ELSE k % 10)
      OBVIOUS
    <2> QED
      BY <1>1, <2>1
  <1>5. NumberOf(Numeral[k]) = CHOOSE n \in 0..9 : P(n)
    BY DEF NumberOf
  <1>6. k \in 0..9
    OBVIOUS
  <1> HIDE DEF P
  <1>7. (CHOOSE n \in 0..9 : P(n)) = k
    BY <1>3, <1>4, <1>6
  <1> QED
    BY <1>2, <1>5, <1>7

\* The seat a ticket is for.
LEMMA RefType ==
  ASSUME NEW ref \in Ref
  PROVE  /\ ref.block \in Seq(STRING) /\ Len(ref.block) \in Nat /\ Len(ref.block) > 0
         /\ ref.block # <<"">> /\ ref.row \in 1..9 /\ ref.seat \in 1..9
         /\ ref = [block |-> ref.block, row |-> ref.row, seat |-> ref.seat]
  <1>1. ref \in [block : Seq(STRING), row : 1..9, seat : 1..9]
    BY RefAssumption
  <1>2. Len(ref.block) > 0 /\ ref.block # <<"">>
    BY RefAssumption
  <1>3. ref.block \in Seq(STRING) /\ ref.row \in 1..9 /\ ref.seat \in 1..9
    BY <1>1
  <1>4. ref = [block |-> ref.block, row |-> ref.row, seat |-> ref.seat]
    BY <1>1
  <1>5. Len(ref.block) \in Nat
    BY <1>3, LenProperties
  <1> QED
    BY <1>2, <1>3, <1>4, <1>5

\* Two parts after a sequence are read from the right, and leave the sequence.
LEMMA ReadFromRight ==
  ASSUME NEW S, NEW s \in Seq(S), NEW a, NEW b, NEW t, t = s \o <<a, b>>
  PROVE  /\ Len(t) = Len(s) + 2 /\ Len(s) \in Nat
         /\ t[Len(s) + 1] = a /\ t[Len(s) + 2] = b
         /\ SubSeq(t, 1, Len(s)) = s
  <1> DEFINE m == Len(s)
             e == <<a, b>>
             R == S \cup {a, b}
  <1>0. s \in Seq(R)
    <2>1. \A i \in 1..Len(s) : s[i] \in R
      BY ElementOfSeq
    <2>2. s \in [1..Len(s) -> R] /\ Len(s) \in Nat
      BY <2>1, LenProperties
    <2> HIDE DEF R
    <2> QED
      BY <2>2, SeqDef
  <1>1. m \in Nat /\ e \in Seq(R) /\ Len(e) = 2 /\ e[1] = a /\ e[2] = b
    BY LenProperties
  <1> HIDE DEF R
  <1>2. t \in Seq(R) /\ Len(t) = m + 2
    BY <1>0, <1>1, ConcatProperties
  <1>3. \A i \in 1..(m + 2) : t[i] = IF i <= m THEN s[i] ELSE e[i - m]
    BY <1>0, <1>1, ConcatProperties
  <1> HIDE DEF e
  <1>7. t[m + 1] = a /\ t[m + 2] = b
    <2> HIDE DEF m
    <2>1. m + 1 \in 1..(m + 2) /\ m + 2 \in 1..(m + 2) /\ ~(m + 1 <= m) /\ ~(m + 2 <= m)
          /\ (m + 1) - m = 1 /\ (m + 2) - m = 2
      BY <1>1
    <2> QED
      BY <1>1, <1>3, <2>1
  <1>8. SubSeq(t, 1, m) = s
    <2>1. SubSeq(t, 1, m) = [i \in 1..m |-> t[i]]
      BY <1>1, <1>2
    <2>2. \A i \in 1..m : t[i] = s[i]
      <3> HIDE DEF m
      <3>1. \A i \in 1..m : i \in 1..(m + 2) /\ i <= m
        BY <1>1
      <3> QED
        BY <1>3, <3>1
    <2>3. s = [i \in 1..m |-> s[i]]
      BY LenProperties
    <2> HIDE DEF m
    <2> QED
      BY <2>1, <2>2, <2>3
  <1> QED
    BY <1>1, <1>2, <1>7, <1>8

\* A ticket is read from the right as it was written.
LEMMA TicketRead ==
  ASSUME NEW ref \in Ref, NEW t, t = String(ref), NEW n, n = Len(t)
  PROVE  /\ n >= 3
         /\ t[n - 1] = Numeral[ref.row] /\ t[n] = Numeral[ref.seat]
         /\ SubSeq(t, 1, n - 2) = ref.block
  <1> DEFINE s == ref.block
             a == Numeral[ref.row]
             b == Numeral[ref.seat]
             m == Len(s)
  <1>1. s \in Seq(STRING) /\ m \in Nat /\ m > 0
    BY RefType
  <1>2. t = s \o <<a, b>>
    BY DEF String
  <1> HIDE DEF a, b, s
  <1>3. /\ n = m + 2 /\ t[m + 1] = a /\ t[m + 2] = b /\ SubSeq(t, 1, m) = s
    <2>1. Len(t) = Len(s) + 2 /\ t[Len(s) + 1] = a /\ t[Len(s) + 2] = b
          /\ SubSeq(t, 1, Len(s)) = s
      BY <1>1, <1>2, ReadFromRight
    <2> QED
      BY <2>1
  <1>4. n >= 3 /\ n - 1 = m + 1 /\ n - 2 = m
    <2> HIDE DEF m
    <2> QED
      BY <1>1, <1>3
  <1> QED
    BY <1>3, <1>4 DEF a, b, s

\* A place between the ends of an axis is a part of the whole.
LEMMA NormWithin ==
  ASSUME NEW lo \in Int, NEW hi \in Int, NEW p \in lo..hi
  PROVE  NormAxis(p, lo, hi)[1] \in 0..NormAxis(p, lo, hi)[2]
  <1>1. CASE hi - lo < 1
    BY <1>1 DEF NormAxis
  <1>2. CASE ~(hi - lo < 1)
    <2>1. NormAxis(p, lo, hi) = <<p - lo, hi - lo>>
      BY <1>2 DEF NormAxis
    <2> QED
      BY <2>1
  <1> QED
    BY <1>1, <1>2

\* What does not depend on what a step changes.
LEMMA SameVenue ==
  ASSUME venue' = venue, seatRef' = seatRef
  PROVE  /\ String(seatRef)' = String(seatRef)
         /\ VenueOK(venue)' <=> VenueOK(venue)
         /\ heard' = heard => (Exists(heard)' <=> Exists(heard))
  <1>1. String(seatRef)' = String(seatRef)
    OBVIOUS
  <1>2. VenueOK(venue)' <=> VenueOK(venue)
    BY Zenon
  <1>3. heard' = heard => (Exists(heard)' <=> Exists(heard))
    BY DEF Exists
  <1> QED
    BY <1>1, <1>2, <1>3

\* What the phone knows at each stage.
VenueInv ==
    /\ venue \in Plan /\ seatRef \in Ref
    /\ finding \notin {"uploaded", "refused"} => VenueOK(venue)
    /\ finding \in {"read", "seated", "unknown"} /\ ticket = String(seatRef) =>
           heard = seatRef
    /\ finding = "unreadable" => ticket # String(seatRef)
    /\ finding = "seated" => Exists(heard)
    /\ finding = "unknown" => ~Exists(heard)
    /\ seatPos # <<>> => finding = "seated"
    /\ finding = "seated" =>
           \A axis \in 1..3 : seatPos[axis][1] \in 0..seatPos[axis][2]

\* A ticket that was written by the code is readable, and reads as the seat.
LEMMA ReadingPreserves ==
  ASSUME VenueInv, ParseSeatRef
  PROVE  VenueInv'
  <1> DEFINE n == Len(ticket)
             block == SubSeq(ticket, 1, n - 2)
             ok == /\ n >= 3
                   /\ Numeric(ticket[n - 1]) /\ NumberOf(ticket[n - 1]) >= 1
                   /\ Numeric(ticket[n]) /\ NumberOf(ticket[n]) >= 1
                   /\ block # <<"">>
             read == [block |-> block, row |-> NumberOf(ticket[n - 1]),
                      seat |-> NumberOf(ticket[n])]
  <1>1. /\ finding \in {"written", "typed"}
        /\ heard' = IF ok THEN read ELSE <<>>
        /\ finding' = IF ok THEN "read" ELSE "unreadable"
        /\ venue' = venue /\ seatRef' = seatRef /\ ticket' = ticket /\ seatPos' = seatPos
    BY DEF ParseSeatRef
  <1>2. ticket = String(seatRef) => ok /\ read = seatRef
    <2>1. SUFFICES ASSUME ticket = String(seatRef)
                   PROVE  ok /\ read = seatRef
      OBVIOUS
    <2>2. seatRef \in Ref
      BY DEF VenueInv
    <2>3. /\ n >= 3
          /\ ticket[n - 1] = Numeral[seatRef.row] /\ ticket[n] = Numeral[seatRef.seat]
          /\ block = seatRef.block
      BY <2>1, <2>2, TicketRead
    <2>4. /\ seatRef.row \in 1..9 /\ seatRef.seat \in 1..9 /\ seatRef.block # <<"">>
          /\ seatRef = [block |-> seatRef.block, row |-> seatRef.row, seat |-> seatRef.seat]
      BY <2>2, RefType
    <2>5. /\ Numeric(ticket[n - 1]) /\ NumberOf(ticket[n - 1]) = seatRef.row
          /\ Numeric(ticket[n]) /\ NumberOf(ticket[n]) = seatRef.seat
      BY <2>3, <2>4, NumeralRead
    <2> HIDE DEF n, block
    <2>6. ok
      <3>1. NumberOf(ticket[n - 1]) >= 1 /\ NumberOf(ticket[n]) >= 1
        <4>1. seatRef.row >= 1 /\ seatRef.seat >= 1
          <5>1. \A k \in 1..9 : k >= 1
            OBVIOUS
          <5> QED
            BY <2>4, <5>1, Zenon
        <4> QED
          BY <2>5, <4>1, Zenon
      <3>2. block # <<"">>
        BY <2>3, <2>4, Zenon
      <3> QED
        BY <2>3, <2>5, <3>1, <3>2, Zenon
    <2>7. read = seatRef
      BY <2>3, <2>4, <2>5
    <2> QED
      BY <2>6, <2>7
  <1> HIDE DEF ok, read
  <1>3. String(seatRef)' = String(seatRef) /\ (VenueOK(venue)' <=> VenueOK(venue))
    BY <1>1, SameVenue
  <1>4. seatPos = <<>> /\ VenueOK(venue)
    BY <1>1 DEF VenueInv
  <1> QED
    BY <1>1, <1>2, <1>3, <1>4 DEF VenueInv

\* The block that a seat is looked up in is the one that has the seat: no other has
\* its name.
LEMMA BlockFound ==
  ASSUME Planned, NEW ref, Exists(ref),
         NEW i, i = CHOOSE j \in DOMAIN venue.blocks : venue.blocks[j].id = ref.block
  PROVE  /\ i \in DOMAIN venue.blocks
         /\ ref.row \in 1..venue.blocks[i].rows
         /\ ref.seat \in 1..SeatsInRow(venue.blocks[i], ref.row)
  <1>1. PICK k \in DOMAIN venue.blocks :
            /\ venue.blocks[k].id = ref.block
            /\ ref.row \in 1..venue.blocks[k].rows
            /\ ref.seat \in 1..SeatsInRow(venue.blocks[k], ref.row)
    BY DEF Exists
  <1>2. i \in DOMAIN venue.blocks /\ venue.blocks[i].id = ref.block
    BY <1>1
  <1>3. i = k
    <2>0. \A d \in DOMAIN venue.blocks : d \in Int /\ 1 <= d
      BY DEF Planned
    <2>4. \A d \in DOMAIN venue.blocks :
              \A j \in 1..(d - 1) : venue.blocks[j].id # venue.blocks[d].id
      BY DEF Planned
    <2>1. /\ i \in Int /\ k \in Int /\ 1 <= i /\ 1 <= k
          /\ \A j \in 1..(i - 1) : venue.blocks[j].id # venue.blocks[i].id
          /\ \A j \in 1..(k - 1) : venue.blocks[j].id # venue.blocks[k].id
      BY <1>1, <1>2, <2>0, <2>4
    <2>2. CASE i < k
      <3>1. i \in 1..(k - 1)
        BY <2>1, <2>2
      <3> QED
        BY <1>1, <1>2, <2>1, <3>1
    <2>3. CASE k < i
      <3>1. k \in 1..(i - 1)
        BY <2>1, <2>3
      <3> QED
        BY <1>1, <1>2, <2>1, <3>1
    <2> QED
      BY <2>1, <2>2, <2>3
  <1> QED
    BY <1>1, <1>3

\* The seat is looked up in its own block, and lies within the venue.
LEMMA ResolvingPreserves ==
  ASSUME VenueInv, Resolve
  PROVE  VenueInv'
  <1>1. /\ finding = "read"
        /\ venue' = venue /\ seatRef' = seatRef /\ ticket' = ticket /\ heard' = heard
    BY DEF Resolve
  <1>2. /\ String(seatRef)' = String(seatRef) /\ (VenueOK(venue)' <=> VenueOK(venue))
        /\ Exists(heard)' <=> Exists(heard)
    BY <1>1, SameVenue
  <1>3. /\ venue \in Plan /\ seatRef \in Ref /\ VenueOK(venue)
        /\ ticket = String(seatRef) => heard = seatRef
    BY <1>1 DEF VenueInv
  <1>4. CASE Exists(heard)
    <2> DEFINE i == CHOOSE j \in DOMAIN venue.blocks : venue.blocks[j].id = heard.block
               p == SeatWorld(venue.blocks[i], heard.row, heard.seat)
    <2>1. /\ seatPos' = [axis \in 1..3 |->
                 NormAxis(p[axis], Bounds(axis)[1], Bounds(axis)[2])]
          /\ finding' = "seated"
      BY <1>4 DEF Resolve
    <2>2. Planned
      BY <1>3, AcceptedIsPlanned
    <2>3. /\ i \in DOMAIN venue.blocks
          /\ heard.row \in 1..venue.blocks[i].rows
          /\ heard.seat \in 1..SeatsInRow(venue.blocks[i], heard.row)
      <3> HIDE DEF i
      <3>1. i = CHOOSE j \in DOMAIN venue.blocks : venue.blocks[j].id = heard.block
        BY DEF i
      <3> QED
        BY <1>4, <2>2, <3>1, BlockFound
    <2> HIDE DEF i
    <2>4. ASSUME NEW axis \in 1..3
          PROVE  seatPos'[axis][1] \in 0..seatPos'[axis][2]
      <3>1. /\ Bounds(axis)[1] \in Int /\ Bounds(axis)[2] \in Int
            /\ p[axis] \in Bounds(axis)[1]..Bounds(axis)[2]
        BY <2>2, <2>3, SeatWithin
      <3>2. seatPos'[axis] = NormAxis(p[axis], Bounds(axis)[1], Bounds(axis)[2])
        BY <2>1
      <3> QED
        BY <3>1, <3>2, NormWithin
    <2> HIDE DEF p
    <2> QED
      BY <1>1, <1>2, <1>3, <1>4, <2>1, <2>4 DEF VenueInv
  <1>5. CASE ~Exists(heard)
    <2>1. seatPos' = <<>> /\ finding' = "unknown"
      BY <1>5 DEF Resolve
    <2> QED
      BY <1>1, <1>2, <1>3, <1>5, <2>1 DEF VenueInv
  <1> QED
    BY <1>4, <1>5

\* Every step keeps it so.
LEMMA VenueInductive ==
  ASSUME VenueInv, [VenueNext]_venueVars
  PROVE  VenueInv'
  <1>1. CASE ValidateVenue
    <2>1. /\ venue' = venue /\ seatRef' = seatRef /\ ticket' = ticket /\ heard' = heard
          /\ seatPos' = seatPos /\ finding = "uploaded"
          /\ finding' = IF VenueOK(venue) THEN "planned" ELSE "refused"
      BY <1>1 DEF ValidateVenue
    <2>2. VenueOK(venue)' <=> VenueOK(venue)
      BY <2>1, SameVenue
    <2> QED
      BY <2>1, <2>2 DEF VenueInv
  <1>2. CASE WriteTicket
    <2>1. /\ venue' = venue /\ seatRef' = seatRef /\ heard' = heard
          /\ seatPos' = seatPos /\ finding = "planned" /\ finding' \in {"written", "typed"}
      BY <1>2 DEF WriteTicket
    <2>2. VenueOK(venue)' <=> VenueOK(venue)
      BY <2>1, SameVenue
    <2> QED
      BY <2>1, <2>2 DEF VenueInv
  <1>3. CASE ParseSeatRef
    BY <1>3, ReadingPreserves
  <1>4. CASE Resolve
    BY <1>4, ResolvingPreserves
  <1>5. CASE UNCHANGED venueVars
    <2>1. /\ venue' = venue /\ seatRef' = seatRef /\ ticket' = ticket /\ heard' = heard
          /\ seatPos' = seatPos /\ finding' = finding
      BY <1>5 DEF venueVars
    <2>2. /\ String(seatRef)' = String(seatRef) /\ (VenueOK(venue)' <=> VenueOK(venue))
          /\ Exists(heard)' <=> Exists(heard)
      BY <2>1, SameVenue
    <2> QED
      BY <2>1, <2>2 DEF VenueInv
  <1> QED
    BY <1>1, <1>2, <1>3, <1>4, <1>5 DEF VenueNext

\* A seat of any accepted plan comes back from its ticket as it was and is found
\* exactly when the plan has it, and a phone that knows its place takes it to lie
\* within the venue on every axis, whatever the blocks, their rows and their arcs.
THEOREM SeatsComeBack == VenueSpec => []SeatsSurvive
  <1>1. VenueInit => VenueInv
    BY DEF VenueInit, VenueInv
  <1>2. VenueInv /\ [VenueNext]_venueVars => VenueInv'
    BY VenueInductive
  <1>3. VenueInv => SeatsSurvive
    <2> SUFFICES ASSUME VenueInv PROVE SeatsSurvive
      OBVIOUS
    <2>1. finding \in {"seated", "unknown"} /\ ticket = String(seatRef) =>
              heard = seatRef /\ (finding = "seated") = Exists(seatRef)
      <3> SUFFICES ASSUME finding \in {"seated", "unknown"}, ticket = String(seatRef)
                   PROVE  heard = seatRef /\ (finding = "seated") = Exists(seatRef)
        OBVIOUS
      <3>1. heard = seatRef
        BY DEF VenueInv
      <3>2. Exists(heard) = Exists(seatRef) /\ Exists(heard) \in BOOLEAN
        BY <3>1 DEF Exists
      <3>3. CASE finding = "seated"
        <4>1. Exists(heard)
          BY <3>3 DEF VenueInv
        <4> QED
          BY <3>1, <3>2, <3>3, <4>1
      <3>4. CASE finding = "unknown"
        <4>1. ~Exists(heard)
          BY <3>4 DEF VenueInv
        <4> QED
          BY <3>1, <3>2, <3>4, <4>1
      <3> QED
        BY <3>3, <3>4
    <2> QED
      BY <2>1 DEF VenueInv, SeatsSurvive
  <1> QED
    BY <1>1, <1>2, <1>3, PTL DEF VenueSpec

-----------------------------------------------------------------------------
(* Shows.                                                                   *)

\* Quotient and remainder, as facts to cite.
LEMMA DivMod ==
  ASSUME NEW n \in Int, NEW m \in Nat \ {0}
  PROVE  /\ n \div m \in Int /\ n % m \in 0..(m - 1)
         /\ n = (n \div m) * m + (n % m)
  OBVIOUS

\* Quotient and remainder are the only ones.
LEMMA DivModUnique ==
  ASSUME NEW m \in Nat \ {0}, NEW q \in Int, NEW p \in Int,
         NEW r \in 0..(m - 1), NEW s \in 0..(m - 1), q * m + r = p * m + s
  PROVE  q = p /\ r = s
  <1>1. CASE q < p
    <2>1. (p - q) * m >= 1 * m
      BY <1>1
    <2> QED
      BY <2>1
  <1>2. CASE p < q
    <2>1. (q - p) * m >= 1 * m
      BY <1>2
    <2> QED
      BY <2>1
  <1> QED
    BY <1>1, <1>2

\* The remainder d later.
LEMMA ModAhead ==
  ASSUME NEW n \in Int, NEW m \in Nat \ {0}, NEW d \in 0..(m - 1)
  PROVE  (n + d) % m = IF (n % m) + d < m THEN (n % m) + d ELSE (n % m) + d - m
  <1> DEFINE q == n \div m
             r == n % m
             p == (n + d) \div m
             s == (n + d) % m
  <1>1. q \in Int /\ r \in 0..(m - 1) /\ n = q * m + r
    BY DivMod
  <1>2. p \in Int /\ s \in 0..(m - 1) /\ n + d = p * m + s
    <2>1. n + d \in Int
      OBVIOUS
    <2> QED
      BY <2>1, DivMod
  <1> HIDE DEF q, r, p, s
  <1> DEFINE v == q * m
             w == p * m
  <1>3. v \in Int /\ w \in Int /\ (q + 1) * m = v + m
    BY <1>1, <1>2
  <1>4. n = v + r /\ n + d = w + s
    BY <1>1, <1>2
  <1>5. CASE r + d < m
    <2>1. r + d \in 0..(m - 1)
      BY <1>1, <1>5
    <2>2. q * m + (r + d) = p * m + s
      <3> HIDE DEF v, w
      <3>1. v + (r + d) = w + s
        BY <1>1, <1>2, <1>3, <1>4
      <3> QED
        BY <3>1 DEF v, w
    <2>3. r + d = s
      <3> HIDE DEF v, w
      <3> QED
        BY <1>1, <1>2, <2>1, <2>2, DivModUnique
    <2> QED
      BY <1>5, <2>3 DEF r, s
  <1>6. CASE ~(r + d < m)
    <2>1. r + d - m \in 0..(m - 1)
      BY <1>1, <1>6
    <2>2. (q + 1) * m + (r + d - m) = p * m + s
      <3> HIDE DEF w
      <3>1. v + m + (r + d - m) = w + s
        <4> HIDE DEF v
        <4> QED
          BY <1>1, <1>2, <1>3, <1>4
      <3>2. (q + 1) * m + (r + d - m) = v + m + (r + d - m)
        <4> HIDE DEF v
        <4> QED
          BY <1>3
      <3> QED
        BY <3>1, <3>2, Zenon DEF w
    <2>3. r + d - m = s
      <3> DEFINE a == q + 1
                 b == r + d - m
      <3>1. a \in Int
        BY <1>1
      <3> HIDE DEF v, w, a, b
      <3>2. a * m + b = p * m + s /\ b \in 0..(m - 1)
        BY <2>1, <2>2, Zenon DEF a, b
      <3>3. b = s
        BY <1>2, <3>1, <3>2, DivModUnique
      <3> QED
        BY <3>3 DEF b
    <2> QED
      BY <1>6, <2>3 DEF r, s
  <1> QED
    BY <1>5, <1>6

\* A number between two multiples has its quotient between them.
LEMMA DivBounds ==
  ASSUME NEW n \in Int, NEW m \in Nat \ {0}, NEW a \in Int, NEW b \in Int,
         a * m <= n, n < b * m
  PROVE  n \div m \in a..(b - 1)
  OBVIOUS

\* Numbers a divisor apart have quotients that differ.
LEMMA DivApart ==
  ASSUME NEW n \in Int, NEW k \in Int, NEW m \in Nat \ {0}, k - n >= m
  PROVE  n \div m < k \div m
  OBVIOUS

\* A larger number has no smaller multiple.
LEMMA ProductGrows ==
  ASSUME NEW n \in Int, NEW k \in Int, NEW m \in Nat, n <= k
  PROVE  n * m <= k * m
  OBVIOUS

\* An effect's colour is another at s than just before.
Turns(e, color, seat, s) ==
    EvalEffect(e, color, seat, s) # EvalEffect(e, color, seat, s - 1)

\* The colours of a cycle change when a period begins.
LEMMA CycleApart ==
  ASSUME NEW e, e.period \in Int, e.period = 0 \/ e.period >= MinEffectPeriod,
         NEW s \in Nat \ {0}, NEW t \in Nat, s < t,
         EvalCycle(e, s) # EvalCycle(e, s - 1), EvalCycle(e, t) # EvalCycle(e, t - 1)
  PROVE  t - s >= MinEffectPeriod
  <1> DEFINE p == e.period
  <1>1. MinEffectPeriod \in Nat \ {0}
    BY ManifestAssumption
  <1>2. p \in Nat \ {0} /\ p >= MinEffectPeriod
    <2>1. ~(p <= 0)
      BY DEF EvalCycle
    <2> HIDE DEF p
    <2>2. p \in Int /\ (p = 0 \/ p >= MinEffectPeriod)
      BY DEF p
    <2> QED
      BY <1>1, <2>1, <2>2
  <1>3. s \div p # (s - 1) \div p /\ t \div p # (t - 1) \div p
    BY DEF EvalCycle
  <1> HIDE DEF p
  <1>4. ASSUME NEW n \in Nat \ {0}, n \div p # (n - 1) \div p
        PROVE  n % p = 0
    <2> DEFINE q == n \div p
               r == n % p
               x == (n - 1) \div p
               y == (n - 1) % p
               z == q * p
    <2>0. n \in Int /\ n - 1 \in Int /\ p \in Nat \ {0}
      BY <1>2
    <2>1. q \in Int /\ r \in 0..(p - 1) /\ n = q * p + r
      BY <2>0, DivMod, Zenon
    <2>2. x \in Int /\ y \in 0..(p - 1) /\ n - 1 = x * p + y
      BY <2>0, DivMod, Zenon
    <2>3. z \in Int
      BY <1>2, <2>1
    <2>4. SUFFICES ASSUME r # 0 PROVE FALSE
      OBVIOUS
    <2> HIDE DEF q, r, x, y, z
    <2>5. n = z + r
      BY <2>1 DEF z
    <2>6. r - 1 \in 0..(p - 1) /\ n - 1 = z + (r - 1)
      BY <1>2, <2>1, <2>3, <2>4, <2>5
    <2>7. q * p + (r - 1) = x * p + y
      BY <2>2, <2>6, Zenon DEF z
    <2>8. q = x
      BY <1>2, <2>1, <2>2, <2>6, <2>7, DivModUnique
    <2> QED
      BY <1>4, <2>8 DEF q, x
  <1>5. s % p = 0 /\ t % p = 0
    BY <1>3, <1>4
  <1>6. SUFFICES ASSUME t - s < p PROVE FALSE
    BY <1>1, <1>2
  <1> DEFINE d == t - s
  <1>7. d \in 0..(p - 1) /\ d > 0 /\ s + d = t /\ s \in Int
    BY <1>2, <1>6
  <1> HIDE DEF d
  <1>8. (s + d) % p = IF (s % p) + d < p THEN (s % p) + d ELSE (s % p) + d - p
    BY <1>2, <1>7, ModAhead
  <1> QED
    BY <1>2, <1>5, <1>7, <1>8

\* Whether the front of a sweep is near enough.
LitBy(x, w, p, r) ==
    LET d == Dist(x, 8 * r)
        wrapped == IF 2 * d > 8 * p THEN 8 * p - d ELSE d
    IN  2 * wrapped <= w

NextIn(r, p) == IF r + 1 < p THEN r + 1 ELSE r + 1 - p

\* The moments of a turn at which it is are one arc of it.
LEMMA OneArc ==
  ASSUME NEW p \in Nat, p >= 2, NEW x \in 0..(8 * p), NEW w \in 0..(8 * p),
         NEW a \in 0..(p - 1), NEW b \in 0..(p - 1),
         LitBy(x, w, p, NextIn(a, p)) # LitBy(x, w, p, a),
         LitBy(x, w, p, NextIn(b, p)) # LitBy(x, w, p, b),
         LitBy(x, w, p, a) = LitBy(x, w, p, b)
  PROVE  a = b
  BY SMTT(60) DEF LitBy, NextIn, Dist

\* A wave that turns to one colour twice takes a period for it.
LEMMA WaveApart ==
  ASSUME NEW e, NEW c, NEW seat, e.period \in Int, e.period >= MinEffectPeriod,
         e.width \in 0..8, AxisPos(e, seat) \in 0..8,
         NEW s \in Nat \ {0}, NEW t \in Nat, s < t,
         EvalWave(e, c, seat, s) # EvalWave(e, c, seat, s - 1),
         EvalWave(e, c, seat, t) # EvalWave(e, c, seat, t - 1),
         EvalWave(e, c, seat, s) = EvalWave(e, c, seat, t)
  PROVE  t - s >= MinEffectPeriod
  <1> DEFINE p == e.period
             x == AxisPos(e, seat) * p
             w == e.width * p
             d == t - s
             a == (s - 1) % p
             b == (t - 1) % p
  <1>1. MinEffectPeriod \in Nat \ {0}
    BY ManifestAssumption
  <1>2. SUFFICES ASSUME d < p PROVE FALSE
    BY <1>1
  <1>3. p \in Nat /\ p \in Nat \ {0} /\ p >= 2 /\ d \in 0..(p - 1) /\ d > 0 /\ 1 \in 0..(p - 1)
        /\ (s - 1) + d = t - 1 /\ s - 1 \in Int /\ t - 1 \in Int
        /\ (s - 1) + 1 = s /\ (t - 1) + 1 = t
    <2>1. p \in Int
      OBVIOUS
    <2> HIDE DEF p
    <2> QED
      BY <1>1, <1>2, <2>1
  <1>4. x \in 0..(8 * p) /\ w \in 0..(8 * p)
    BY <1>3
  <1>5. \A n : EvalWave(e, c, seat, n) = IF LitBy(x, w, p, n % p) THEN c ELSE e.color2
    BY DEF EvalWave, LitBy
  <1>6. /\ LitBy(x, w, p, s % p) # LitBy(x, w, p, a)
        /\ LitBy(x, w, p, t % p) # LitBy(x, w, p, b)
        /\ LitBy(x, w, p, a) = LitBy(x, w, p, b)
    <2>1. \A r : LitBy(x, w, p, r) \in BOOLEAN
      BY DEF LitBy
    <2> HIDE DEF x, w, p
    <2> QED
      BY <1>5, <2>1
  <1> HIDE DEF p, x, w, d
  <1>7. a \in 0..(p - 1) /\ b \in 0..(p - 1)
    BY <1>3, DivMod, Zenon
  <1>8. s % p = NextIn(a, p) /\ t % p = NextIn(b, p)
    <2>1. ((s - 1) + 1) % p = IF a + 1 < p THEN a + 1 ELSE a + 1 - p
      BY <1>3, ModAhead, Zenon
    <2>2. ((t - 1) + 1) % p = IF b + 1 < p THEN b + 1 ELSE b + 1 - p
      BY <1>3, ModAhead, Zenon
    <2> QED
      BY <1>3, <2>1, <2>2, Zenon DEF NextIn
  <1>9. ((s - 1) + d) % p = IF a + d < p THEN a + d ELSE a + d - p
    BY <1>3, ModAhead, Zenon
  <1>10. a = b
    <2> HIDE DEF a, b
    <2> QED
      BY <1>3, <1>4, <1>6, <1>7, <1>8, OneArc
  <1>11. b = IF a + d < p THEN a + d ELSE a + d - p
    BY <1>3, <1>9
  <1> HIDE DEF a, b
  <1> QED
    BY <1>3, <1>7, <1>10, <1>11

-----------------------------------------------------------------------------
\* A larger number has no smaller quotient.
LEMMA DivMono ==
  ASSUME NEW n \in Int, NEW k \in Int, NEW m \in Nat \ {0}, n <= k
  PROVE  n \div m <= k \div m
  OBVIOUS

\* Numbers whose quotients are two apart are more than a divisor apart.
LEMMA DivFar ==
  ASSUME NEW n \in Int, NEW k \in Int, NEW m \in Nat \ {0},
         (n \div m) + 2 <= k \div m
  PROVE  k - n > m
  <1>1. ((n \div m) + 2) * m <= (k \div m) * m
    BY ProductGrows
  <1>2. (n \div m) * m + m > n /\ (k \div m) * m <= k
    OBVIOUS
  <1> QED
    BY <1>1, <1>2

\* So many divisors more are as many quotients more.
LEMMA DivShift ==
  ASSUME NEW n \in Int, NEW j \in Int, NEW m \in Nat \ {0}
  PROVE  (n + j * m) \div m = (n \div m) + j
  OBVIOUS

\* How far along the picture a seat is, y from its edge, and which column that is.
AlongAt(y, a, p, n) ==
    LET at == y * p + (n % p) * a
    IN  IF at >= a * p THEN at - a * p ELSE at

ColumnAt(y, a, p, cols, n) ==
    Clamp((AlongAt(y, a, p, n) * cols) \div (a * p), cols - 1)

\* The column follows from how far the picture has been scrolled, turn after turn.
LEMMA ColumnOf ==
  ASSUME NEW a \in Nat \ {0}, NEW p \in Nat \ {0}, NEW y \in 0..a,
         NEW cols \in Nat \ {0}, NEW n \in Int
  PROVE  ColumnAt(y, a, p, cols, n) = (((y * p + n * a) * cols) \div (a * p)) % cols
  <1> DEFINE q == n \div p
             r == n % p
             full == a * p
             here == AlongAt(y, a, p, n)
             yp == y * p
             ra == r * a
             na == n * a
             qf == q * full
  <1>1. q \in Int /\ r \in 0..(p - 1) /\ n = q * p + r
    BY DivMod
  <1>2. full \in Nat \ {0} /\ yp \in 0..full /\ ra \in 0..(full - a)
        /\ na \in Int /\ qf \in Int
    <2>1. full \in Nat \ {0} /\ yp \in Nat /\ na \in Int
      BY SMT
    <2>2. yp <= full
      BY ProductGrows
    <2>3. ra \in Nat
      <3> HIDE DEF r
      <3> QED
        BY <1>1
    <2>4. ra <= (p - 1) * a
      <3> HIDE DEF r
      <3>1. r <= p - 1 /\ r \in Int /\ p - 1 \in Int /\ a \in Nat
        BY <1>1
      <3> QED
        BY <3>1, ProductGrows
    <2>5. (p - 1) * a = full - a
      OBVIOUS
    <2>6. qf \in Int
      <3> HIDE DEF full
      <3> QED
        BY <1>1, <2>1
    <2> HIDE DEF full, yp, ra, na, qf
    <2> QED
      BY <2>1, <2>2, <2>3, <2>4, <2>5, <2>6
  <1>3. na = qf + ra
    <2> HIDE DEF q, r
    <2>1. n * a = (q * p + r) * a
      BY <1>1
    <2>2. (q * p + r) * a = q * (a * p) + r * a
      BY <1>1
    <2> QED
      BY <2>1, <2>2
  <1>4. here = IF yp + ra >= full THEN yp + ra - full ELSE yp + ra
    BY DEF AlongAt
  <1> DEFINE k == IF yp + ra >= full THEN q + 1 ELSE q
             kf == k * full
  <1>5. k \in Int /\ kf \in Int /\ kf = IF yp + ra >= full THEN qf + full ELSE qf
    <2> HIDE DEF q, full, yp, ra
    <2>1. (q + 1) * full = qf + full
      BY <1>1, <1>2
    <2> QED
      BY <1>1, <1>2, <2>1
  <1>6. here \in 0..(full - 1) /\ yp + na = here + kf
    <2> HIDE DEF q, r, full, here, yp, ra, na, qf, k, kf
    <2> QED
      BY <1>2, <1>3, <1>4, <1>5
  <1> DEFINE c == (here * cols) \div full
             hc == here * cols
  <1>7. hc \in Int /\ 0 * full <= hc /\ hc < cols * full
    <2> HIDE DEF full, here
    <2>1. hc \in Int /\ 0 <= hc
      BY <1>6
    <2>2. hc <= (full - 1) * cols
      <3>1. full - 1 \in Int /\ here \in Int /\ here <= full - 1
        BY <1>2, <1>6
      <3> QED
        BY <3>1, ProductGrows
    <2>3. (full - 1) * cols = cols * full - cols
      BY <1>2
    <2> DEFINE cf == cols * full
    <2>4. cf \in Int
      BY <1>2
    <2> HIDE DEF hc, cf
    <2>5. hc <= cf - cols
      BY <2>2, <2>3, Zenon DEF cf
    <2>6. hc < cf
      BY <2>1, <2>4, <2>5
    <2> QED
      BY <1>2, <2>1, <2>6 DEF cf
  <1>8. c \in 0..(cols - 1)
    <2> HIDE DEF full, here, hc
    <2>0. 0 \in Int /\ cols \in Int
      OBVIOUS
    <2>1. hc \div full \in 0..(cols - 1)
      BY <2>0, <1>2, <1>7, DivBounds, Zenon
    <2> QED
      BY <2>1 DEF hc
  <1>9. ColumnAt(y, a, p, cols, n) = c
    <2>1. ColumnAt(y, a, p, cols, n) = Clamp(c, cols - 1)
      BY DEF ColumnAt
    <2> HIDE DEF c
    <2> QED
      BY <1>8, <2>1 DEF Clamp
  <1>10. (yp + na) * cols = hc + (k * cols) * full
    <2> HIDE DEF full, here, yp, na, k
    <2>1. (here + kf) * cols = hc + (k * cols) * full
      BY <1>2, <1>5, <1>6
    <2> QED
      BY <1>6, <2>1
  <1>11. ((yp + na) * cols) \div full = c + k * cols
    <2> HIDE DEF full, here, yp, na, k, hc
    <2>1. k * cols \in Int
      BY <1>5
    <2>2. (hc + (k * cols) * full) \div full = (hc \div full) + k * cols
      BY <1>2, <1>7, <2>1, DivShift
    <2> QED
      BY <1>10, <2>2 DEF hc
  <1>12. (c + k * cols) % cols = c
    <2> DEFINE z == c + k * cols
    <2> HIDE DEF c, k
    <2>1. z \in Int
      BY <1>5, <1>8
    <2>2. z \div cols \in Int /\ z % cols \in 0..(cols - 1)
          /\ z = (z \div cols) * cols + (z % cols)
      <3> HIDE DEF z
      <3> QED
        BY <2>1, DivMod
    <2> DEFINE v == z \div cols
               u == z % cols
    <2>3. v * cols + u = k * cols + c
      <3>1. k * cols + c = z
        BY <1>5, <1>8
      <3> HIDE DEF z
      <3> QED
        BY <2>2, <3>1, Zenon
    <2> HIDE DEF v, u
    <2>4. u = c
      <3>1. v \in Int /\ u \in 0..(cols - 1)
        BY <2>2, Zenon DEF v, u
      <3> QED
        BY <1>5, <1>8, <2>3, <3>1, DivModUnique
    <2> QED
      BY <2>4 DEF u
  <1> QED
    <2> HIDE DEF c, k
    <2> QED
      BY <1>9, <1>11, <1>12, Zenon

\* The columns pass one by one, none faster than the limit.
LEMMA ColumnsApart ==
  ASSUME NEW a \in Nat \ {0}, NEW p \in Nat \ {0}, NEW y \in 0..a,
         NEW cols \in Nat \ {0}, ScrollOK(p, cols),
         NEW s \in Nat \ {0}, NEW t \in Nat, s < t,
         ColumnAt(y, a, p, cols, s) # ColumnAt(y, a, p, cols, s - 1),
         ColumnAt(y, a, p, cols, t) # ColumnAt(y, a, p, cols, t - 1)
  PROVE  t - s >= MinEffectPeriod
  <1> DEFINE m == MinEffectPeriod
             full == a * p
             yp == y * p
             Gone(n) == (yp + n * a) * cols
             Col(n) == Gone(n) \div full
  <1>0. m \in Nat \ {0} /\ p >= cols * m
    BY ManifestAssumption DEF ScrollOK
  <1> HIDE DEF m
  <1>1. full \in Nat \ {0} /\ yp \in Nat
    OBVIOUS
  <1>2. \A n \in Int : Gone(n) \in Int
    <2> TAKE n \in Int
    <2>1. n * a \in Int
      OBVIOUS
    <2> DEFINE z == yp + n * a
    <2>2. z \in Int
      BY <1>1, <2>1
    <2> HIDE DEF z
    <2> QED
      BY <2>2
  <1>3. \A n \in Int : ColumnAt(y, a, p, cols, n) = Col(n) % cols
    BY ColumnOf
  <1>4. ASSUME NEW n \in Int, NEW k \in Int, n <= k
        PROVE  Gone(n) <= Gone(k) /\ Col(n) <= Col(k)
    <2>1. n * a <= k * a /\ n * a \in Int /\ k * a \in Int
      BY <1>4, ProductGrows
    <2> DEFINE v == yp + n * a
               w == yp + k * a
    <2>2. v \in Int /\ w \in Int /\ v <= w
      BY <1>1, <2>1
    <2>3. v * cols <= w * cols
      <3> HIDE DEF v, w
      <3> QED
        BY <2>2, ProductGrows
    <2>4. Gone(n) \in Int /\ Gone(k) \in Int /\ Gone(n) <= Gone(k)
      BY <1>2, <1>4, <2>3
    <2> HIDE DEF Gone, full
    <2> QED
      BY <1>1, <2>4, DivMono
  <1>5. \A n \in Int : Col(n) \in Int
    <2> HIDE DEF Gone, full
    <2> QED
      BY <1>1, <1>2
  <1>6. Col(s - 1) # Col(s) /\ Col(t - 1) # Col(t)
    <2>1. s \in Int /\ s - 1 \in Int /\ t \in Int /\ t - 1 \in Int
      OBVIOUS
    <2> HIDE DEF Col
    <2> QED
      BY <1>3, <2>1
  <1>7. Col(s - 1) + 2 <= Col(t)
    <2>1. /\ s \in Int /\ s - 1 \in Int /\ t \in Int /\ t - 1 \in Int
          /\ s - 1 <= s /\ s <= t - 1 /\ t - 1 <= t
      OBVIOUS
    <2>2. Col(s - 1) <= Col(s) /\ Col(s) <= Col(t - 1) /\ Col(t - 1) <= Col(t)
      BY <1>4, <2>1
    <2>3. Col(s - 1) \in Int /\ Col(s) \in Int /\ Col(t - 1) \in Int /\ Col(t) \in Int
      BY <1>5, <2>1
    <2> HIDE DEF Col
    <2> QED
      BY <1>6, <2>2, <2>3
  <1>8. Gone(t) - Gone(s - 1) > full
    <2>1. Gone(t) \in Int /\ Gone(s - 1) \in Int
      BY <1>2
    <2> HIDE DEF Gone, full
    <2> QED
      BY <1>1, <1>7, <2>1, DivFar
  <1> DEFINE d == t - s + 1
  <1>9. Gone(t) - Gone(s - 1) = (d * cols) * a
    OBVIOUS
  <1>10. SUFFICES ASSUME d <= m PROVE FALSE
    BY <1>0 DEF m
  <1>11. d \in Nat
    OBVIOUS
  <1> HIDE DEF d
  <1>12. d * cols <= p
    <2>1. d * cols <= m * cols
      BY <1>0, <1>10, <1>11, ProductGrows
    <2>2. d * cols \in Int /\ m * cols = cols * m /\ cols * m \in Int
      BY <1>0, <1>11
    <2> QED
      BY <1>0, <2>1, <2>2
  <1>13. (d * cols) * a <= p * a
    <2> DEFINE v == d * cols
    <2>1. v \in Int
      BY <1>11
    <2> HIDE DEF v
    <2>2. v <= p
      BY <1>12 DEF v
    <2>3. v * a <= p * a
      BY <2>1, <2>2, ProductGrows
    <2> QED
      BY <2>3 DEF v
  <1>14. p * a = full
    OBVIOUS
  <1> QED
    <2> DEFINE v == (d * cols) * a
    <2>1. v \in Int
      BY <1>11
    <2> HIDE DEF v, full, Gone
    <2>2. v > full
      BY <1>8, <1>9, Zenon DEF v
    <2>3. v <= full
      BY <1>13, <1>14, Zenon DEF v
    <2> QED
      BY <1>1, <2>1, <2>2, <2>3

\* A seat at a place.
SeatOK(seat) == seat.u \in 0..8 /\ seat.v \in 0..8 /\ seat.w \in 0..8

\* A seat is somewhere between the ends of any axis of an effect.
LEMMA AxisPosRange ==
  ASSUME NEW e, NEW seat, SeatOK(seat)
  PROVE  AxisPos(e, seat) \in 0..8
  <1>1. Turn(seat.u, seat.v) \in 0..7
    <2> DEFINE around == <<<<1, 0>>, <<1, 1>>, <<0, 1>>, <<-1, 1>>, <<-1, 0>>, <<-1, -1>>,
                           <<0, -1>>, <<1, -1>>>>
               there == {k \in 1..8 : around[k] = <<Sign(seat.u - 4), Sign(seat.v - 4)>>}
    <2>1. Turn(seat.u, seat.v) = IF there = {} THEN 0 ELSE (CHOOSE k \in there : TRUE) - 1
      BY DEF Turn
    <2>2. \A k \in there : k \in 1..8
      OBVIOUS
    <2> HIDE DEF there
    <2>3. CASE there = {}
      BY <2>1, <2>3
    <2>4. CASE there # {}
      <3>1. (CHOOSE k \in there : TRUE) \in there
        BY <2>4
      <3> QED
        BY <2>1, <2>2, <2>4, <3>1
    <2> QED
      BY <2>3, <2>4
  <1> DEFINE p == IF e.axis = "v" THEN seat.v
                  ELSE IF e.axis = "w" THEN seat.w
                  ELSE IF e.axis = "ring" THEN Turn(seat.u, seat.v)
                  ELSE seat.u
  <1>2. p \in 0..8
    BY <1>1 DEF SeatOK
  <1>3. AxisPos(e, seat) = IF e.reverse THEN 8 - p ELSE p
    BY DEF AxisPos
  <1> HIDE DEF p
  <1> QED
    BY <1>2, <1>3

\* A bitmap turns at a seat once a period.
LEMMA BitmapApart ==
  ASSUME NEW e, NEW seat, SeatOK(seat), EffectTyped(e), e # <<>>, BitmapOK(e),
         NEW s \in Nat \ {0}, NEW t \in Nat, s < t,
         EvalBitmap(e, seat, s) # EvalBitmap(e, seat, s - 1),
         EvalBitmap(e, seat, t) # EvalBitmap(e, seat, t - 1)
  PROVE  t - s >= MinEffectPeriod
  <1> DEFINE area == IF e.area = <<>> THEN [u0 |-> 0, w0 |-> 0, u1 |-> 8, w1 |-> 8]
                     ELSE e.area
             a == area.u1 - area.u0
             p == AxisPos(e, seat)
             y == p - area.u0
             cols == Len(e.bitmap.rows[1])
             rows == Len(e.bitmap.rows)
             row == Clamp(((area.w1 - seat.w) * rows) \div (area.w1 - area.w0), rows - 1)
             turn == IF e.period > 0 THEN e.period ELSE 1
             wide == a * turn
             At(n) == y * turn + IF e.period > 0 THEN (n % turn) * a ELSE 0
             Along(n) == IF e.period > 0 /\ At(n) >= wide THEN At(n) - wide ELSE At(n)
             Col(n) == Clamp((Along(n) * cols) \div wide, cols - 1)
             Point(col) == IF p < area.u0 \/ p > area.u1 \/ seat.w < area.w0
                              \/ seat.w > area.w1 \/ e.bitmap.rows[row + 1][col + 1] = Dot
                           THEN Off
                           ELSE e.bitmap.palette[e.bitmap.rows[row + 1][col + 1] + 1]
  <1>1. MinEffectPeriod \in Nat \ {0}
    BY ManifestAssumption
  <1>2. /\ area.u0 \in Int /\ area.u1 \in Int /\ area.w0 \in Int /\ area.w1 \in Int
        /\ 0 <= area.u0 /\ area.u0 < area.u1 /\ area.u1 <= 8
    <2>1. CASE e.area = <<>>
      BY <2>1
    <2>2. CASE e.area # <<>>
      BY <2>2 DEF EffectTyped, BitmapOK, AreaOK
    <2> QED
      BY <2>1, <2>2
  <1>3. cols \in Nat \ {0} /\ e.period \in Int
        /\ ScrollOK(e.period, cols)
    BY DEF BitmapOK, EffectTyped
  <1>4. p \in 0..8
    BY AxisPosRange
  <1>5. \A n : EvalBitmap(e, seat, n) = Point(Col(n))
    BY Zenon DEF EvalBitmap
  <1>6. CASE e.period <= 0
    <2>1. \A n : At(n) = y * turn + 0
      <3> HIDE DEF y, turn, a
      <3> QED
        BY <1>3, <1>6
    <2>2. \A n : Col(n) = Col(0)
      <3> HIDE DEF At, wide, cols
      <3> QED
        BY <2>1, Zenon
    <2>3. Col(s) = Col(s - 1)
      <3> HIDE DEF Col
      <3> QED
        BY <2>2, Zenon
    <2>4. Point(Col(s)) = Point(Col(s - 1))
      <3> HIDE DEF Col, Point
      <3> QED
        BY <2>3, Zenon
    <2> QED
      <3> HIDE DEF Col, Point
      <3> QED
        BY <1>5, <2>4, Zenon
  <1>7. CASE e.period > 0
    <2>1. \A n : Col(n) = ColumnAt(y, a, e.period, cols, n)
      <3>1. turn = e.period
        BY <1>7
      <3> HIDE DEF y, a, cols, turn
      <3> QED
        BY <1>7, <3>1 DEF ColumnAt, AlongAt
    <2>2. Col(s) # Col(s - 1) /\ Col(t) # Col(t - 1)
      <3> HIDE DEF Col, Point
      <3> QED
        BY <1>5
    <2>3. ~(p < area.u0 \/ p > area.u1)
      <3> HIDE DEF Col, p, area, row
      <3> QED
        BY <1>5
    <2>4. a \in Nat \ {0} /\ y \in 0..a
      <3> HIDE DEF area, p
      <3> QED
        BY <1>2, <1>4, <2>3
    <2> HIDE DEF Point, Col, y, a, cols, area
    <2>5. e.period \in Nat \ {0} /\ ScrollOK(e.period, cols)
      BY <1>3, <1>7
    <2>6. /\ ColumnAt(y, a, e.period, cols, s) # ColumnAt(y, a, e.period, cols, s - 1)
          /\ ColumnAt(y, a, e.period, cols, t) # ColumnAt(y, a, e.period, cols, t - 1)
      BY <2>1, <2>2
    <2>7. cols \in Nat \ {0}
      BY <1>3
    <2>8. a \in Nat \ {0} /\ y \in 0..a
      BY <2>4
    <2> DEFINE per == e.period
    <2>9. /\ per \in Nat \ {0} /\ ScrollOK(per, cols)
          /\ ColumnAt(y, a, per, cols, s) # ColumnAt(y, a, per, cols, s - 1)
          /\ ColumnAt(y, a, per, cols, t) # ColumnAt(y, a, per, cols, t - 1)
      BY <2>5, <2>6
    <2> HIDE DEF per
    <2>10. s \in Nat \ {0} /\ t \in Nat /\ s < t
      OBVIOUS
    <2> QED
      BY <2>8, <2>7, <2>9, <2>10, ColumnsApart
  <1> QED
    BY <1>3, <1>6, <1>7

\* However an effect is made up that validation lets through: a seat's light turns to
\* one colour twice in no less than the shortest period.
LEMMA TurnsApart ==
  ASSUME NEW e, NEW lane, NEW blocks, NEW color, NEW seat,
         EffectOK(e, lane, blocks), EffectTyped(e), e # <<>>, SeatOK(seat),
         NEW s \in Nat \ {0}, NEW t \in Nat, s < t,
         Turns(e, color, seat, s), Turns(e, color, seat, t),
         EvalEffect(e, color, seat, s) = EvalEffect(e, color, seat, t)
  PROVE  t - s >= MinEffectPeriod
  <1>1. ~Excluded(e, seat)
    BY DEF Turns, EvalEffect
  <1>2. e.period \in Int /\ e.width \in Int
    BY DEF EffectTyped
  <1>3. CASE e.kind = "wave" /\ WaveOK(e)
    <2>1. e.width \in 0..8 /\ e.period >= MinEffectPeriod /\ AxisPos(e, seat) \in 0..8
      BY <1>2, <1>3, AxisPosRange DEF WaveOK
    <2>2. \A n : EvalEffect(e, color, seat, n) = EvalWave(e, color, seat, n)
      BY <1>1, <1>3 DEF EvalEffect
    <2>3. /\ EvalWave(e, color, seat, s) # EvalWave(e, color, seat, s - 1)
          /\ EvalWave(e, color, seat, t) # EvalWave(e, color, seat, t - 1)
          /\ EvalWave(e, color, seat, s) = EvalWave(e, color, seat, t)
      BY <2>2 DEF Turns
    <2> QED
      BY <1>2, <2>1, <2>3, WaveApart
  <1>4. CASE e.kind = "gradient"
    <2>1. \A n : EvalEffect(e, color, seat, n)
                     = LerpColor(color, e.color2, AxisPos(e, seat))
      BY <1>1, <1>4 DEF EvalEffect
    <2> QED
      BY <2>1 DEF Turns
  <1>5. CASE e.kind = "bitmap" /\ BitmapOK(e)
    <2>1. \A n : EvalEffect(e, color, seat, n) = EvalBitmap(e, seat, n)
      BY <1>1, <1>5 DEF EvalEffect
    <2>2. /\ EvalBitmap(e, seat, s) # EvalBitmap(e, seat, s - 1)
          /\ EvalBitmap(e, seat, t) # EvalBitmap(e, seat, t - 1)
      BY <2>1 DEF Turns
    <2> QED
      BY <1>5, <2>2, BitmapApart
  <1>6. CASE e.kind = "cycle" /\ CycleOK(e, lane)
    <2>1. \A n : EvalEffect(e, color, seat, n) = EvalCycle(e, n)
      BY <1>1, <1>6 DEF EvalEffect
    <2>2. EvalCycle(e, s) # EvalCycle(e, s - 1) /\ EvalCycle(e, t) # EvalCycle(e, t - 1)
      BY <2>1 DEF Turns
    <2>3. e.period = 0 \/ e.period >= MinEffectPeriod
      BY <1>6 DEF CycleOK
    <2> QED
      BY <1>2, <2>2, <2>3, CycleApart
  <1> QED
    BY <1>3, <1>4, <1>5, <1>6 DEF EffectOK

-----------------------------------------------------------------------------
\* What is played: an effect that validation has let through, seen from a seat.
PlayedOK(p) ==
    /\ SeatOK(p.seat)
    /\ p.cue.effect # <<>> /\ EffectTyped(p.cue.effect)
    /\ \E blocks : EffectOK(p.cue.effect, p.lane, blocks)

Dye(p) == IF p.lane = "torch" THEN 255 ELSE p.cue.color

\* What validation knows of a manifest that is valid.
Valid(m) == SequencesOK(m) /\ ProgramOK(m)

TypedShow(m) ==
    /\ DOMAIN m.program = 1..Len(m.program) /\ Len(m.program) \in Nat
    /\ \A n \in DOMAIN m.program : m.program[n].at \in Int
    /\ \A i \in DOMAIN m.sequences :
        /\ m.sequences[i].duration \in Int
        /\ \A l \in DOMAIN m.sequences[i].lanes :
            \A c \in DOMAIN m.sequences[i].lanes[l].cues :
                EffectTyped(m.sequences[i].lanes[l].cues[c].effect)

\* An onset is a moment of the last second at which the light turned to its colour.
OnsetOK(o) ==
    /\ o = [at |-> o.at, color |-> o.color]
    /\ o.at \in Nat \ {0} /\ o.at <= since /\ o.at > since - Second
    /\ Turns(playing.cue.effect, Dye(playing), playing.seat, o.at)
    /\ EvalEffect(playing.cue.effect, Dye(playing), playing.seat, o.at) = o.color

ShowInv ==
    /\ TypedShow(show)
    /\ verdict = "raw" => show \in Show
    /\ verdict = "valid" => Valid(show)
    /\ since \in Nat
    /\ playing = Nothing => onsets = {}
    /\ playing # Nothing => PlayedOK(playing)
    /\ \A o \in onsets : OnsetOK(o)

\* Turns that are apart are few in a second.
LEMMA FlashCount == ShowInv => FlashLimited
  <1> SUFFICES ASSUME ShowInv, NEW o \in onsets
               PROVE  Cardinality({n \in onsets : n.color = o.color}) <= MaxFlashHz
    BY DEF FlashLimited
  <1> DEFINE S == {n \in onsets : n.color = o.color}
             first == since - Second + 1
             m == MinEffectPeriod
             f == [n \in S |-> (n.at - first) \div m]
             T == 0..(MaxFlashHz - 1)
  <1>1. m \in Nat \ {0} /\ MaxFlashHz \in Nat \ {0} /\ Second \in Nat \ {0}
        /\ Second <= MaxFlashHz * m /\ since \in Nat /\ first \in Int
    BY ManifestAssumption DEF ShowInv
  <1>2. PlayedOK(playing)
    BY DEF ShowInv
  <1>3. ASSUME NEW n \in S PROVE n.at \in Nat \ {0} /\ n.at - first \in 0..(Second - 1)
    <2>1. n.at \in Nat \ {0} /\ n.at <= since /\ n.at > since - Second
      BY DEF ShowInv, OnsetOK
    <2> QED
      BY <1>1, <2>1
  <1>4. ASSUME NEW n \in S PROVE f[n] \in T
    <2> DEFINE x == n.at - first
    <2>1. x \in 0..(Second - 1)
      BY <1>3
    <2> HIDE DEF x, m
    <2>2. 0 * m <= x /\ x < MaxFlashHz * m /\ x \in Int /\ MaxFlashHz \in Int
      <3> DEFINE z == MaxFlashHz * m
      <3>1. z \in Int
        BY <1>1
      <3> HIDE DEF z
      <3>2. x < z
        BY <1>1, <2>1, <3>1 DEF z
      <3> QED
        BY <1>1, <2>1, <3>2 DEF z
    <2>3. x \div m \in 0..(MaxFlashHz - 1)
      BY <1>1, <2>2, DivBounds
    <2> QED
      BY <2>3 DEF x
  <1>5. ASSUME NEW k \in S, NEW n \in S, k.at < n.at PROVE n.at - k.at >= m
    <2> DEFINE e == playing.cue.effect
    <2>1. /\ Turns(e, Dye(playing), playing.seat, k.at)
          /\ Turns(e, Dye(playing), playing.seat, n.at)
          /\ EvalEffect(e, Dye(playing), playing.seat, k.at)
                 = EvalEffect(e, Dye(playing), playing.seat, n.at)
      BY DEF ShowInv, OnsetOK
    <2>2. k.at \in Nat \ {0} /\ n.at \in Nat
      BY <1>3
    <2>3. PICK blocks : EffectOK(e, playing.lane, blocks)
      BY <1>2 DEF PlayedOK
    <2>4. SeatOK(playing.seat) /\ e # <<>> /\ EffectTyped(e)
      BY <1>2 DEF PlayedOK
    <2> HIDE DEF e
    <2> QED
      BY <1>5, <2>1, <2>2, <2>3, <2>4, TurnsApart
  <1>6. ASSUME NEW k \in S, NEW n \in S, k.at < n.at PROVE f[k] < f[n]
    <2> DEFINE x == k.at - first
               y == n.at - first
    <2>1. x \in Int /\ y \in Int /\ y - x >= m
      <3>1. n.at - k.at >= m
        BY <1>5, <1>6
      <3> HIDE DEF m
      <3> QED
        BY <1>1, <1>3, <3>1
    <2> HIDE DEF x, y, m
    <2>2. x \div m < y \div m
      BY <1>1, <2>1, DivApart
    <2> QED
      BY <2>2 DEF x, y
  <1>7. ASSUME NEW k \in S, NEW n \in S, f[k] = f[n] PROVE k = n
    <2>1. k.at \in Nat /\ n.at \in Nat /\ f[k] \in Int /\ f[n] \in Int
      BY <1>3, <1>4
    <2>2. k.at = n.at
      <3> HIDE DEF f
      <3> QED
        BY <1>6, <1>7, <2>1
    <2>3. k = [at |-> k.at, color |-> k.color] /\ n = [at |-> n.at, color |-> n.color]
      BY DEF ShowInv, OnsetOK
    <2>4. k.color = n.color
      OBVIOUS
    <2> QED
      BY <2>2, <2>3, <2>4, Zenon
  <1>8. f \in Injection(S, T)
    <2>1. f \in [S -> T]
      BY <1>4
    <2> HIDE DEF f, S, T
    <2> QED
      BY <1>7, <2>1 DEF Injection, IsInjective
  <1>9. IsFiniteSet(T) /\ Cardinality(T) = MaxFlashHz
    <2>1. 0 \in Int /\ MaxFlashHz - 1 \in Int
      BY <1>1
    <2>2. IsFiniteSet(0..(MaxFlashHz - 1))
          /\ Cardinality(0..(MaxFlashHz - 1))
                = IF 0 > MaxFlashHz - 1 THEN 0 ELSE (MaxFlashHz - 1) - 0 + 1
      BY <2>1, FS_Interval
    <2> QED
      BY <1>1, <2>2
  <1>10. Cardinality(S) <= Cardinality(T)
    <2> HIDE DEF f, S, T
    <2> QED
      BY <1>8, <1>9, FS_Injection
  <1> QED
    BY <1>9, <1>10

\* An item of a valid show starts at a time and takes some.
LEMMA DurationPositive ==
  ASSUME NEW m, TypedShow(m), Valid(m), NEW n \in DOMAIN m.program
  PROVE  /\ DurationOf(m, m.program[n].sequence) \in Nat \ {0}
         /\ m.program[n].at \in Nat
  <1> DEFINE id == m.program[n].sequence
             i == CHOOSE k \in DOMAIN m.sequences : m.sequences[k].id = id
  <1>1. \E k \in DOMAIN m.sequences : m.sequences[k].id = id
    BY DEF Valid, ProgramOK
  <1>2. i \in DOMAIN m.sequences
    BY <1>1
  <1>3. DurationOf(m, id) = m.sequences[i].duration
    BY DEF DurationOf
  <1> HIDE DEF i
  <1>4. m.sequences[i].duration \in Int /\ m.sequences[i].duration \in 1..MaxDuration
    BY <1>2 DEF TypedShow, Valid, SequencesOK
  <1>5. m.program[n].at \in Int /\ m.program[n].at >= 0
    BY DEF TypedShow, Valid, ProgramOK
  <1> QED
    BY <1>3, <1>4, <1>5

\* Each item ends before any later one begins.
LEMMA ItemsFollow ==
  ASSUME NEW m, TypedShow(m), Valid(m), NEW a \in DOMAIN m.program,
         NEW b \in DOMAIN m.program, a < b
  PROVE  m.program[a].at + DurationOf(m, m.program[a].sequence) <= m.program[b].at
  <1> DEFINE end == m.program[a].at + DurationOf(m, m.program[a].sequence)
             T == {n \in DOMAIN m.program : a < n /\ m.program[n].at < end}
  <1>1. DOMAIN m.program = 1..Len(m.program) /\ Len(m.program) \in Nat
    BY DEF TypedShow
  <1>2. SUFFICES ASSUME T # {} PROVE FALSE
    <2>1. end \in Int /\ m.program[b].at \in Int
      BY DurationPositive
    <2> QED
      BY <2>1
  <1>3. T \in SUBSET Nat
    BY <1>1
  <1>4. PICK n \in T : \A k \in T : <<k, n>> \notin OpToRel(<, Nat)
    <2> HIDE DEF T
    <2> QED
      BY <1>2, <1>3, WFMin, NatLessThanWellFounded, Zenon
  <1>5. \A k \in T : ~(k < n)
    <2> HIDE DEF T
    <2> QED
      BY <1>3, <1>4, Zenon DEF OpToRel
  <1>6. n \in Nat /\ a < n /\ n - 1 \in DOMAIN m.program /\ n \in DOMAIN m.program
        /\ n # 0 /\ a \in Nat /\ n - 1 # 0 /\ m.program[n].at < end
    BY <1>1
  <1>7. m.program[n].at
            >= m.program[n - 1].at + DurationOf(m, m.program[n - 1].sequence)
    <2>1. m.program[n].at >= EndOf(m, n - 1)
      BY <1>6 DEF Valid, ProgramOK
    <2> QED
      BY <1>6, <2>1 DEF EndOf
  <1>8. /\ DurationOf(m, m.program[n - 1].sequence) \in Nat \ {0}
        /\ m.program[n - 1].at \in Nat /\ m.program[n].at \in Nat
    BY <1>6, DurationPositive
  <1>9. end \in Nat
    BY DurationPositive
  <1>10. CASE n - 1 = a
    <2>1. m.program[n].at >= end
      BY <1>7, <1>10
    <2> HIDE DEF end
    <2> QED
      BY <1>6, <1>8, <1>9, <2>1
  <1>11. CASE n - 1 # a
    <2>1. m.program[n - 1].at < end
      <3> HIDE DEF end
      <3> QED
        BY <1>6, <1>7, <1>8, <1>9
    <2>2. n - 1 \in T
      BY <1>6, <1>11, <2>1
    <2> QED
      BY <1>5, <1>6, <2>2
  <1> QED
    BY <1>10, <1>11

\* Items that follow one another do not overlap.
LEMMA OneAtATime == ShowInv => OneSequenceAtATime
  <1> SUFFICES ASSUME ShowInv, verdict = "valid", NEW m \in DOMAIN show.program,
                      NEW n \in DOMAIN show.program, m \in PlayingAt(show.program[n].at)
               PROVE  m = n
    BY DEF OneSequenceAtATime
  <1>1. TypedShow(show) /\ Valid(show)
    BY DEF ShowInv
  <1> DEFINE am == show.program[m].at
             an == show.program[n].at
             dm == DurationOf(show, show.program[m].sequence)
             dn == DurationOf(show, show.program[n].sequence)
  <1>2. am <= an /\ an < am + dm
    BY DEF PlayingAt
  <1>3. am \in Nat /\ an \in Nat /\ dm \in Nat \ {0} /\ dn \in Nat \ {0}
    BY <1>1, DurationPositive
  <1>4. m \in Nat /\ n \in Nat
    BY <1>1 DEF TypedShow
  <1>5. (m < n => am + dm <= an) /\ (n < m => an + dn <= am)
    BY <1>1, ItemsFollow
  <1> HIDE DEF am, an, dm, dn
  <1> QED
    BY <1>2, <1>3, <1>4, <1>5

\* Every step keeps it so.
LEMMA ShowInductive == ShowInv /\ [ManifestNext]_showVars => ShowInv'
  <1> SUFFICES ASSUME ShowInv, [ManifestNext]_showVars PROVE ShowInv'
    OBVIOUS
  <1>1. CASE Parse
    <2>1. show \in Show /\ UNCHANGED <<playing, since, onsets>>
      BY <1>1 DEF Parse, ShowInv
    <2>2. /\ show' = [show EXCEPT !.version = IF @ = 0 THEN FormatVersion ELSE @]
          /\ verdict' \in {"valid", "refused"}
          /\ verdict' = "valid" => SequencesOK(show') /\ ProgramOK(show')
      BY <1>1 DEF Parse
    <2>3. DOMAIN show = {"version", "title", "blocks", "program", "sequences"}
      BY <2>1, ShowAssumption
    <2>4. show'.program = show.program /\ show'.sequences = show.sequences
      BY <2>2, <2>3
    <2>5. TypedShow(show')
      BY <2>4 DEF TypedShow, ShowInv
    <2>6. \A o \in onsets : OnsetOK(o)'
      BY <2>1 DEF ShowInv, OnsetOK
    <2> QED
      BY <2>1, <2>2, <2>5, <2>6 DEF ShowInv, Valid
  <1>2. ASSUME NEW s, NEW l, NEW c, NEW seat \in Seat, CueStarts(s, l, c, seat)
        PROVE  ShowInv'
    <2> DEFINE lane == show.sequences[s].lanes[l]
               cue == lane.cues[c]
    <2>1. /\ verdict = "valid" /\ playing = Nothing /\ onsets = {}
          /\ s \in DOMAIN show.sequences /\ l \in DOMAIN show.sequences[s].lanes
          /\ c \in DOMAIN show.sequences[s].lanes[l].cues
          /\ cue.effect # Nothing
          /\ playing' = [lane |-> lane.kind, cue |-> cue, seat |-> seat]
          /\ UNCHANGED <<show, verdict, since, onsets>>
      BY <1>2 DEF CueStarts, ShowInv
    <2>2. TypedShow(show) /\ Valid(show)
      BY <2>1 DEF ShowInv
    <2>3. CueOK(lane.kind, cue, show.sequences[s].duration, show.blocks)
          /\ lane.kind \in {"screen", "torch", "audio"}
      BY <2>1, <2>2 DEF Valid, SequencesOK, LanesOK
    <2>4. EffectOK(cue.effect, lane.kind, show.blocks)
      BY <2>1, <2>3 DEF CueOK
    <2>5. EffectTyped(cue.effect)
      BY <2>1, <2>2 DEF TypedShow
    <2>6. SeatOK(seat)
      BY ShowAssumption DEF SeatOK
    <2>7. PlayedOK(playing')
      BY <2>1, <2>4, <2>5, <2>6 DEF PlayedOK, Nothing
    <2> QED
      BY <2>1, <2>7 DEF ShowInv
  <1>3. CASE Frame
    <2> DEFINE e == playing.cue.effect
               before == Light(playing, since)
               after == Light(playing, since + 1)
    <2>1. /\ playing # Nothing /\ since' = since + 1 /\ since \in Nat
          /\ UNCHANGED <<show, verdict, playing>>
          /\ onsets' = {o \in onsets : o.at > since' - Second} \cup
                       IF after \in {before, Off} THEN {}
                       ELSE {[at |-> since + 1, color |-> after]}
      BY <1>3 DEF Frame, ShowInv
    <2>2. Second \in Nat \ {0}
      BY ManifestAssumption
    <2>3. \A n : Light(playing, n) = EvalEffect(e, Dye(playing), playing.seat, n)
      BY DEF Light, Dye
    <2>4. ASSUME NEW o \in onsets, o.at > since' - Second
          PROVE  OnsetOK(o)'
      BY <2>1, <2>2, <2>4 DEF ShowInv, OnsetOK, Turns, Dye
    <2>5. ASSUME after \notin {before, Off},
                 NEW o, o = [at |-> since + 1, color |-> after]
          PROVE  OnsetOK(o)'
      <3>1. o.at = since + 1 /\ o.color = after /\ (since + 1) - 1 = since
        BY <2>1, <2>5
      <3>2. Turns(e, Dye(playing), playing.seat, o.at)
            /\ EvalEffect(e, Dye(playing), playing.seat, o.at) = o.color
        BY <2>3, <2>5, <3>1 DEF Turns
      <3>3. o.at \in Nat \ {0} /\ o.at <= since' /\ o.at > since' - Second
        BY <2>1, <2>2, <3>1
      <3>4. o = [at |-> o.at, color |-> o.color]
        BY <2>5, <3>1
      <3> QED
        BY <2>1, <3>2, <3>3, <3>4 DEF OnsetOK, Turns, Dye
    <2>6. \A o \in onsets' : OnsetOK(o)'
      <3> HIDE DEF before, after
      <3> QED
        BY <2>1, <2>4, <2>5
    <2>7. since' \in Nat /\ PlayedOK(playing)
      BY <2>1 DEF ShowInv
    <2> QED
      BY <2>1, <2>6, <2>7 DEF ShowInv
  <1>4. CASE UNCHANGED showVars
    <2>1. \A o \in onsets : OnsetOK(o)'
      BY <1>4 DEF showVars, ShowInv, OnsetOK, Turns, Dye
    <2> QED
      BY <1>4, <2>1 DEF showVars, ShowInv
  <1> QED
    BY <1>1, <1>2, <1>3, <1>4 DEF ManifestNext

\* No manifest that validation lets through makes a light flash too often, or two
\* sequences of the program play at once: for any limits, manifests and seats.
THEOREM ShowsAreSafe == ManifestSpec => []ShowSafe
  <1>1. ManifestInit => ShowInv
    BY ShowAssumption DEF ManifestInit, ShowInv, TypedShow
  <1>2. ShowInv => ShowSafe
    BY FlashCount, OneAtATime DEF ShowSafe
  <1> QED
    BY <1>1, <1>2, ShowInductive, PTL DEF ManifestSpec

-----------------------------------------------------------------------------
(* The beacon.                                                              *)
(*                                                                          *)
(* The register of the CRC is linear in the data.  What is left of it when a *)
(* burst is checked, its syndrome, is a power of x for each symbol that is   *)
(* wrong; the powers differ and are odd, so no three of them add up to       *)
(* nothing.  The rest is about where the bits of a burst are.                *)

\* A place of a byte or of the register.
Place == 0..7

\* A place is in the sum of two registers when it is in one of them.
LEMMA InXor ==
  ASSUME NEW S, NEW T, NEW b
  PROVE  b \in Xor(S, T) <=> ~(b \in S <=> b \in T)
  BY DEF Xor

\* Sets of places differ at a place or are the same.
LEMMA SamePlaces ==
  ASSUME NEW S \in SUBSET Place, NEW T \in SUBSET Place,
         \A b \in Place : b \in S <=> b \in T
  PROVE  S = T
  OBVIOUS

\* The sum of two registers is one.
LEMMA XorPlaces ==
  ASSUME NEW S \in SUBSET Place, NEW T \in SUBSET Place
  PROVE  Xor(S, T) \in SUBSET Place
  BY DEF Xor

\* What adds up in one order adds up in another.
LEMMA XorMixed ==
  ASSUME NEW A, NEW B, NEW C, NEW D
  PROVE  Xor(Xor(A, B), Xor(C, D)) = Xor(Xor(A, C), Xor(B, D))
  BY DEF Xor

\* A place after a shift: the place below it, and place 7 if the polynomial has it.
LEMMA InShift ==
  ASSUME NEW S \in SUBSET Place, NEW b \in Place
  PROVE  b \in Shift(S) <=> ~(b > 0 /\ b - 1 \in S <=> 7 \in S /\ b \in Poly)
  <1> DEFINE up == {a + 1 : a \in S \ {7}}
  <1>1. b \in up <=> b > 0 /\ b - 1 \in S
    BY DEF Place
  <1>2. Shift(S) = IF 7 \in S THEN Xor(up, Poly) ELSE up
    BY DEF Shift
  <1> HIDE DEF up
  <1> QED
    BY <1>1, <1>2, InXor

\* A shifted register is a register.
LEMMA ShiftPlaces ==
  ASSUME NEW S \in SUBSET Place
  PROVE  Shift(S) \in SUBSET Place
  BY DEF Shift, Place, Xor, Poly

\* A shift of the register is linear.
LEMMA ShiftLinear ==
  ASSUME NEW S \in SUBSET Place, NEW T \in SUBSET Place
  PROVE  Shift(Xor(S, T)) = Xor(Shift(S), Shift(T))
  <1>1. /\ Xor(S, T) \in SUBSET Place /\ Shift(S) \in SUBSET Place
        /\ Shift(T) \in SUBSET Place
    BY XorPlaces, ShiftPlaces
  <1>2. Shift(Xor(S, T)) \in SUBSET Place /\ Xor(Shift(S), Shift(T)) \in SUBSET Place
    BY <1>1, XorPlaces, ShiftPlaces
  <1>3. ASSUME NEW b \in Place
        PROVE  b \in Shift(Xor(S, T)) <=> b \in Xor(Shift(S), Shift(T))
    <2>1. b \in Shift(Xor(S, T)) <=>
              ~(b > 0 /\ b - 1 \in Xor(S, T) <=> 7 \in Xor(S, T) /\ b \in Poly)
      BY <1>1, InShift
    <2>2. /\ b - 1 \in Xor(S, T) <=> ~(b - 1 \in S <=> b - 1 \in T)
          /\ 7 \in Xor(S, T) <=> ~(7 \in S <=> 7 \in T)
      BY InXor
    <2>3. /\ b \in Shift(S) <=> ~(b > 0 /\ b - 1 \in S <=> 7 \in S /\ b \in Poly)
          /\ b \in Shift(T) <=> ~(b > 0 /\ b - 1 \in T <=> 7 \in T /\ b \in Poly)
      BY InShift
    <2>4. b \in Xor(Shift(S), Shift(T)) <=> ~(b \in Shift(S) <=> b \in Shift(T))
      BY InXor
    <2> QED
      BY <2>1, <2>2, <2>3, <2>4
  <1> QED
    BY <1>2, <1>3, SamePlaces

\* A byte of the CRC is linear.
LEMMA ByteLinear ==
  ASSUME NEW S \in SUBSET Place, NEW T \in SUBSET Place
  PROVE  /\ ShiftByte(S) \in SUBSET Place
         /\ ShiftByte(Xor(S, T)) = Xor(ShiftByte(S), ShiftByte(T))
  <1> DEFINE Two(A) == Shift(Shift(A))
             Four(A) == Two(Two(A))
  <1>1. ASSUME NEW A \in SUBSET Place, NEW B \in SUBSET Place
        PROVE  Two(A) \in SUBSET Place /\ Two(Xor(A, B)) = Xor(Two(A), Two(B))
    BY ShiftPlaces, ShiftLinear
  <1> HIDE DEF Two
  <1>2. ASSUME NEW A \in SUBSET Place, NEW B \in SUBSET Place
        PROVE  Four(A) \in SUBSET Place /\ Four(Xor(A, B)) = Xor(Four(A), Four(B))
    BY <1>1
  <1> HIDE DEF Four
  <1>3. \A A : ShiftByte(A) = Four(Four(A))
    BY DEF ShiftByte, Four, Two
  <1> QED
    BY <1>2, <1>3

-----------------------------------------------------------------------------
\* The powers of x modulo the polynomial: of which the remainder has a term.
Term == <<{0, 8, 14, 15, 16, 20, 22, 24, 26, 27, 29, 31, 36, 38, 39},
          {1, 8, 9, 14, 17, 20, 21, 22, 23, 24, 25, 26, 28, 29, 30, 31, 32, 36, 37, 38},
          {2, 8, 9, 10, 14, 16, 18, 20, 21, 23, 25, 30, 32, 33, 36, 37},
          {3, 9, 10, 11, 15, 17, 19, 21, 22, 24, 26, 31, 33, 34, 37, 38},
          {4, 10, 11, 12, 16, 18, 20, 22, 23, 25, 27, 32, 34, 35, 38, 39},
          {5, 11, 12, 13, 17, 19, 21, 23, 24, 26, 28, 33, 35, 36, 39},
          {6, 12, 13, 14, 18, 20, 22, 24, 25, 27, 29, 34, 36, 37},
          {7, 13, 14, 15, 19, 21, 23, 25, 26, 28, 30, 35, 37, 38}>>

\* The power k of x, modulo the polynomial: Term says in which powers a place is.
Power(k) == {b \in Place : k \in Term[b + 1]}

\* The places of a power.
LEMMA PowerPlaces ==
  ASSUME NEW k
  PROVE  /\ Power(k) \in SUBSET Place
         /\ \A b \in Place : b \in Power(k) <=> k \in Term[b + 1]
  BY DEF Power

\* One shift is one power more.
LEMMA ShiftPower ==
  ASSUME NEW k \in 0..38
  PROVE  Shift(Power(k)) = Power(k + 1)
  <1>1. /\ Power(k) \in SUBSET Place /\ Power(k + 1) \in SUBSET Place
        /\ Shift(Power(k)) \in SUBSET Place
    BY PowerPlaces, ShiftPlaces
  <1>2. ASSUME NEW b \in Place
        PROVE  b \in Shift(Power(k)) <=> b \in Power(k + 1)
    <2>1. b \in Shift(Power(k)) <=>
              ~(b > 0 /\ b - 1 \in Power(k) <=> 7 \in Power(k) /\ b \in Poly)
      BY <1>1, InShift
    <2>2. /\ 7 \in Power(k) <=> k \in Term[8]
          /\ b \in Power(k + 1) <=> k + 1 \in Term[b + 1]
          /\ b > 0 => (b - 1 \in Power(k) <=> k \in Term[b])
      <3>1. 7 \in Place /\ 7 + 1 = 8 /\ (b > 0 => b - 1 \in Place /\ (b - 1) + 1 = b)
        BY DEF Place
      <3> QED
        BY <3>1, PowerPlaces
    <2>3. CASE b = 0
      <3>1. k + 1 \in Term[1] <=> k \in Term[8]
        BY DEF Term
      <3> QED
        BY <2>1, <2>2, <2>3, <3>1 DEF Poly
    <2>4. CASE b = 1
      <3>1. k + 1 \in Term[2] <=> ~(k \in Term[1] <=> k \in Term[8])
        BY DEF Term
      <3> QED
        BY <2>1, <2>2, <2>4, <3>1 DEF Poly
    <2>5. CASE b = 2
      <3>1. k + 1 \in Term[3] <=> ~(k \in Term[2] <=> k \in Term[8])
        BY DEF Term
      <3> QED
        BY <2>1, <2>2, <2>5, <3>1 DEF Poly
    <2>6. CASE b \in 3..7
      <3>1. /\ k + 1 \in Term[4] <=> k \in Term[3]
            /\ k + 1 \in Term[5] <=> k \in Term[4]
            /\ k + 1 \in Term[6] <=> k \in Term[5]
            /\ k + 1 \in Term[7] <=> k \in Term[6]
            /\ k + 1 \in Term[8] <=> k \in Term[7]
        BY DEF Term
      <3>2. b = 3 \/ b = 4 \/ b = 5 \/ b = 6 \/ b = 7
        BY <2>6
      <3>3. k + 1 \in Term[b + 1] <=> k \in Term[b]
        BY <3>1, <3>2
      <3>4. b > 0 /\ b \notin Poly
        BY <3>2 DEF Poly
      <3> QED
        BY <2>1, <2>2, <3>3, <3>4
    <2> QED
      BY <2>3, <2>4, <2>5, <2>6 DEF Place
  <1> QED
    BY <1>1, <1>2, SamePlaces

\* So is a byte eight powers.
LEMMA BytePower ==
  ASSUME NEW k \in 0..31
  PROVE  ShiftByte(Power(k)) = Power(k + 8)
  <1>1. /\ Shift(Power(k)) = Power(k + 1) /\ Shift(Power(k + 1)) = Power(k + 2)
        /\ Shift(Power(k + 2)) = Power(k + 3) /\ Shift(Power(k + 3)) = Power(k + 4)
        /\ Shift(Power(k + 4)) = Power(k + 5) /\ Shift(Power(k + 5)) = Power(k + 6)
        /\ Shift(Power(k + 6)) = Power(k + 7) /\ Shift(Power(k + 7)) = Power(k + 8)
    <2>1. \A j \in 0..7 : k + j \in 0..38 /\ (k + j) + 1 = k + (j + 1)
      OBVIOUS
    <2>2. \A j \in 0..7 : Shift(Power(k + j)) = Power(k + (j + 1))
      BY <2>1, ShiftPower
    <2>3. k + 0 = k
      OBVIOUS
    <2> QED
      BY <2>2, <2>3
  <1> QED
    BY <1>1 DEF ShiftByte

\* A register has an even number of places.
Even(S) == ((0 \in S <=> 1 \in S) <=> (2 \in S <=> 3 \in S))
           <=> ((4 \in S <=> 5 \in S) <=> (6 \in S <=> 7 \in S))

\* The first 40 powers are all different.
LEMMA PowersDiffer ==
  ASSUME NEW j \in 0..39, NEW k \in 0..39, Power(j) = Power(k)
  PROVE  j = k
  <1>1. \A b \in Place : j \in Term[b + 1] <=> k \in Term[b + 1]
    BY PowerPlaces
  <1>2. \A b \in 1..8 : j \in Term[b] <=> k \in Term[b]
    <2>1. \A b \in 1..8 : b - 1 \in Place /\ (b - 1) + 1 = b
      BY DEF Place
    <2> QED
      BY <1>1, <2>1
  <1> QED
    BY <1>2 DEF Term

\* Each of them has an odd number of places: 1 + x divides the polynomial.
LEMMA PowersOdd ==
  ASSUME NEW k \in 0..39
  PROVE  ~Even(Power(k))
  <1>1. /\ 0 \in Power(k) <=> k \in Term[1]
        /\ 1 \in Power(k) <=> k \in Term[2]
        /\ 2 \in Power(k) <=> k \in Term[3]
        /\ 3 \in Power(k) <=> k \in Term[4]
        /\ 4 \in Power(k) <=> k \in Term[5]
        /\ 5 \in Power(k) <=> k \in Term[6]
        /\ 6 \in Power(k) <=> k \in Term[7]
        /\ 7 \in Power(k) <=> k \in Term[8]
    BY PowerPlaces DEF Place
  <1> QED
    BY <1>1 DEF Even, Term

\* The parity of a sum.
LEMMA EvenXor ==
  ASSUME NEW S, NEW T
  PROVE  Even({}) /\ (Even(Xor(S, T)) <=> (Even(S) <=> Even(T)))
  <1>1. \A b : b \in Xor(S, T) <=> ~(b \in S <=> b \in T)
    BY InXor
  <1>2. Even({})
    BY DEF Even
  <1>3. Even(Xor(S, T)) <=> (Even(S) <=> Even(T))
    BY <1>1 DEF Even
  <1> QED
    BY <1>2, <1>3

\* The places of a burst.
Symbol == 0..(PayloadBits - 1)

\* A byte of the data that is 1 at the places of D, the highest bit first.
ByteAt(D, n) == {b \in Place : 8 * n + 7 - b \in D \cap 0..25}

\* The register after the data.
Register(D) ==
    ShiftByte(Xor(ShiftByte(Xor(ShiftByte(Xor(ShiftByte(
        ByteAt(D, 0)), ByteAt(D, 1))), ByteAt(D, 2))), ByteAt(D, 3)))

\* The CRC that the burst carries.
CrcTail(D) == {b \in Place : 33 - b \in D}

\* What is left of the CRC when a burst is checked.
Syndrome(D) == Xor(Register(D), CrcTail(D))

\* The bytes of a sum.
LEMMA ByteAtLinear ==
  ASSUME NEW D, NEW E, NEW n
  PROVE  /\ ByteAt(D, n) \in SUBSET Place
         /\ ByteAt(Xor(D, E), n) = Xor(ByteAt(D, n), ByteAt(E, n))
  BY DEF ByteAt, Xor

\* The register of a sum.
LEMMA RegisterLinear ==
  ASSUME NEW D, NEW E
  PROVE  /\ Register(D) \in SUBSET Place
         /\ Register(Xor(D, E)) = Xor(Register(D), Register(E))
  <1> DEFINE R(S, T) == ShiftByte(Xor(S, T))
  <1>1. ASSUME NEW S \in SUBSET Place, NEW T \in SUBSET Place,
               NEW U \in SUBSET Place, NEW V \in SUBSET Place
        PROVE  R(S, T) \in SUBSET Place /\ R(Xor(S, U), Xor(T, V)) = Xor(R(S, T), R(U, V))
    <2>1. Xor(S, T) \in SUBSET Place /\ Xor(U, V) \in SUBSET Place
      BY XorPlaces
    <2>2. Xor(Xor(S, U), Xor(T, V)) = Xor(Xor(S, T), Xor(U, V))
      BY XorMixed
    <2> QED
      BY <2>1, <2>2, ByteLinear
  <1> DEFINE b(A, n) == ByteAt(A, n)
             r1(A) == ShiftByte(b(A, 0))
             r2(A) == R(r1(A), b(A, 1))
             r3(A) == R(r2(A), b(A, 2))
             r4(A) == R(r3(A), b(A, 3))
  <1>2. \A A : Register(A) = r4(A)
    BY DEF Register
  <1>3. \A A, n : b(A, n) \in SUBSET Place
    BY ByteAtLinear
  <1>4. \A n : b(Xor(D, E), n) = Xor(b(D, n), b(E, n))
    BY ByteAtLinear
  <1> HIDE DEF b
  <1>5. (\A A : r1(A) \in SUBSET Place) /\ r1(Xor(D, E)) = Xor(r1(D), r1(E))
    BY <1>3, <1>4, ByteLinear
  <1> HIDE DEF R, r1
  <1>6. (\A A : r2(A) \in SUBSET Place) /\ r2(Xor(D, E)) = Xor(r2(D), r2(E))
    BY <1>1, <1>3, <1>4, <1>5
  <1> HIDE DEF r2
  <1>7. (\A A : r3(A) \in SUBSET Place) /\ r3(Xor(D, E)) = Xor(r3(D), r3(E))
    <2>1. \A A : r3(A) \in SUBSET Place
      BY <1>1, <1>3, <1>6
    <2>2. r3(Xor(D, E)) = R(Xor(r2(D), r2(E)), Xor(b(D, 2), b(E, 2)))
      BY <1>4, <1>6
    <2>3. R(Xor(r2(D), r2(E)), Xor(b(D, 2), b(E, 2))) = Xor(R(r2(D), b(D, 2)), R(r2(E), b(E, 2)))
      BY <1>1, <1>3, <1>6
    <2> QED
      BY <2>1, <2>2, <2>3
  <1> HIDE DEF r3
  <1>8. (\A A : r4(A) \in SUBSET Place) /\ r4(Xor(D, E)) = Xor(r4(D), r4(E))
    <2>1. \A A : r4(A) \in SUBSET Place
      BY <1>1, <1>3, <1>7
    <2>2. r4(Xor(D, E)) = R(Xor(r3(D), r3(E)), Xor(b(D, 3), b(E, 3)))
      BY <1>4, <1>7
    <2>3. R(Xor(r3(D), r3(E)), Xor(b(D, 3), b(E, 3))) = Xor(R(r3(D), b(D, 3)), R(r3(E), b(E, 3)))
      BY <1>1, <1>3, <1>7
    <2> QED
      BY <2>1, <2>2, <2>3
  <1> HIDE DEF r4
  <1> QED
    BY <1>2, <1>8

\* What is left of a sum.
LEMMA SyndromeLinear ==
  ASSUME NEW D, NEW E
  PROVE  /\ Syndrome(D) \in SUBSET Place
         /\ Syndrome(Xor(D, E)) = Xor(Syndrome(D), Syndrome(E))
  <1>1. CrcTail(D) \in SUBSET Place /\ CrcTail(Xor(D, E)) = Xor(CrcTail(D), CrcTail(E))
    BY DEF CrcTail, Xor
  <1>2. Register(D) \in SUBSET Place /\ Register(Xor(D, E)) = Xor(Register(D), Register(E))
    BY RegisterLinear
  <1>3. Syndrome(D) \in SUBSET Place
    BY <1>1, <1>2, XorPlaces DEF Syndrome
  <1>4. Syndrome(Xor(D, E)) = Xor(Syndrome(D), Syndrome(E))
    BY <1>1, <1>2, XorMixed DEF Syndrome
  <1> QED
    BY <1>3, <1>4

\* The power that the symbol i leaves.
Exponent(i) == IF i <= 25 THEN 39 - i ELSE 33 - i

\* Up to the power 7 the polynomial does not matter.
LEMMA SmallPower ==
  ASSUME NEW b \in Place
  PROVE  Power(b) = {b}
  <1>1. \A a \in Place : b \in Term[a + 1] <=> a = b
    <2>1. b = 0 \/ b = 1 \/ b = 2 \/ b = 3 \/ b = 4 \/ b = 5 \/ b = 6 \/ b = 7
      BY DEF Place
    <2>2. \A a \in Place : a = 0 \/ a = 1 \/ a = 2 \/ a = 3 \/ a = 4 \/ a = 5 \/ a = 6 \/ a = 7
      BY DEF Place
    <2> QED
      BY <2>1, <2>2 DEF Term
  <1> QED
    BY <1>1 DEF Power

\* Nothing added changes nothing, and a register added to itself is nothing.
LEMMA XorEmpty ==
  ASSUME NEW S
  PROVE  Xor(S, {}) = S /\ Xor({}, S) = S /\ Xor(S, S) = {}
  BY DEF Xor

\* Nothing stays nothing.
LEMMA ByteEmpty == ShiftByte({}) = {}
  <1>1. Shift({}) = {}
    BY DEF Shift
  <1> QED
    BY <1>1 DEF ShiftByte

\* What one symbol leaves is a power of x: of its distance from the end.
LEMMA OneSymbol ==
  ASSUME NEW i \in Symbol
  PROVE  Syndrome({i}) = Power(Exponent(i)) /\ Exponent(i) \in 0..39
  <1>1. CASE i <= 25
    <2> DEFINE n == i \div 8
               b == 7 - (i % 8)
    <2>1. n \in 0..3 /\ b \in Place /\ i = 8 * n + 7 - b /\ i \in Nat
      BY <1>1 DEF Symbol, Place, PayloadBits
    <2> HIDE DEF n, b
    <2>2. ASSUME NEW m \in 0..3
          PROVE  ByteAt({i}, m) = IF m = n THEN Power(b) ELSE {}
      <3>1. ASSUME NEW a \in Place
            PROVE  8 * m + 7 - a = i <=> m = n /\ a = b
        BY <2>1 DEF Place
      <3>2. \A a \in Place : 8 * m + 7 - a \in {i} \cap 0..25 <=> m = n /\ a = b
        <4>1. i \in 0..25
          BY <1>1, <2>1
        <4>2. \A x : x \in {i} \cap 0..25 <=> x = i
          BY <4>1
        <4> QED
          BY <3>1, <4>2
      <3>3. ByteAt({i}, m) = IF m = n THEN {b} ELSE {}
        BY <2>1, <3>2 DEF ByteAt
      <3> QED
        BY <2>1, <3>3, SmallPower
    <2>3. CrcTail({i}) = {}
      BY <1>1 DEF CrcTail, Symbol, Place, PayloadBits
    <2>4. Syndrome({i}) = Register({i})
      BY <2>3, XorEmpty DEF Syndrome
    <2>5. Exponent(i) = b + 8 * (4 - n)
      BY <1>1, <2>1 DEF Exponent, Place
    <2>6. b \in 0..31 /\ b + 8 \in 0..31 /\ b + 16 \in 0..31 /\ b + 24 \in 0..31
          /\ (b + 8) + 8 = b + 16 /\ (b + 16) + 8 = b + 24 /\ (b + 24) + 8 = b + 32
      BY <2>1 DEF Place
    <2>7. /\ ShiftByte(Power(b)) = Power(b + 8)
          /\ ShiftByte(Power(b + 8)) = Power(b + 16)
          /\ ShiftByte(Power(b + 16)) = Power(b + 24)
          /\ ShiftByte(Power(b + 24)) = Power(b + 32)
      BY <2>6, BytePower
    <2>8. Register({i}) = Power(Exponent(i))
      <3>1. CASE n = 0
        <4>1. Exponent(i) = b + 32
          BY <2>1, <2>5, <3>1 DEF Place
        <4>2. ByteAt({i}, 0) = Power(b) /\ \A m \in 0..3 : m # 0 => ByteAt({i}, m) = {}
          BY <2>1, <2>2, <3>1
        <4>3. /\ ByteAt({i}, 1) = {} /\ ByteAt({i}, 2) = {} /\ ByteAt({i}, 3) = {}
          BY <4>2
        <4> QED
          BY <2>7, <4>1, <4>2, <4>3, XorEmpty DEF Register
      <3>2. CASE n = 1
        <4>1. Exponent(i) = b + 24
          BY <2>1, <2>5, <3>2 DEF Place
        <4>2. ByteAt({i}, 1) = Power(b) /\ \A m \in 0..3 : m # 1 => ByteAt({i}, m) = {}
          BY <2>1, <2>2, <3>2
        <4>3. /\ ByteAt({i}, 0) = {} /\ ByteAt({i}, 2) = {} /\ ByteAt({i}, 3) = {}
          BY <4>2
        <4> QED
          BY <2>7, <4>1, <4>2, <4>3, XorEmpty, ByteEmpty DEF Register
      <3>3. CASE n = 2
        <4>1. Exponent(i) = b + 16
          BY <2>1, <2>5, <3>3 DEF Place
        <4>2. ByteAt({i}, 2) = Power(b) /\ \A m \in 0..3 : m # 2 => ByteAt({i}, m) = {}
          BY <2>1, <2>2, <3>3
        <4>3. /\ ByteAt({i}, 0) = {} /\ ByteAt({i}, 1) = {} /\ ByteAt({i}, 3) = {}
          BY <4>2
        <4> QED
          BY <2>7, <4>1, <4>2, <4>3, XorEmpty, ByteEmpty DEF Register
      <3>4. CASE n = 3
        <4>1. Exponent(i) = b + 8
          BY <2>1, <2>5, <3>4 DEF Place
        <4>2. ByteAt({i}, 3) = Power(b) /\ \A m \in 0..3 : m # 3 => ByteAt({i}, m) = {}
          BY <2>1, <2>2, <3>4
        <4>3. /\ ByteAt({i}, 0) = {} /\ ByteAt({i}, 1) = {} /\ ByteAt({i}, 2) = {}
          BY <4>2
        <4> QED
          BY <2>7, <4>1, <4>2, <4>3, XorEmpty, ByteEmpty DEF Register
      <3> QED
        BY <2>1, <3>1, <3>2, <3>3, <3>4
    <2>9. Exponent(i) \in 0..39
      BY <1>1, <2>1 DEF Exponent
    <2> QED
      BY <2>4, <2>8, <2>9
  <1>2. CASE ~(i <= 25)
    <2>1. i \in Nat /\ 33 - i \in Place /\ i > 25
      BY <1>2 DEF Symbol, Place, PayloadBits
    <2>2. ByteAt({i}, 0) = {} /\ ByteAt({i}, 1) = {} /\ ByteAt({i}, 2) = {} /\ ByteAt({i}, 3) = {}
      BY <2>1 DEF ByteAt
    <2>3. Register({i}) = {}
      BY <2>2, XorEmpty, ByteEmpty DEF Register
    <2>4. CrcTail({i}) = {33 - i}
      BY <2>1 DEF CrcTail, Place
    <2>5. Syndrome({i}) = {33 - i}
      BY <2>3, <2>4, XorEmpty DEF Syndrome
    <2>6. Exponent(i) = 33 - i
      BY <1>2 DEF Exponent
    <2>7. Exponent(i) \in 0..39
      BY <2>1, <2>6 DEF Place
    <2> QED
      BY <2>1, <2>5, <2>6, <2>7, SmallPower
  <1> QED
    BY <1>1, <1>2

\* No two symbols leave the same.
LEMMA SymbolsDiffer ==
  ASSUME NEW i \in Symbol, NEW j \in Symbol, Syndrome({i}) = Syndrome({j})
  PROVE  i = j
  <1>1. Exponent(i) = Exponent(j)
    BY OneSymbol, PowersDiffer
  <1> QED
    BY <1>1 DEF Exponent, Symbol, PayloadBits

\* Damage that is not seen is of more than three symbols.
LEMMA SmallDamage ==
  ASSUME NEW E \in SUBSET Symbol, Cardinality(E) <= 3, Syndrome(E) = {}
  PROVE  E = {}
  <1>1. SUFFICES ASSUME E # {} PROVE FALSE
    OBVIOUS
  <1>2. IsFiniteSet(E)
    <2>1. IsFiniteSet(Symbol)
      <3>1. Symbol = 0..33
        BY DEF Symbol, PayloadBits
      <3>2. 0 \in Int /\ 33 \in Int
        OBVIOUS
      <3> QED
        BY <3>1, <3>2, FS_Interval
    <2> QED
      BY <2>1, FS_Subset
  <1>3. \A D : Syndrome(D) \in SUBSET Place
    BY SyndromeLinear
  <1>4. \A i \in Symbol : ~Even(Syndrome({i}))
    BY OneSymbol, PowersOdd
  <1>5. Even(Syndrome(E))
    BY EvenXor
  <1>6. PICK i \in E : TRUE
    BY <1>1
  <1> DEFINE F == E \ {i}
  <1>7. IsFiniteSet(F) /\ Cardinality(F) = Cardinality(E) - 1 /\ Cardinality(E) \in Nat
    BY <1>2, FS_RemoveElement, FS_CardinalityType
  <1>8. Syndrome(E) = Xor(Syndrome({i}), Syndrome(F))
    <2>1. E = Xor({i}, F)
      BY DEF Xor
    <2> QED
      BY <2>1, SyndromeLinear
  <1>9. CASE F = {}
    <2>1. E = {i}
      BY <1>6, <1>9
    <2> QED
      BY <1>4, <1>5, <2>1
  <1>10. CASE F # {}
    <2>1. PICK j \in F : TRUE
      BY <1>10
    <2> DEFINE G == F \ {j}
    <2>2. IsFiniteSet(G) /\ Cardinality(G) = Cardinality(F) - 1 /\ Cardinality(F) \in Nat
      BY <1>7, FS_RemoveElement, FS_CardinalityType
    <2>3. Syndrome(F) = Xor(Syndrome({j}), Syndrome(G))
      <3>1. F = Xor({j}, G)
        BY DEF Xor
      <3> QED
        BY <3>1, SyndromeLinear
    <2>4. CASE G = {}
      <3>1. F = {j} /\ i # j
        BY <2>1, <2>4
      <3>2. Xor(Syndrome({i}), Syndrome({j})) = {}
        BY <1>8, <3>1
      <3>3. Syndrome({i}) = Syndrome({j})
        BY <3>2 DEF Xor
      <3> QED
        BY <3>1, <3>3, SymbolsDiffer
    <2>5. CASE G # {}
      <3>1. PICK k \in G : TRUE
        BY <2>5
      <3>2. IsFiniteSet(G \ {k}) /\ Cardinality(G \ {k}) = Cardinality(G) - 1
            /\ Cardinality(G) \in Nat /\ Cardinality(G \ {k}) \in Nat
        BY <2>2, <3>1, FS_RemoveElement, FS_CardinalityType
      <3>3. Cardinality(G \ {k}) = 0
        BY <1>7, <2>2, <3>2
      <3>4. G \ {k} = {}
        BY <3>2, <3>3, FS_EmptySet
      <3>5. G = {k}
        BY <3>1, <3>4
      <3>6. Even(Syndrome(F)) <=> (Even(Syndrome({j})) <=> Even(Syndrome({k})))
        BY <2>3, <3>5, EvenXor
      <3>7. Even(Syndrome(E)) <=> (Even(Syndrome({i})) <=> Even(Syndrome(F)))
        BY <1>8, EvenXor
      <3> QED
        BY <1>4, <1>5, <1>6, <2>1, <3>1, <3>6, <3>7
    <2> QED
      BY <2>4, <2>5
  <1> QED
    BY <1>9, <1>10

\* Functions that begin alike and go on alike are alike.
LEMMA GoOnAlike ==
  ASSUME NEW n \in Nat, NEW c, NEW g, c[0] = g[0],
         \A i \in 1..n : c[i - 1] = g[i - 1] => c[i] = g[i]
  PROVE  \A i \in 0..n : c[i] = g[i]
  <1> DEFINE T == {i \in 0..n : c[i] # g[i]}
  <1>1. SUFFICES ASSUME T # {} PROVE FALSE
    OBVIOUS
  <1>2. T \in SUBSET Nat
    OBVIOUS
  <1>3. PICK m \in T : \A y \in T : <<y, m>> \notin OpToRel(<, Nat)
    <2> HIDE DEF T
    <2> QED
      BY <1>1, <1>2, WFMin, NatLessThanWellFounded, Zenon
  <1>4. \A y \in T : ~(y < m)
    BY <1>2, <1>3, Zenon DEF OpToRel
  <1>5. m \in 1..n /\ c[m] # g[m] /\ m - 1 \in 0..n /\ m - 1 < m
    OBVIOUS
  <1>6. c[m - 1] = g[m - 1]
    BY <1>4, <1>5
  <1> QED
    BY <1>5, <1>6

\* A power of two.
TwoTo(k) == 2^k

\* The powers of two that the fields need.
LEMMA TwoDoubles ==
  /\ TwoTo(0) = 1
  /\ \A k \in 0..10 : TwoTo(k) \in Nat \ {0}
  /\ \A k \in 0..9 : TwoTo(k + 1) = 2 * TwoTo(k)
  <1>1. /\ TwoTo(0) = 1 /\ TwoTo(1) = 2 /\ TwoTo(2) = 4 /\ TwoTo(3) = 8 /\ TwoTo(4) = 16
        /\ TwoTo(5) = 32 /\ TwoTo(6) = 64 /\ TwoTo(7) = 128 /\ TwoTo(8) = 256
        /\ TwoTo(9) = 512 /\ TwoTo(10) = 1024
    BY DEF TwoTo
  <1>2. \A k \in 0..10 : k = 0 \/ k = 1 \/ k = 2 \/ k = 3 \/ k = 4 \/ k = 5 \/ k = 6 \/ k = 7
                         \/ k = 8 \/ k = 9 \/ k = 10
    OBVIOUS
  <1>3. \A k \in 0..10 : TwoTo(k) \in Nat \ {0}
    BY <1>1, <1>2
  <1>4. ASSUME NEW k \in 0..9 PROVE TwoTo(k + 1) = 2 * TwoTo(k)
    <2>1. k = 0 \/ k = 1 \/ k = 2 \/ k = 3 \/ k = 4 \/ k = 5 \/ k = 6 \/ k = 7
          \/ k = 8 \/ k = 9
      OBVIOUS
    <2> QED
      BY <1>1, <2>1
  <1> QED
    BY <1>1, <1>3, <1>4

\* A bit that is pushed.
LEMMA PushedAt ==
  ASSUME NEW v, NEW n
  PROVE  Pushed(v, n) = [i \in 1..n |-> (v \div TwoTo(n - i)) % 2]
  BY DEF Pushed, TwoTo

\* One bit more of a number.
LEMMA HalfOf ==
  ASSUME NEW v \in Nat, NEW m \in Nat \ {0}
  PROVE  v \div m = 2 * (v \div (2 * m)) + ((v \div m) % 2)
  <1> DEFINE q == v \div m
             h == q \div 2
             r == q % 2
  <1>1. q \in Nat /\ q * m <= v /\ v < (q + 1) * m
    OBVIOUS
  <1> HIDE DEF q
  <1>2. h \in Nat /\ r \in 0..1 /\ q = 2 * h + r
    BY <1>1
  <1> HIDE DEF h, r
  <1>3. h * (2 * m) <= v /\ v < (h + 1) * (2 * m)
    <2>1. h * (2 * m) = (2 * h) * m /\ (h + 1) * (2 * m) = (2 * h + 2) * m
      BY <1>2
    <2>2. (2 * h) * m <= q * m /\ (q + 1) * m <= (2 * h + 2) * m
      <3>1. 2 * h <= q /\ q + 1 <= 2 * h + 2
        BY <1>1, <1>2
      <3>2. \A a, b \in Nat : a <= b => a * m <= b * m
        OBVIOUS
      <3> QED
        BY <1>1, <1>2, <3>1, <3>2
    <2>3. q * m \in Int /\ (q + 1) * m \in Int /\ (2 * h) * m \in Int /\ (2 * h + 2) * m \in Int
      BY <1>1, <1>2
    <2> QED
      BY <1>1, <2>1, <2>2, <2>3
  <1>4. v \div (2 * m) = h
    <2> DEFINE d == 2 * m
    <2>1. d \in Nat \ {0} /\ h * d <= v /\ v < (h + 1) * d
      BY <1>3
    <2> HIDE DEF d
    <2>2. v \div d = h
      BY <1>2, <2>1
    <2> QED
      BY <2>2 DEF d
  <1>5. q = 2 * (v \div (2 * m)) + r
    BY <1>2, <1>4
  <1> QED
    BY <1>5 DEF q, r

\* What was pushed is taken.
LEMMA TakenPushed ==
  ASSUME NEW n \in 1..10, NEW v \in Nat, v < TwoTo(n), NEW x, NEW off \in Nat,
         \A i \in 1..n : x[off + i] = Pushed(v, n)[i]
  PROVE  Taken(x, off, n) = v
  <1> DEFINE P(f) == f = [i \in 0..n |-> IF i = 0 THEN 0 ELSE 2 * f[i - 1] + x[off + i]]
             c == CHOOSE f : P(f)
             g == [i \in 0..n |-> v \div TwoTo(n - i)]
  <1>1. Taken(x, off, n) = c[n]
    BY DEF Taken
  <1>2. g[0] = 0
    <2> DEFINE m == TwoTo(n)
    <2>0. n \in 0..10 /\ n - 0 = n /\ 0 \in 0..n
      OBVIOUS
    <2>3. m \in Nat \ {0}
      BY <2>0, TwoDoubles
    <2>1. g[0] = v \div m
      BY <2>0
    <2>2. v < m
      OBVIOUS
    <2> HIDE DEF m
    <2>4. v \div m = 0
      BY <2>2, <2>3
    <2> HIDE DEF g
    <2> QED
      BY <2>1, <2>4
  <1>3. ASSUME NEW i \in 1..n PROVE g[i] = 2 * g[i - 1] + x[off + i]
    <2> DEFINE m == TwoTo(n - i)
    <2>1. n - i \in 0..9 /\ n - (i - 1) = (n - i) + 1
      OBVIOUS
    <2>2. m \in Nat \ {0} /\ TwoTo(n - (i - 1)) = 2 * m
      BY <2>1, TwoDoubles
    <2>3. g[i] = v \div m /\ g[i - 1] = v \div (2 * m)
      BY <2>2
    <2>4. x[off + i] = (v \div m) % 2
      BY PushedAt
    <2> HIDE DEF m, g
    <2> QED
      BY <2>2, <2>3, <2>4, HalfOf
  <1>4. P(g)
    <2>1. \A i \in 0..n : g[i] = IF i = 0 THEN 0 ELSE 2 * g[i - 1] + x[off + i]
      <3> HIDE DEF g
      <3>1. ASSUME NEW i \in 0..n PROVE i = 0 \/ i \in 1..n
        OBVIOUS
      <3>2. \A i \in 1..n : i # 0
        OBVIOUS
      <3> QED
        BY <1>2, <1>3, <3>1, <3>2
    <2>2. g = [i \in 0..n |-> g[i]]
      OBVIOUS
    <2> HIDE DEF g
    <2> QED
      BY <2>1, <2>2
  <1> HIDE DEF P
  <1>5. P(c)
    BY <1>4
  <1> HIDE DEF c
  <1>6. c[0] = 0 /\ \A i \in 1..n : c[i] = 2 * c[i - 1] + x[off + i]
    <2>1. \A i \in 0..n : c[i] = IF i = 0 THEN 0 ELSE 2 * c[i - 1] + x[off + i]
      BY <1>5 DEF P
    <2> QED
      BY <2>1
  <1>7. \A i \in 0..n : c[i] = g[i]
    <2> HIDE DEF g
    <2>1. c[0] = g[0] /\ \A i \in 1..n : c[i - 1] = g[i - 1] => c[i] = g[i]
      BY <1>2, <1>3, <1>6
    <2> QED
      BY <2>1, GoOnAlike
  <1>8. g[n] = v
    <2>1. n - n = 0 /\ v \div 1 = v /\ n \in 0..n
      OBVIOUS
    <2>2. TwoTo(n - n) = 1
      BY <2>1, TwoDoubles
    <2>3. g[n] = v \div TwoTo(n - n)
      BY <2>1
    <2> HIDE DEF g
    <2> QED
      BY <2>1, <2>2, <2>3
  <1> QED
    BY <1>1, <1>7, <1>8

\* What is pushed are bits.
LEMMA PushedBits ==
  ASSUME NEW n \in 1..10, NEW v \in Nat
  PROVE  Pushed(v, n) \in [1..n -> {0, 1}]
  <1>1. ASSUME NEW i \in 1..n PROVE (v \div TwoTo(n - i)) % 2 \in {0, 1}
    <2> DEFINE m == TwoTo(n - i)
    <2>0. n - i \in 0..10
      OBVIOUS
    <2>1. m \in Nat \ {0}
      BY <2>0, TwoDoubles
    <2> HIDE DEF m
    <2>2. (v \div m) % 2 \in {0, 1}
      BY <2>1
    <2> QED
      BY <2>2 DEF m
  <1> QED
    BY <1>1, PushedAt

\* The CRC of four bytes.
LEMMA CrcOfBytes ==
  ASSUME NEW B, DOMAIN B = 0..3
  PROVE  Crc8(B) = ShiftByte(Xor(ShiftByte(Xor(ShiftByte(Xor(ShiftByte(
                       B[0]), B[1])), B[2])), B[3]))
  <1> DEFINE P(f) == f = [n \in 0..4 |-> IF n = 0 THEN {}
                                         ELSE ShiftByte(Xor(f[n - 1], B[n - 1]))]
             c == CHOOSE f : P(f)
             r1 == ShiftByte(Xor({}, B[0]))
             r2 == ShiftByte(Xor(r1, B[1]))
             r3 == ShiftByte(Xor(r2, B[2]))
             r4 == ShiftByte(Xor(r3, B[3]))
             g == [n \in 0..4 |-> IF n = 0 THEN {} ELSE IF n = 1 THEN r1
                                  ELSE IF n = 2 THEN r2 ELSE IF n = 3 THEN r3 ELSE r4]
  <1>1. Cardinality(DOMAIN B) = 4
    <2>1. 0 \in Int /\ 3 \in Int
      OBVIOUS
    <2>2. Cardinality(0..3) = IF 0 > 3 THEN 0 ELSE 3 - 0 + 1
      BY <2>1, FS_Interval
    <2> QED
      BY <2>2
  <1>2. Crc8(B) = c[4]
    BY <1>1 DEF Crc8
  <1>3. P(g)
    <2> HIDE DEF r4, r3, r2, r1
    <2>1. g[0] = {} /\ g[1] = r1 /\ g[2] = r2 /\ g[3] = r3 /\ g[4] = r4
      OBVIOUS
    <2>2. /\ g[1] = ShiftByte(Xor(g[0], B[0])) /\ g[2] = ShiftByte(Xor(g[1], B[1]))
          /\ g[3] = ShiftByte(Xor(g[2], B[2])) /\ g[4] = ShiftByte(Xor(g[3], B[3]))
      BY <2>1 DEF r1, r2, r3, r4
    <2>3. g = [n \in 0..4 |-> g[n]]
      OBVIOUS
    <2> HIDE DEF g
    <2>4. \A n \in 0..4 : g[n] = IF n = 0 THEN {} ELSE ShiftByte(Xor(g[n - 1], B[n - 1]))
      <3>1. \A n \in 0..4 : n = 0 \/ n = 1 \/ n = 2 \/ n = 3 \/ n = 4
        OBVIOUS
      <3> QED
        BY <2>1, <2>2, <3>1
    <2> QED
      BY <2>3, <2>4
  <1> HIDE DEF P
  <1>4. P(c)
    BY <1>3
  <1> HIDE DEF c
  <1>5. \A n \in 0..4 : c[n] = IF n = 0 THEN {} ELSE ShiftByte(Xor(c[n - 1], B[n - 1]))
    BY <1>4 DEF P
  <1>6. c[0] = {} /\ c[1] = r1 /\ c[2] = r2 /\ c[3] = r3 /\ c[4] = r4
    <2>1. /\ c[0] = {} /\ c[1] = ShiftByte(Xor(c[0], B[0]))
          /\ c[2] = ShiftByte(Xor(c[1], B[1])) /\ c[3] = ShiftByte(Xor(c[2], B[2]))
          /\ c[4] = ShiftByte(Xor(c[3], B[3]))
      BY <1>5
    <2> QED
      BY <2>1
  <1> QED
    BY <1>2, <1>6, XorEmpty

\* What may be heard of a burst.
Bits == [1..34 -> {0, 1}]

\* The places where what is heard is 1.
Ones(x) == {i \in Symbol : x[i + 1] = 1}

\* The sequence u is s and t behind it.
Joins(u, s, t) ==
    /\ Len(u) = Len(s) + Len(t)
    /\ \A i \in 1..Len(s) : u[i] = s[i]
    /\ \A i \in 1..Len(t) : u[Len(s) + i] = t[i]

\* The n places of x from a on are those of s.
Shows(x, a, s, n) == \A i \in 1..n : x[a + i] = s[i]

\* Flipping adds the places.
LEMMA FlippedOnes ==
  ASSUME NEW x \in Bits, NEW E \in SUBSET Symbol
  PROVE  Flipped(x, E) \in Bits /\ Ones(Flipped(x, E)) = Xor(Ones(x), E)
  <1> DEFINE y == Flipped(x, E)
  <1>1. y = [i \in 1..34 |-> IF i - 1 \in E THEN 1 - x[i] ELSE x[i]]
    BY DEF Flipped, Bits
  <1>2. \A i \in 1..34 : x[i] \in {0, 1}
    BY DEF Bits
  <1> HIDE DEF y
  <1>3. \A i \in 1..34 : y[i] = IF i - 1 \in E THEN 1 - x[i] ELSE x[i]
    BY <1>1
  <1>4. \A i \in 1..34 : y[i] \in {0, 1}
    BY <1>2, <1>3
  <1>5. y \in Bits
    BY <1>1, <1>4 DEF Bits
  <1>6. ASSUME NEW i \in Symbol PROVE y[i + 1] = 1 <=> ~(x[i + 1] = 1 <=> i \in E)
    <2>1. i + 1 \in 1..34 /\ (i + 1) - 1 = i
      BY DEF Symbol, PayloadBits
    <2> QED
      BY <1>2, <1>3, <2>1
  <1>7. Ones(y) = Xor(Ones(x), E)
    BY <1>6 DEF Ones, Xor
  <1> QED
    BY <1>5, <1>7 DEF y

\* Bits with the same places of 1 are the same.
LEMMA SameOnes ==
  ASSUME NEW x \in Bits, NEW y \in Bits, Ones(x) = Ones(y)
  PROVE  x = y
  <1>1. ASSUME NEW i \in 1..34 PROVE x[i] = y[i]
    <2>1. i - 1 \in Symbol /\ (i - 1) + 1 = i
      BY DEF Symbol, PayloadBits
    <2>2. x[i] = 1 <=> y[i] = 1
      BY <2>1 DEF Ones
    <2>3. x[i] \in {0, 1} /\ y[i] \in {0, 1}
      BY DEF Bits
    <2> QED
      BY <2>2, <2>3
  <1> QED
    BY <1>1 DEF Bits

\* The CRC of 26 bits is the register after them.
LEMMA CrcOnes ==
  ASSUME NEW data, Len(data) = 26, NEW x \in Bits, \A i \in 1..26 : data[i] = x[i]
  PROVE  Crc8(PackBits(data)) = Register(Ones(x))
  <1> DEFINE B == PackBits(data)
  <1>1. B = [n \in 0..3 |-> {b \in 0..7 : 8 * n + 8 - b <= 26 /\ data[8 * n + 8 - b] # 0}]
    <2>1. (26 + 7) \div 8 - 1 = 3
      OBVIOUS
    <2> QED
      BY <2>1 DEF PackBits
  <1> HIDE DEF B
  <1>2. ASSUME NEW n \in 0..3 PROVE B[n] = ByteAt(Ones(x), n)
    <2>1. B[n] = {b \in 0..7 : 8 * n + 8 - b <= 26 /\ data[8 * n + 8 - b] # 0}
      BY <1>1
    <2>2. ASSUME NEW b \in 0..7
          PROVE  8 * n + 8 - b <= 26 /\ data[8 * n + 8 - b] # 0
                   <=> 8 * n + 7 - b \in Ones(x) \cap 0..25
      <3> DEFINE j == 8 * n + 8 - b
      <3>1. j \in 1..32 /\ 8 * n + 7 - b = j - 1 /\ (j - 1) + 1 = j
        OBVIOUS
      <3> HIDE DEF j
      <3>2. CASE j <= 26
        <4>1. j \in 1..26 /\ j - 1 \in Symbol /\ j - 1 \in 0..25
          BY <3>1, <3>2 DEF Symbol, PayloadBits
        <4>2. data[j] = x[j] /\ x[j] \in {0, 1}
          BY <4>1 DEF Bits
        <4>3. data[j] # 0 <=> j - 1 \in Ones(x)
          BY <3>1, <4>1, <4>2 DEF Ones
        <4> QED
          BY <3>1, <3>2, <4>1, <4>3 DEF j
      <3>3. CASE ~(j <= 26)
        <4>1. j - 1 \notin 0..25
          BY <3>1, <3>3
        <4> QED
          BY <3>1, <3>3, <4>1 DEF j
      <3> QED
        BY <3>2, <3>3
    <2> QED
      BY <2>1, <2>2 DEF ByteAt, Place
  <1>3. DOMAIN B = 0..3
    BY <1>1
  <1>4. Crc8(B) = ShiftByte(Xor(ShiftByte(Xor(ShiftByte(Xor(ShiftByte(
                       B[0]), B[1])), B[2])), B[3]))
    BY <1>3, CrcOfBytes
  <1>5. /\ B[0] = ByteAt(Ones(x), 0) /\ B[1] = ByteAt(Ones(x), 1)
        /\ B[2] = ByteAt(Ones(x), 2) /\ B[3] = ByteAt(Ones(x), 3)
    BY <1>2
  <1>6. Crc8(B) = Register(Ones(x))
    BY <1>4, <1>5 DEF Register
  <1> QED
    BY <1>6 DEF B

\* The bits of the CRC are those of the register exactly when nothing is left.
LEMMA CheckedBits ==
  ASSUME NEW data, Len(data) = 26, NEW x \in Bits, Shows(x, 0, data, 26),
         Shows(x, 26, CrcBits(data), 8)
  PROVE  Syndrome(Ones(x)) = {}
  <1> DEFINE crc == Register(Ones(x))
  <1>0. \A i \in 1..26 : data[i] = x[i]
    <2>1. \A i \in 1..26 : 0 + i = i
      OBVIOUS
    <2> QED
      BY <2>1 DEF Shows
  <1>1. CrcBits(data) = [i \in 1..8 |-> IF 8 - i \in crc THEN 1 ELSE 0]
    BY <1>0, CrcOnes DEF CrcBits
  <1>2. crc \in SUBSET Place
    BY RegisterLinear
  <1> HIDE DEF crc
  <1>3. ASSUME NEW b \in Place PROVE b \in CrcTail(Ones(x)) <=> b \in crc
    <2>1. 8 - b \in 1..8 /\ 8 - (8 - b) = b /\ 26 + (8 - b) = 34 - b
          /\ 33 - b \in Symbol /\ (33 - b) + 1 = 34 - b
      BY DEF Place, Symbol, PayloadBits
    <2> DEFINE k == 8 - b
    <2>2. x[26 + k] = CrcBits(data)[k]
      BY <2>1 DEF Shows
    <2>3. CrcBits(data)[k] = IF b \in crc THEN 1 ELSE 0
      BY <1>1, <2>1
    <2>4. x[34 - b] = 1 <=> b \in crc
      BY <2>1, <2>2, <2>3
    <2>5. b \in CrcTail(Ones(x)) <=> 33 - b \in Ones(x)
      BY DEF CrcTail
    <2> QED
      BY <2>1, <2>4, <2>5 DEF Ones
  <1>4. CrcTail(Ones(x)) = crc
    BY <1>2, <1>3 DEF CrcTail
  <1> QED
    BY <1>4, XorEmpty DEF Syndrome, crc

\* Nothing is left of what parses.
LEMMA ParsedIsChecked ==
  ASSUME NEW x \in Bits, Parses(x)
  PROVE  Syndrome(Ones(x)) = {}
  <1> DEFINE data == SubSeq(x, 1, 26)
             tail == SubSeq(x, 27, 34)
  <1>1. \A i \in 1..34 : x[i] \in {0, 1}
    BY DEF Bits
  <1>2. Len(data) = 26 /\ \A i \in 1..26 : data[i] = x[i]
    <2>1. 1 \in Int /\ 26 \in Int /\ \A i \in 1..26 : x[i] \in {0, 1}
      BY <1>1
    <2>2. /\ Len(SubSeq(x, 1, 26)) = IF 1 <= 26 THEN 26 - 1 + 1 ELSE 0
          /\ \A i \in 1..(26 - 1 + 1) : SubSeq(x, 1, 26)[i] = x[1 + i - 1]
      BY <2>1, SubSeqProperties
    <2> HIDE DEF data
    <2>3. Len(data) = 26 /\ \A i \in 1..26 : data[i] = x[1 + i - 1]
      BY <2>2 DEF data
    <2>4. \A i \in 1..26 : 1 + i - 1 = i
      OBVIOUS
    <2> QED
      BY <2>3, <2>4
  <1>3. \A i \in 1..8 : tail[i] = x[26 + i]
    <2>1. 27 \in Int /\ 34 \in Int /\ \A i \in 27..34 : x[i] \in {0, 1}
      BY <1>1
    <2>2. \A i \in 1..(34 - 27 + 1) : SubSeq(x, 27, 34)[i] = x[27 + i - 1]
      BY <2>1, SubSeqProperties
    <2> HIDE DEF tail
    <2>3. \A i \in 1..8 : tail[i] = x[27 + i - 1]
      BY <2>2 DEF tail
    <2>4. \A i \in 1..8 : 27 + i - 1 = 26 + i
      OBVIOUS
    <2> QED
      BY <2>3, <2>4
  <1>4. tail = CrcBits(data)
    BY DEF Parses, PayloadBits
  <1> HIDE DEF data, tail
  <1>5. Shows(x, 26, CrcBits(data), 8)
    BY <1>3, <1>4 DEF Shows
  <1>6. Shows(x, 0, data, 26)
    <2>1. \A i \in 1..26 : 0 + i = i
      OBVIOUS
    <2> QED
      BY <1>2, <2>1 DEF Shows
  <1> QED
    BY <1>2, <1>5, <1>6, CheckedBits

\* Two sequences, one behind the other.
LEMMA Joined ==
  ASSUME NEW S, NEW s \in Seq(S), NEW t \in Seq(S)
  PROVE  s \o t \in Seq(S) /\ Joins(s \o t, s, t)
  <1> DEFINE u == s \o t
             a == Len(s)
             b == Len(t)
  <1>0. a \in Nat /\ b \in Nat
    OBVIOUS
  <1>1. /\ u \in Seq(S) /\ Len(u) = Len(s) + Len(t)
        /\ \A i \in 1..Len(s) + Len(t) : u[i] = IF i <= Len(s) THEN s[i] ELSE t[i - Len(s)]
    BY ConcatProperties, Zenon
  <1> HIDE DEF u, a, b
  <1>2. \A i \in 1..(a + b) : u[i] = IF i <= a THEN s[i] ELSE t[i - a]
    BY <1>1 DEF a, b
  <1>3. ASSUME NEW i \in 1..a PROVE u[i] = s[i]
    <2>1. i \in 1..(a + b) /\ i <= a
      BY <1>0
    <2> QED
      BY <1>2, <2>1
  <1>4. ASSUME NEW i \in 1..b PROVE u[a + i] = t[i]
    <2> DEFINE j == a + i
    <2>1. j \in 1..(a + b) /\ ~(j <= a) /\ j - a = i
      BY <1>0
    <2> HIDE DEF j
    <2>2. u[j] = t[i]
      BY <1>2, <2>1
    <2> QED
      BY <2>2 DEF j
  <1> QED
    BY <1>1, <1>3, <1>4 DEF Joins, u, a, b

\* Four fields, the data they make up and the CRC, one behind the other.
Framed(s1, s2, s3, s4, crc, t2, t3, data, x) ==
    /\ Len(s1) = 4 /\ Len(s2) = 8 /\ Len(s3) = 4 /\ Len(s4) = 10 /\ Len(crc) = 8
    /\ Joins(t2, s1, s2) /\ Joins(t3, t2, s3) /\ Joins(data, t3, s4) /\ Joins(x, data, crc)

\* The fields and the CRC, by their places in the burst.
LEMMA FieldsAt ==
  ASSUME NEW s1, NEW s2, NEW s3, NEW s4, NEW crc, NEW t2, NEW t3, NEW data, NEW x,
         Framed(s1, s2, s3, s4, crc, t2, t3, data, x)
  PROVE  /\ Len(data) = 26 /\ Len(x) = 34
         /\ Shows(x, 0, data, 26) /\ Shows(x, 26, crc, 8)
         /\ Shows(x, 0, s1, 4) /\ Shows(x, 4, s2, 8) /\ Shows(x, 12, s3, 4)
         /\ Shows(x, 16, s4, 10)
  <1>1. /\ Len(t2) = 12 /\ \A i \in 1..4 : t2[i] = s1[i]
        /\ \A i \in 1..8 : t2[4 + i] = s2[i]
    BY DEF Joins, Framed
  <1>2. /\ Len(t3) = 16 /\ \A i \in 1..12 : t3[i] = t2[i]
        /\ \A i \in 1..4 : t3[12 + i] = s3[i]
    BY <1>1 DEF Joins, Framed
  <1>3. /\ Len(data) = 26 /\ \A i \in 1..16 : data[i] = t3[i]
        /\ \A i \in 1..10 : data[16 + i] = s4[i]
    BY <1>2 DEF Joins, Framed
  <1>4. /\ Len(x) = 34 /\ \A i \in 1..26 : x[i] = data[i]
        /\ \A i \in 1..8 : x[26 + i] = crc[i]
    BY <1>3 DEF Joins, Framed
  <1>5. /\ \A i \in 1..4 : x[0 + i] = s1[i]
        /\ \A i \in 1..8 : x[4 + i] = s2[i]
        /\ \A i \in 1..4 : x[12 + i] = s3[i]
        /\ \A i \in 1..10 : x[16 + i] = s4[i]
    <2>1. ASSUME NEW i \in 1..4 PROVE x[0 + i] = s1[i]
      <3>1. 0 + i = i /\ i \in 1..26 /\ i \in 1..16 /\ i \in 1..12
        OBVIOUS
      <3> QED
        BY <1>1, <1>2, <1>3, <1>4, <3>1
    <2>2. ASSUME NEW i \in 1..8 PROVE x[4 + i] = s2[i]
      <3> DEFINE j == 4 + i
      <3>1. j \in 1..26 /\ j \in 1..16 /\ j \in 1..12
        OBVIOUS
      <3>2. t2[j] = s2[i]
        BY <1>1
      <3> HIDE DEF j
      <3>3. x[j] = s2[i]
        BY <1>2, <1>3, <1>4, <3>1, <3>2
      <3> QED
        BY <3>3 DEF j
    <2>3. ASSUME NEW i \in 1..4 PROVE x[12 + i] = s3[i]
      <3> DEFINE j == 12 + i
      <3>1. j \in 1..26 /\ j \in 1..16
        OBVIOUS
      <3>2. t3[j] = s3[i]
        BY <1>2
      <3> HIDE DEF j
      <3>3. x[j] = s3[i]
        BY <1>3, <1>4, <3>1, <3>2
      <3> QED
        BY <3>3 DEF j
    <2>4. ASSUME NEW i \in 1..10 PROVE x[16 + i] = s4[i]
      <3> DEFINE j == 16 + i
      <3>1. j \in 1..26
        OBVIOUS
      <3>2. data[j] = s4[i]
        BY <1>3
      <3> HIDE DEF j
      <3>3. x[j] = s4[i]
        BY <1>4, <3>1, <3>2
      <3> QED
        BY <3>3 DEF j
    <2> QED
      BY <2>1, <2>2, <2>3, <2>4
  <1>6. Shows(x, 0, data, 26)
    <2>1. \A i \in 1..26 : 0 + i = i
      OBVIOUS
    <2> QED
      BY <1>4, <2>1 DEF Shows
  <1> QED
    BY <1>3, <1>4, <1>5, <1>6 DEF Shows

\* The bits of a burst: four fields and the CRC of them.
Laid(s1, s2, s3, s4, data, x) ==
    data = s1 \o s2 \o s3 \o s4 /\ x = data \o CrcBits(data)

\* A burst that is laid out so is of 34 bits, leaves nothing, and shows its fields.
LEMMA BurstBits ==
  ASSUME NEW s1 \in [1..4 -> {0, 1}], NEW s2 \in [1..8 -> {0, 1}],
         NEW s3 \in [1..4 -> {0, 1}], NEW s4 \in [1..10 -> {0, 1}],
         NEW data, NEW x, Laid(s1, s2, s3, s4, data, x)
  PROVE  /\ x \in Bits /\ Syndrome(Ones(x)) = {}
         /\ Shows(x, 0, s1, 4) /\ Shows(x, 4, s2, 8) /\ Shows(x, 12, s3, 4)
         /\ Shows(x, 16, s4, 10)
  <1> DEFINE B2 == {0, 1}
             crc == CrcBits(data)
  <1>2. x = data \o crc
    BY Zenon DEF Laid
  <1>4. crc \in [1..8 -> B2]
    BY DEF CrcBits
  <1> HIDE DEF crc
  <1>5. /\ s1 \in Seq(B2) /\ Len(s1) = 4 /\ s2 \in Seq(B2) /\ Len(s2) = 8
        /\ s3 \in Seq(B2) /\ Len(s3) = 4 /\ s4 \in Seq(B2) /\ Len(s4) = 10
        /\ crc \in Seq(B2) /\ Len(crc) = 8
    <2>1. ASSUME NEW n \in Nat, NEW s \in [1..n -> B2] PROVE s \in Seq(B2) /\ Len(s) = n
      OBVIOUS
    <2> QED
      BY <1>4, <2>1
  <1> DEFINE t2 == s1 \o s2
             t3 == t2 \o s3
  <1>6. data = t3 \o s4
    BY Zenon DEF Laid
  <1> HIDE DEF B2
  <1>7. t2 \in Seq(B2) /\ Joins(t2, s1, s2)
    BY <1>5, Joined, Zenon
  <1>8. t3 \in Seq(B2) /\ Joins(t3, t2, s3)
    BY <1>5, <1>7, Joined, Zenon
  <1> HIDE DEF t2, t3
  <1>9. data \in Seq(B2) /\ Joins(data, t3, s4)
    BY <1>5, <1>6, <1>8, Joined, Zenon
  <1>10. x \in Seq(B2) /\ Joins(x, data, crc)
    BY <1>2, <1>5, <1>9, Joined, Zenon
  <1>11. /\ Len(data) = 26 /\ Len(x) = 34
         /\ Shows(x, 0, data, 26) /\ Shows(x, 26, crc, 8)
         /\ Shows(x, 0, s1, 4) /\ Shows(x, 4, s2, 8) /\ Shows(x, 12, s3, 4)
         /\ Shows(x, 16, s4, 10)
    <2>1. Framed(s1, s2, s3, s4, crc, t2, t3, data, x)
      BY <1>5, <1>7, <1>8, <1>9, <1>10, Zenon DEF Framed
    <2> QED
      BY <2>1, FieldsAt, Zenon
  <1>12. x \in Bits
    <2>1. x \in [1..Len(x) -> B2]
      BY <1>10, LenProperties, Zenon
    <2>2. Bits = [1..34 -> B2]
      BY Zenon DEF Bits, B2
    <2> QED
      BY <1>11, <2>1, <2>2, Zenon
  <1>13. Syndrome(Ones(x)) = {}
    BY <1>11, <1>12, CheckedBits, Zenon DEF crc
  <1> QED
    BY <1>11, <1>12, <1>13, Zenon

\* The countdown is sent in steps of 100 ms.
LEMMA CountdownSent ==
  ASSUME NEW m \in Nat, m <= 102300
  PROVE  /\ m \div 100 \in Nat /\ m \div 100 < 1024
         /\ (m \div 100) * 100 = m - (m % 100)
  OBVIOUS

\* The ranges of the fields.
LEMMA FieldsInRange ==
  ASSUME NEW p, PayloadOK(p)
  PROVE  /\ p.version = 1 /\ p.cueIndex \in Nat /\ p.cueIndex < 256
         /\ p.seq \in Nat /\ p.seq < 16 /\ p.countdown \in Nat /\ p.countdown <= 102300
  <1> DEFINE k == 1023 * CountdownRes
  <1>1. k = 102300
    BY DEF CountdownRes
  <1>2. p.countdown \in 0..k
    BY DEF PayloadOK
  <1> HIDE DEF k
  <1>3. k \in Nat
    BY <1>1
  <1>4. p.countdown \in Nat /\ p.countdown <= k
    BY <1>2, <1>3
  <1>5. p.countdown \in Nat /\ p.countdown <= 102300
    BY <1>1, <1>4
  <1>6. /\ p.version = 1 /\ p.cueIndex \in Nat /\ p.cueIndex < 256
        /\ p.seq \in Nat /\ p.seq < 16
    BY DEF PayloadOK
  <1> QED
    BY <1>5, <1>6

\* The fields of a burst are taken.
LEMMA FieldsTaken ==
  ASSUME NEW x, NEW v, NEW k \in Nat, k < 256, NEW s \in Nat, s < 16,
         NEW c \in Nat, c < 1024, v = 1,
         Shows(x, 0, Pushed(v, 4), 4), Shows(x, 4, Pushed(k, 8), 8),
         Shows(x, 12, Pushed(s, 4), 4), Shows(x, 16, Pushed(c, 10), 10)
  PROVE  /\ Taken(x, 0, 4) = v /\ Taken(x, 4, 8) = k /\ Taken(x, 12, 4) = s
         /\ Taken(x, 16, 10) = c
  <1>1. TwoTo(4) = 16 /\ TwoTo(8) = 256 /\ TwoTo(10) = 1024
    BY DEF TwoTo
  <1>2. /\ v \in Nat /\ v < TwoTo(4) /\ k \in Nat /\ k < TwoTo(8) /\ s \in Nat /\ s < TwoTo(4)
        /\ c < TwoTo(10)
    BY <1>1
  <1>3. 0 \in Nat /\ 4 \in Nat /\ 12 \in Nat /\ 16 \in Nat /\ 4 \in 1..10 /\ 8 \in 1..10
        /\ 10 \in 1..10
    OBVIOUS
  <1>4. Taken(x, 0, 4) = v
    BY <1>2, <1>3, TakenPushed DEF Shows
  <1>5. Taken(x, 4, 8) = k
    BY <1>2, <1>3, TakenPushed DEF Shows
  <1>6. Taken(x, 12, 4) = s
    BY <1>2, <1>3, TakenPushed DEF Shows
  <1>7. Taken(x, 16, 10) = c
    BY <1>2, <1>3, TakenPushed DEF Shows
  <1> QED
    BY <1>4, <1>5, <1>6, <1>7

\* What is encoded, field by field: its bits, and what they say.
LEMMA EncodedFields ==
  ASSUME NEW v \in Nat, v = 1, NEW k \in Nat, k < 256, NEW s \in Nat, s < 16,
         NEW c \in Nat, c < 1024, NEW data, NEW x,
         Laid(Pushed(v, 4), Pushed(k, 8), Pushed(s, 4), Pushed(c, 10), data, x)
  PROVE  /\ x \in Bits /\ Syndrome(Ones(x)) = {}
         /\ Taken(x, 0, 4) = v /\ Taken(x, 4, 8) = k /\ Taken(x, 12, 4) = s
         /\ Taken(x, 16, 10) = c
  <1>3. /\ Pushed(v, 4) \in [1..4 -> {0, 1}] /\ Pushed(k, 8) \in [1..8 -> {0, 1}]
        /\ Pushed(s, 4) \in [1..4 -> {0, 1}] /\ Pushed(c, 10) \in [1..10 -> {0, 1}]
    BY PushedBits
  <1>4. /\ x \in Bits /\ Syndrome(Ones(x)) = {}
        /\ Shows(x, 0, Pushed(v, 4), 4) /\ Shows(x, 4, Pushed(k, 8), 8)
        /\ Shows(x, 12, Pushed(s, 4), 4) /\ Shows(x, 16, Pushed(c, 10), 10)
    BY <1>3, BurstBits
  <1>5. /\ Taken(x, 0, 4) = v /\ Taken(x, 4, 8) = k /\ Taken(x, 12, 4) = s
        /\ Taken(x, 16, 10) = c
    BY <1>4, FieldsTaken
  <1> QED
    BY <1>4, <1>5, Zenon

\* The fields of a payload are integers.
PayloadTyped(p) == p \in [version : Int, cueIndex : Int, seq : Int, countdown : Int]

\* What is encoded leaves nothing when it is checked, and says what was sent.
LEMMA EncodedBits ==
  ASSUME NEW p, PayloadTyped(p), PayloadOK(p)
  PROVE  /\ BitsOf(p) \in Bits
         /\ Syndrome(Ones(BitsOf(p))) = {}
         /\ PayloadOf(BitsOf(p)) = [p EXCEPT !.countdown = @ - (@ % CountdownRes)]
  <1>1. \E v, k, s, m : v = p.version /\ k = p.cueIndex /\ s = p.seq /\ m = p.countdown
    OBVIOUS
  <1>2. PICK v, k, s, m : v = p.version /\ k = p.cueIndex /\ s = p.seq /\ m = p.countdown
    BY <1>1
  <1>3. /\ v = 1 /\ v \in Nat /\ k \in Nat /\ k < 256 /\ s \in Nat /\ s < 16
        /\ m \in Nat /\ m <= 102300
    BY <1>2, FieldsInRange
  <1> DEFINE c == m \div 100
             x == BitsOf(p)
             data == Pushed(v, 4) \o Pushed(k, 8) \o Pushed(s, 4) \o Pushed(c, 10)
  <1>4. Laid(Pushed(v, 4), Pushed(k, 8), Pushed(s, 4), Pushed(c, 10), data, x)
    BY <1>2, Zenon DEF BitsOf, CountdownRes, Laid
  <1> HIDE DEF x, data
  <1>5. c \in Nat /\ c < 1024 /\ c * 100 = m - (m % 100)
    BY <1>3, CountdownSent
  <1> HIDE DEF c
  <1>6. /\ x \in Bits /\ Syndrome(Ones(x)) = {}
        /\ Taken(x, 0, 4) = v /\ Taken(x, 4, 8) = k /\ Taken(x, 12, 4) = s
        /\ Taken(x, 16, 10) = c
    BY <1>3, <1>4, <1>5, EncodedFields
  <1>7. PayloadOf(x) = [version |-> v, cueIndex |-> k, seq |-> s, countdown |-> m - (m % 100)]
    BY <1>5, <1>6 DEF PayloadOf, CountdownRes
  <1>8. PayloadOf(x) = [p EXCEPT !.countdown = @ - (@ % CountdownRes)]
    BY <1>2, <1>7 DEF PayloadTyped, CountdownRes
  <1> QED
    BY <1>6, <1>8 DEF x

\* What a payload says once it was sent: the countdown in whole steps.
Sent(p) == [p EXCEPT !.countdown = @ - (@ % CountdownRes)]

\* What is accepted after up to three symbols were damaged is what was sent: nothing
\* was damaged.
LEMMA AcceptedAsSent ==
  ASSUME NEW p, PayloadTyped(p), PayloadOK(p), NEW E \in SUBSET Symbol, Cardinality(E) <= 3,
         Parses(Flipped(BitsOf(p), E))
  PROVE  PayloadOf(Flipped(BitsOf(p), E)) = Sent(p)
  <1> DEFINE x == BitsOf(p)
             y == Flipped(x, E)
  <1>1. x \in Bits /\ Syndrome(Ones(x)) = {} /\ PayloadOf(x) = Sent(p)
    BY EncodedBits DEF Sent
  <1> HIDE DEF x
  <1>2. y \in Bits /\ Ones(y) = Xor(Ones(x), E)
    BY <1>1, FlippedOnes
  <1>3. Parses(y)
    BY DEF x
  <1> HIDE DEF y
  <1>4. Syndrome(Ones(y)) = {}
    BY <1>2, <1>3, ParsedIsChecked
  <1>5. Syndrome(Ones(y)) = Xor(Syndrome(Ones(x)), Syndrome(E))
    BY <1>2, SyndromeLinear
  <1>6. Syndrome(E) = {}
    BY <1>1, <1>4, <1>5, XorEmpty
  <1>7. E = {}
    BY <1>6, SmallDamage
  <1>8. Ones(y) = Ones(x)
    BY <1>2, <1>7, XorEmpty
  <1>9. y = x
    BY <1>1, <1>2, <1>8, SameOnes
  <1> QED
    BY <1>1, <1>9 DEF x, y

\* Damage, and then a chase: the damage of both.
LEMMA FlippedTwice ==
  ASSUME NEW x \in Bits, NEW A \in SUBSET Symbol, NEW B \in SUBSET Symbol
  PROVE  Flipped(Flipped(x, A), B) = Flipped(x, Xor(A, B)) /\ Xor(A, B) \in SUBSET Symbol
  <1> DEFINE y == Flipped(x, A)
             z == Flipped(y, B)
             w == Flipped(x, Xor(A, B))
  <1>1. Xor(A, B) \in SUBSET Symbol
    BY DEF Xor
  <1>2. y \in Bits /\ Ones(y) = Xor(Ones(x), A)
    BY FlippedOnes
  <1>3. w \in Bits /\ Ones(w) = Xor(Ones(x), Xor(A, B))
    BY <1>1, FlippedOnes
  <1> HIDE DEF y, w
  <1>4. z \in Bits /\ Ones(z) = Xor(Ones(y), B)
    BY <1>2, FlippedOnes
  <1> HIDE DEF z
  <1>5. Xor(Xor(Ones(x), A), B) = Xor(Ones(x), Xor(A, B))
    BY DEF Xor
  <1>6. z = w
    BY <1>2, <1>3, <1>4, <1>5, SameOnes
  <1> QED
    BY <1>1, <1>6 DEF z, w, y

\* Sets of symbols are finite, and both damages are no more than the two together.
LEMMA DamageCount ==
  ASSUME NEW A \in SUBSET Symbol, NEW B \in SUBSET Symbol
  PROVE  /\ Cardinality(A) \in Nat /\ Cardinality(B) \in Nat /\ Cardinality(Xor(A, B)) \in Nat
         /\ Cardinality(Xor(A, B)) <= Cardinality(A) + Cardinality(B)
  <1>1. IsFiniteSet(Symbol)
    <2>1. Symbol = 0..33
      BY DEF Symbol, PayloadBits
    <2>2. 0 \in Int /\ 33 \in Int
      OBVIOUS
    <2> QED
      BY <2>1, <2>2, FS_Interval
  <1>2. IsFiniteSet(A) /\ IsFiniteSet(B)
    BY <1>1, FS_Subset
  <1>3. IsFiniteSet(A \cup B) /\ IsFiniteSet(A \cap B)
        /\ Cardinality(A \cup B) = Cardinality(A) + Cardinality(B) - Cardinality(A \cap B)
    BY <1>2, FS_Union, FS_Subset
  <1>4. Xor(A, B) \in SUBSET (A \cup B)
    BY DEF Xor
  <1>5. IsFiniteSet(Xor(A, B)) /\ Cardinality(Xor(A, B)) <= Cardinality(A \cup B)
    BY <1>3, <1>4, FS_Subset
  <1>6. /\ Cardinality(A) \in Nat /\ Cardinality(B) \in Nat /\ Cardinality(A \cap B) \in Nat
        /\ Cardinality(A \cup B) \in Nat /\ Cardinality(Xor(A, B)) \in Nat
    BY <1>2, <1>3, <1>5, FS_CardinalityType
  <1> QED
    BY <1>3, <1>5, <1>6

\* A chase flips as many symbols as it says, or fewer.
LEMMA ChaseCount ==
  ASSUME NEW n \in 1..10, NEW w \in [1..4 -> Symbol]
  PROVE  /\ {w[i] : i \in Chases[n]} \in SUBSET Symbol
         /\ Cardinality(Chases[n]) \in Nat
         /\ Cardinality({w[i] : i \in Chases[n]}) <= Cardinality(Chases[n])
  <1> DEFINE F == {w[i] : i \in Chases[n]}
  <1>0. \A s, t : /\ IsFiniteSet({}) /\ Cardinality({}) = 0
                  /\ IsFiniteSet({s}) /\ Cardinality({s}) = 1
    BY FS_EmptySet, FS_Singleton
  <1>1. ASSUME NEW s, NEW t
        PROVE  (s = t /\ Cardinality({s, t}) = 1) \/ (s # t /\ Cardinality({s, t}) = 2)
    <2>1. CASE s = t
      <3>1. {s, t} = {s}
        BY <2>1
      <3>2. Cardinality({s}) = 1
        BY <1>0, Zenon
      <3> QED
        BY <2>1, <3>1, <3>2, Zenon
    <2>2. CASE s # t
      <3>1. Cardinality({s} \cup {t}) = Cardinality({s}) + 1
        BY <1>0, <2>2, FS_AddElement
      <3>2. {s} \cup {t} = {s, t}
        OBVIOUS
      <3> DEFINE k == Cardinality({s, t})
                 l == Cardinality({s})
      <3>3. k = l + 1
        BY <3>1, <3>2, Zenon
      <3>4. l = 1
        BY <1>0, Zenon
      <3> HIDE DEF k, l
      <3>5. k = 2
        BY <3>3, <3>4
      <3> QED
        BY <2>2, <3>5, Zenon DEF k
    <2> QED
      BY <2>1, <2>2
  <1>2. \/ \E a \in 1..4 : Chases[n] = {a}
        \/ \E a, b \in 1..4 : a # b /\ Chases[n] = {a, b}
    <2>1. /\ Chases[1] = {1} /\ Chases[2] = {2} /\ Chases[3] = {3} /\ Chases[4] = {4}
          /\ Chases[5] = {1, 2} /\ Chases[6] = {1, 3} /\ Chases[7] = {1, 4}
          /\ Chases[8] = {2, 3} /\ Chases[9] = {2, 4} /\ Chases[10] = {3, 4}
      BY DEF Chases
    <2>2. n = 1 \/ n = 2 \/ n = 3 \/ n = 4 \/ n = 5 \/ n = 6 \/ n = 7 \/ n = 8 \/ n = 9 \/ n = 10
      OBVIOUS
    <2> QED
      BY <2>1, <2>2
  <1>3. CASE \E a \in 1..4 : Chases[n] = {a}
    <2>1. PICK a \in 1..4 : Chases[n] = {a}
      BY <1>3
    <2>2. F = {w[a]}
      BY <2>1
    <2>3. Cardinality(F) = 1 /\ Cardinality(Chases[n]) = 1
      BY <1>0, <2>1, <2>2
    <2> QED
      BY <2>1, <2>2, <2>3
  <1>4. CASE \E a, b \in 1..4 : a # b /\ Chases[n] = {a, b}
    <2>1. PICK a \in 1..4, b \in 1..4 : a # b /\ Chases[n] = {a, b}
      BY <1>4
    <2>2. F = {w[a], w[b]}
      BY <2>1
    <2>3. Cardinality({w[a], w[b]}) = 1 \/ Cardinality({w[a], w[b]}) = 2
      BY <1>1, Zenon
    <2>4. Cardinality({a, b}) = 2
      BY <1>1, <2>1, Zenon
    <2> DEFINE k == Cardinality(F)
               l == Cardinality(Chases[n])
    <2>5. (k = 1 \/ k = 2) /\ l = 2
      BY <2>1, <2>2, <2>3, <2>4, Zenon
    <2>6. F \in SUBSET Symbol
      BY <2>1, <2>2
    <2> HIDE DEF k, l, F
    <2>7. k <= l /\ l \in Nat
      BY <2>5
    <2> QED
      BY <2>6, <2>7, Zenon DEF k, l, F
  <1> QED
    BY <1>2, <1>3, <1>4

\* A peak as it was recorded, with its burst.
Damage == NearDamage \cup FarDamage
Burst == [payload : Payload, score : Score, readings : Damage \X Damage,
          weak : Weak, burst : Nat]

\* A detection of the burst is what was sent, if no more than three symbols were damaged
\* or flipped.
AsSent(burst, d) ==
    Cardinality(burst.readings[d.reading[2]]) + d.corrected <= 3 =>
        d.payload = Sent(burst.payload)

\* A burst gives one detection of its own or none, and what it gives is what was sent.
LEMMA OneOrNone ==
  ASSUME NEW k, recording[k] \in Burst, PayloadOK(recording[k].payload)
  PROVE  DemodulateWithRetry(k) = <<>>
         \/ \E d : DemodulateWithRetry(k) = <<d>> /\ d.reading[1] = k /\ AsSent(recording[k], d)
  <1> DEFINE burst == recording[k]
             p == burst.payload
             x == BitsOf(p)
             R(r) == burst.readings[r]
  <1>1. PayloadTyped(p) /\ PayloadOK(p)
    BY PayloadAssumption DEF Burst, PayloadTyped
  <1>2. x \in Bits
    BY <1>1, EncodedBits
  <1>3. R(1) \in SUBSET Symbol /\ R(2) \in SUBSET Symbol /\ burst.weak \in [1..4 -> Symbol]
    <2>1. /\ burst.readings \in Damage \X Damage /\ burst.weak \in Weak
      BY DEF Burst
    <2>2. R(1) \in Damage /\ R(2) \in Damage
      BY <2>1
    <2>3. /\ Damage \subseteq SUBSET Symbol
          /\ \A w \in Weak : w \in [1..4 -> Symbol]
      BY BeaconAssumption DEF Symbol, Damage
    <2> HIDE DEF burst
    <2> QED
      BY <2>1, <2>2, <2>3
  <1>4. \A r : Heard(burst, r) = Flipped(x, R(r))
    BY DEF Heard
  <1>5. CASE Clean(burst) # {}
    <2> DEFINE r == Min(Clean(burst))
               d == [payload |-> PayloadOf(Heard(burst, r)), corrected |-> 0,
                     reading |-> <<k, r>>]
    <2>1. DemodulateWithRetry(k) = <<d>>
      BY <1>5, Zenon DEF DemodulateWithRetry
    <2>2. r \in 1..2 /\ Parses(Heard(burst, r))
      <3>1. Clean(burst) \in SUBSET Int /\ 2 \in Nat /\ \A y \in Clean(burst) : -2 <= y /\ y <= 2
        BY DEF Clean
      <3>2. r \in Clean(burst)
        BY <1>5, <3>1, MinMaxInt, Zenon
      <3> QED
        BY <3>2 DEF Clean
    <2>3. d.reading[1] = k /\ d.reading[2] = r /\ d.corrected = 0
          /\ d.payload = PayloadOf(Heard(burst, r))
      OBVIOUS
    <2> HIDE DEF d, r
    <2>4. R(r) \in SUBSET Symbol
      BY <1>3, <2>2
    <2>5. AsSent(burst, d)
      <3>1. SUFFICES ASSUME Cardinality(R(r)) + 0 <= 3 PROVE d.payload = Sent(p)
        BY <2>3 DEF AsSent
      <3>2. Cardinality(R(r)) <= 3
        BY <2>4, <3>1, DamageCount
      <3>3. Parses(Flipped(x, R(r)))
        BY <1>4, <2>2
      <3>4. PayloadOf(Flipped(x, R(r))) = Sent(p)
        BY <1>1, <2>4, <3>2, <3>3, AcceptedAsSent
      <3> QED
        BY <1>4, <2>3, <3>4
    <2> QED
      BY <2>1, <2>3, <2>5, Zenon
  <1>6. CASE Clean(burst) = {} /\ Chased(burst) # {}
    <2> DEFINE n == Min(Chased(burst))
               d == [payload |-> PayloadOf(TryFlips(burst, n)),
                     corrected |-> Cardinality(Chases[n]), reading |-> <<k, 1>>]
    <2>1. DemodulateWithRetry(k) = <<d>>
      BY <1>6, Zenon DEF DemodulateWithRetry
    <2>2. n \in 1..10 /\ Parses(TryFlips(burst, n))
      <3>1. DOMAIN Chases = 1..10
        BY DEF Chases
      <3>2. Chased(burst) \in SUBSET Int /\ 10 \in Nat
            /\ \A y \in Chased(burst) : -10 <= y /\ y <= 10
        BY <3>1 DEF Chased
      <3>3. n \in Chased(burst)
        BY <1>6, <3>2, MinMaxInt, Zenon
      <3> QED
        BY <3>1, <3>3 DEF Chased
    <2>3. d.reading[1] = k /\ d.reading[2] = 1 /\ d.corrected = Cardinality(Chases[n])
          /\ d.payload = PayloadOf(TryFlips(burst, n))
      OBVIOUS
    <2> HIDE DEF d, n
    <2> DEFINE F == {burst.weak[i] : i \in Chases[n]}
               E == Xor(R(1), F)
    <2>4. F \in SUBSET Symbol /\ Cardinality(Chases[n]) \in Nat
          /\ Cardinality(F) <= Cardinality(Chases[n])
      <3> HIDE DEF burst
      <3> QED
        BY <1>3, <2>2, ChaseCount
    <2>5. TryFlips(burst, n) = Flipped(Flipped(x, R(1)), F)
      BY DEF TryFlips, Heard
    <2> HIDE DEF F
    <2>6. TryFlips(burst, n) = Flipped(x, E) /\ E \in SUBSET Symbol
      BY <1>2, <1>3, <2>4, <2>5, FlippedTwice
    <2>7. /\ Cardinality(R(1)) \in Nat /\ Cardinality(F) \in Nat /\ Cardinality(E) \in Nat
          /\ Cardinality(E) <= Cardinality(R(1)) + Cardinality(F)
      BY <1>3, <2>4, DamageCount
    <2> HIDE DEF E
    <2>8. AsSent(burst, d)
      <3>1. SUFFICES ASSUME Cardinality(R(1)) + Cardinality(Chases[n]) <= 3
                     PROVE  d.payload = Sent(p)
        BY <2>3 DEF AsSent
      <3>2. Cardinality(E) <= 3
        BY <2>4, <2>7, <3>1
      <3>3. Parses(Flipped(x, E))
        BY <2>2, <2>6
      <3>4. PayloadOf(Flipped(x, E)) = Sent(p)
        BY <1>1, <2>6, <3>2, <3>3, AcceptedAsSent
      <3> QED
        BY <2>3, <2>6, <3>4
    <2> QED
      BY <2>1, <2>3, <2>8, Zenon
  <1>7. CASE Clean(burst) = {} /\ Chased(burst) = {}
    BY <1>7, Zenon DEF DemodulateWithRetry
  <1> QED
    BY <1>5, <1>6, <1>7

\* The bursts are in the order of time, and so are the detections; the search goes on
\* after the bursts that have been detected, and each detection is what was sent; there
\* are none while the recording grows.
BeaconInv ==
    /\ recording \in Seq(Burst) /\ from \in Nat \ {0}
    /\ \A k \in 1..Len(recording) : PayloadOK(recording[k].payload)
    /\ \A m, n \in 1..Len(recording) : m <= n => recording[m].burst <= recording[n].burst
    /\ \E D : out \in Seq(D)
    /\ listening = "recording" => out = <<>>
    /\ \A i \in DOMAIN out : out[i].reading[1] \in 1..Len(recording)
    /\ \A i \in DOMAIN out :
        \A n \in 1..Len(recording) :
            from <= n => recording[out[i].reading[1]].burst < recording[n].burst
    /\ \A i, j \in DOMAIN out :
           i < j => recording[out[i].reading[1]].burst < recording[out[j].reading[1]].burst
    /\ \A i \in DOMAIN out : AsSent(recording[out[i].reading[1]], out[i])

\* A peak of the last burst or of one more.
LEMMA OnePeakMore ==
  ASSUME BeaconInv, listening = "recording", UNCHANGED <<from, out, listening>>,
         NEW b \in Burst, PayloadOK(b.payload), Bursts <= b.burst,
         recording' = Append(recording, b)
  PROVE  BeaconInv'
  <1>1. /\ recording' \in Seq(Burst) /\ Len(recording') = Len(recording) + 1
        /\ \A n \in 1..Len(recording) : recording'[n] = recording[n]
        /\ recording'[Len(recording) + 1] = b /\ Len(recording) \in Nat
        /\ \A n \in 1..Len(recording) : recording[n] \in Burst
    BY DEF BeaconInv
  <1>2. \A n \in 1..Len(recording) : recording[n].burst \in Nat
    BY <1>1 DEF Burst
  <1>3. b.burst \in Nat
    BY DEF Burst
  <1>4. ASSUME NEW n \in 1..Len(recording) PROVE recording[n].burst <= b.burst
    <2>1. /\ Len(recording) \in 1..Len(recording) /\ n <= Len(recording)
          /\ recording # <<>>
      BY <1>1
    <2>2. recording[n].burst <= recording[Len(recording)].burst
      BY <2>1 DEF BeaconInv
    <2>3. recording[Len(recording)].burst <= b.burst
      BY <2>1 DEF Bursts
    <2> QED
      BY <1>2, <1>3, <2>1, <2>2, <2>3
  <1>5. ASSUME NEW n \in 1..Len(recording') PROVE PayloadOK(recording'[n].payload)
    <2>1. n \in 1..Len(recording) \/ n = Len(recording) + 1
      BY <1>1
    <2>2. CASE n \in 1..Len(recording)
      <3>1. PayloadOK(recording[n].payload)
        BY <2>2 DEF BeaconInv
      <3> QED
        BY <1>1, <2>2, <3>1
    <2>3. CASE n = Len(recording) + 1
      BY <1>1, <2>3
    <2> QED
      BY <2>1, <2>2, <2>3
  <1>6. ASSUME NEW m \in 1..Len(recording'), NEW n \in 1..Len(recording'), m <= n
        PROVE  recording'[m].burst <= recording'[n].burst
    <2>1. CASE n \in 1..Len(recording)
      <3>1. m \in 1..Len(recording)
        BY <1>1, <1>6, <2>1
      <3>2. recording[m].burst <= recording[n].burst
        BY <1>6, <2>1, <3>1 DEF BeaconInv
      <3> QED
        BY <1>1, <2>1, <3>1, <3>2
    <2>2. CASE n = Len(recording) + 1
      <3>1. CASE m \in 1..Len(recording)
        BY <1>1, <1>4, <2>2, <3>1
      <3>2. CASE m = Len(recording) + 1
        BY <1>1, <1>3, <2>2, <3>2
      <3> QED
        BY <1>1, <3>1, <3>2
    <2> QED
      BY <1>1, <2>1, <2>2
  <1>7. out = <<>>
    BY DEF BeaconInv
  <1>8. DOMAIN out' = {} /\ out' \in Seq({})
    BY <1>7
  <1>9. from' \in Nat \ {0} /\ listening' = listening /\ out' = <<>>
    BY <1>7 DEF BeaconInv
  <1> QED
    BY <1>1, <1>5, <1>6, <1>8, <1>9 DEF BeaconInv

\* One more at the end.
LEMMA OneMore ==
  ASSUME NEW D, NEW s \in Seq(D), NEW d
  PROVE  /\ s \o <<d>> \in Seq(D \cup {d})
         /\ DOMAIN (s \o <<d>>) = DOMAIN s \cup {Len(s) + 1}
         /\ \A i \in DOMAIN s : (s \o <<d>>)[i] = s[i] /\ i < Len(s) + 1
         /\ (s \o <<d>>)[Len(s) + 1] = d /\ Len(s) \in Nat
  <1> DEFINE E == D \cup {d}
  <1>1. s \in Seq(E) /\ <<d>> \in Seq(E) /\ Len(<<d>>) = 1 /\ <<d>>[1] = d
    <2>1. \A i \in DOMAIN s : s[i] \in E
      OBVIOUS
    <2>2. s = [i \in 1..Len(s) |-> s[i]] /\ Len(s) \in Nat
      OBVIOUS
    <2>3. s \in [1..Len(s) -> E]
      BY <2>1, <2>2
    <2> QED
      BY <2>2, <2>3, SeqDef
  <1> HIDE DEF E
  <1>2. s \o <<d>> \in Seq(E) /\ Len(s \o <<d>>) = Len(s) + 1 /\ Len(s) \in Nat
    BY <1>1, ConcatProperties
  <1>3. \A i \in 1..(Len(s) + 1) :
            (s \o <<d>>)[i] = IF i <= Len(s) THEN s[i] ELSE <<d>>[i - Len(s)]
    BY <1>1, ConcatProperties
  <1>4. DOMAIN s = 1..Len(s) /\ DOMAIN (s \o <<d>>) = 1..(Len(s) + 1)
    BY <1>2
  <1> QED
    BY <1>1, <1>2, <1>3, <1>4 DEF E

\* Every step keeps it so.
LEMMA BeaconInductive == BeaconInv /\ [BeaconNext]_beaconVars => BeaconInv'
  <1> SUFFICES ASSUME BeaconInv, [BeaconNext]_beaconVars PROVE BeaconInv'
    OBVIOUS
  <1>0. /\ Len(recording) \in Nat /\ Bursts \in Nat
        /\ \A n \in 1..Len(recording) : recording[n] \in Burst /\ recording[n].burst \in Nat
    <2>1. Len(recording) \in Nat /\ \A n \in 1..Len(recording) : recording[n] \in Burst
      BY DEF BeaconInv
    <2>2. \A n \in 1..Len(recording) : recording[n].burst \in Nat
      BY <2>1 DEF Burst
    <2>3. recording # <<>> => Len(recording) \in 1..Len(recording)
      BY <2>1 DEF BeaconInv
    <2> QED
      BY <2>1, <2>2, <2>3 DEF Bursts
  <1>1. ASSUME NEW p \in Payload, NEW s \in Score, NEW near \in NearDamage,
               NEW far \in FarDamage, NEW w \in Weak, Encode(p, s, near, far, w)
        PROVE  BeaconInv'
    <2> DEFINE b == [payload |-> p, score |-> s, readings |-> <<near, far>>, weak |-> w,
                     burst |-> Bursts + 1]
    <2>1. b \in Burst /\ PayloadOK(b.payload) /\ Bursts <= b.burst
      BY <1>0, <1>1 DEF Burst, Damage, Encode
    <2>2. /\ recording' = Append(recording, b) /\ UNCHANGED <<from, out, listening>>
          /\ listening = "recording"
      BY <1>1 DEF Encode
    <2> HIDE DEF b
    <2> QED
      BY <2>1, <2>2, OnePeakMore
  <1>2. ASSUME NEW s \in Score, NEW damage \in FarDamage, Echoes(s, damage)
        PROVE  BeaconInv'
    <2> DEFINE l == recording[Len(recording)]
               b == [l EXCEPT !.score = s, !.readings = <<damage, damage>>]
    <2>1. /\ recording' = Append(recording, b) /\ UNCHANGED <<from, out, listening>>
          /\ listening = "recording" /\ recording # <<>>
      BY <1>2 DEF Echoes
    <2>2. Len(recording) \in 1..Len(recording)
      BY <1>0, <2>1 DEF BeaconInv
    <2>3. l \in Burst /\ PayloadOK(l.payload) /\ l.burst = Bursts
      BY <1>0, <2>1, <2>2 DEF BeaconInv, Bursts
    <2> HIDE DEF l
    <2>4. b \in Burst /\ b.payload = l.payload /\ b.burst = Bursts
      BY <2>3 DEF Burst, Damage
    <2>5. Bursts <= b.burst
      BY <1>0, <2>4
    <2> HIDE DEF b
    <2> QED
      BY <2>1, <2>3, <2>4, <2>5, OnePeakMore
  <1>3. ASSUME DecodeAll \/ DecodingEnds \/ UNCHANGED beaconVars PROVE BeaconInv'
    <2>1. UNCHANGED <<recording, from, out>>
          /\ (listening' = "recording" => listening = "recording")
      BY <1>3 DEF DecodeAll, DecodingEnds, beaconVars
    <2> QED
      BY <2>1 DEF BeaconInv
  <1>4. ASSUME NEW k \in 1..Peaks, FindChirp(k) PROVE BeaconInv'
    <2>1. k \in from..Len(recording) /\ k \in 1..Len(recording) /\ k \in Nat
      BY <1>0, <1>4 DEF FindChirp, Strongest, BeaconInv
    <2>2. /\ out' = out \o DemodulateWithRetry(k)
          /\ from' \in IF DemodulateWithRetry(k) = <<>> THEN {k + 1} ELSE PastBurst(k)
          /\ recording' = recording /\ listening' = "decoding"
      BY <1>4, Zenon DEF FindChirp
    <2>3. PICK D : out \in Seq(D)
      BY DEF BeaconInv
    <2>4. from' \in Nat \ {0} /\ k < from' /\ from \in Nat /\ from <= k
      BY <2>1, <2>2 DEF PastBurst, BeaconInv
    <2>5. ASSUME NEW i \in DOMAIN out, NEW n \in 1..Len(recording), from' <= n
          PROVE  recording[out[i].reading[1]].burst < recording[n].burst
      <3>1. from <= n
        BY <2>4, <2>5
      <3> QED
        BY <3>1 DEF BeaconInv
    <2>6. CASE DemodulateWithRetry(k) = <<>>
      <3>1. out' = out
        BY <2>2, <2>3, <2>6
      <3>2. \A i \in DOMAIN out' : \A n \in 1..Len(recording') :
                from' <= n => recording'[out'[i].reading[1]].burst < recording'[n].burst
        BY <2>2, <2>5, <3>1
      <3> QED
        BY <2>2, <2>4, <3>1, <3>2 DEF BeaconInv
    <2>7. ASSUME NEW d, DemodulateWithRetry(k) = <<d>>, d.reading[1] = k,
                 AsSent(recording[k], d)
          PROVE  BeaconInv'
      <3>1. out' = out \o <<d>> /\ from' \in PastBurst(k)
        <4>1. <<d>> # <<>>
          OBVIOUS
        <4> QED
          BY <2>2, <2>7, <4>1
      <3>2. /\ out' \in Seq(D \cup {d})
            /\ DOMAIN out' = DOMAIN out \cup {Len(out) + 1}
            /\ \A i \in DOMAIN out : out'[i] = out[i] /\ i < Len(out) + 1 /\ i \in Nat
            /\ out'[Len(out) + 1] = d /\ Len(out) \in Nat
        BY <3>1, <2>3, OneMore
      <3>3. ASSUME NEW i \in DOMAIN out'
            PROVE  out'[i].reading[1] \in 1..Len(recording)
        <4>1. CASE i \in DOMAIN out
          BY <3>2, <4>1 DEF BeaconInv
        <4>2. CASE i = Len(out) + 1
          BY <2>1, <2>7, <3>2, <4>2
        <4> QED
          BY <3>2, <4>1, <4>2
      <3>4. ASSUME NEW n \in 1..Len(recording), from' <= n
            PROVE  recording[k].burst < recording[n].burst
        <4>1. from' \in 1..Len(recording) /\ recording[from'].burst # recording[k].burst
          BY <1>0, <2>4, <3>1, <3>4 DEF PastBurst
        <4>2. recording[k].burst <= recording[from'].burst
              /\ recording[from'].burst <= recording[n].burst
          BY <2>1, <2>4, <3>4, <4>1 DEF BeaconInv
        <4> QED
          BY <1>0, <2>1, <4>1, <4>2
      <3>5. ASSUME NEW i \in DOMAIN out', NEW n \in 1..Len(recording), from' <= n
            PROVE  recording[out'[i].reading[1]].burst < recording[n].burst
        <4>1. CASE i \in DOMAIN out
          BY <2>5, <3>2, <3>5, <4>1
        <4>2. CASE i = Len(out) + 1
          BY <2>7, <3>2, <3>4, <3>5, <4>2
        <4> QED
          BY <3>2, <4>1, <4>2
      <3>6. ASSUME NEW i \in DOMAIN out', NEW j \in DOMAIN out', i < j
            PROVE  recording[out'[i].reading[1]].burst < recording[out'[j].reading[1]].burst
        <4>1. i \in DOMAIN out
          BY <3>2, <3>6
        <4>2. CASE j \in DOMAIN out
          BY <3>2, <3>6, <4>1, <4>2 DEF BeaconInv
        <4>3. CASE j = Len(out) + 1
          <5>1. out'[i] = out[i] /\ out'[j] = d
            BY <3>2, <4>1, <4>3
          <5>2. recording[out[i].reading[1]].burst < recording[k].burst
            BY <2>1, <2>4, <4>1 DEF BeaconInv
          <5> QED
            BY <2>7, <5>1, <5>2
        <4> QED
          BY <3>2, <4>2, <4>3
      <3>7. \E E : out' \in Seq(E)
        BY <3>2, Zenon
      <3>8. ASSUME NEW i \in DOMAIN out'
            PROVE  AsSent(recording[out'[i].reading[1]], out'[i])
        <4>1. CASE i \in DOMAIN out
          <5>1. AsSent(recording[out[i].reading[1]], out[i])
            BY <4>1 DEF BeaconInv
          <5> QED
            BY <3>2, <4>1, <5>1
        <4>2. CASE i = Len(out) + 1
          <5>1. out'[i] = d
            BY <3>2, <4>2
          <5> QED
            BY <2>7, <5>1
        <4> QED
          BY <3>2, <4>1, <4>2
      <3>9. recording' \in Seq(Burst)
        BY <2>2 DEF BeaconInv
      <3>10. /\ \A n \in 1..Len(recording) : PayloadOK(recording[n].payload)
             /\ \A m, n \in 1..Len(recording) :
                    m <= n => recording[m].burst <= recording[n].burst
        BY DEF BeaconInv
      <3> QED
        BY <2>2, <2>4, <3>3, <3>5, <3>6, <3>7, <3>8, <3>9, <3>10 DEF BeaconInv
    <2>8. recording[k] \in Burst /\ PayloadOK(recording[k].payload)
      BY <2>1 DEF BeaconInv
    <2> QED
      BY <2>6, <2>7, <2>8, OneOrNone
  <1> QED
    BY <1>1, <1>2, <1>3, <1>4 DEF BeaconNext

\* For any recording and any damage: each burst is detected once at most, in the order
\* of time, and as it was sent if no more than three of its symbols were damaged or
\* flipped.
THEOREM DetectionsAreAsSent == BeaconSpec => []DetectedAsSent
  <1>1. BeaconInit => BeaconInv
    <2> SUFFICES ASSUME BeaconInit PROVE BeaconInv
      OBVIOUS
    <2>1. /\ recording = <<>> /\ from = 1 /\ out = <<>>
      BY DEF BeaconInit
    <2>2. out \in Seq({}) /\ recording \in Seq(Burst) /\ DOMAIN out = {} /\ Len(recording) = 0
      BY <2>1
    <2> QED
      BY <2>1, <2>2 DEF BeaconInv
  <1>2. BeaconInv => DetectedAsSent
    <2> SUFFICES ASSUME BeaconInv PROVE DetectedAsSent
      OBVIOUS
    <2>1. DOMAIN recording = 1..Len(recording)
      BY DEF BeaconInv
    <2>2. InOrderOfTime
      BY <2>1 DEF BeaconInv, InOrderOfTime
    <2>3. DamageDetected
      <3>1. \A i \in DOMAIN out : AsSent(recording[out[i].reading[1]], out[i])
        BY DEF BeaconInv
      <3> QED
        BY <3>1, Zenon DEF DamageDetected, AsSent, Sent
    <2> QED
      BY <2>2, <2>3 DEF DetectedAsSent
  <1> QED
    BY <1>1, <1>2, BeaconInductive, PTL DEF BeaconSpec
=============================================================================
