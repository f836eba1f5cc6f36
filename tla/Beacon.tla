------------------------------- MODULE Beacon -------------------------------
(***************************************************************************)
(* The ultrasonic beacon (packages/beacon): a burst carries 34 bits after  *)
(* a chirp, the last eight of them a CRC; a recording holds bursts, some   *)
(* of them damaged on the way, and the decoder looks for chirps, reads the *)
(* symbols after each and flips up to two of the weakest.  Sound is left   *)
(* out: a burst's chirp makes a peak that correlates at some score, and so *)
(* may its echoes, before the burst is over; the symbols are read more     *)
(* than once, near the place that the peak gives and further from it; a    *)
(* reading hears each symbol as 0 or 1, with some margin.                  *)
(***************************************************************************)
EXTENDS Integers, Sequences, FiniteSets, FiniteSetsExt

CONSTANTS
    Payload,       \* what may be encoded
    NearDamage,    \* sets of places whose symbols a near reading hears wrongly
    FarDamage,     \* and a far one
    Weak,          \* the four places with the least margins, the least first
    Score,         \* what a chirp may correlate at, in percent
    Threshold,     \* 35
    Recorded,      \* bound: bursts of a recording
    Peaks,         \* bound: peaks of a recording
    MaxDetections  \* how many DecodeAll is asked for

PayloadBits == 34
CountdownRes == 100

ASSUME BeaconAssumption ==
    /\ NearDamage \cup FarDamage \subseteq SUBSET (0..(PayloadBits - 1))
    /\ \A w \in Weak : w \in [1..4 -> 0..(PayloadBits - 1)]
    /\ Threshold \in Nat

\* The types of a payload's fields.
ASSUME PayloadAssumption ==
    Payload \subseteq [version : Int, cueIndex : Int, seq : Int, countdown : Int]

VARIABLES
    recording,    \* the peaks, each with its burst, in the order of time
    from,         \* the peak at which the search goes on
    out,          \* the detections
    listening     \* whether DecodeAll is at work

beaconVars == <<recording, from, out, listening>>

BeaconInit ==
    /\ recording = <<>> /\ from = 1 /\ out = <<>>
    /\ listening = "recording"
-----------------------------------------------------------------------------
PayloadOK(p) ==
    /\ p.version = 1
    /\ p.cueIndex \in 0..255
    /\ p.seq \in 0..15
    /\ p.countdown \in 0..(1023 * CountdownRes)

\* The first bits of what push(v, n) appends is the highest.
Pushed(v, n) == [i \in 1..n |-> (v \div 2^(n - i)) % 2]

\* A byte, and the register of the CRC, is the set of its bits that are 1.
PackBits(bits) ==
    [byte \in 0..((Len(bits) + 7) \div 8 - 1) |->
        {b \in 0..7 : LET i == 8 * byte + 8 - b
                      IN  i <= Len(bits) /\ bits[i] # 0}]

Xor(S, T) == (S \ T) \cup (T \ S)

\* Mutant of Poly: the polynomial of a rotation.
PolyRotation == {0}

Poly == {0, 1, 2}   \* 0x07

Shift(crc) ==
    LET up == {b + 1 : b \in crc \ {7}}
    IN  IF 7 \in crc THEN Xor(up, Poly) ELSE up

\* A byte of the CRC: eight shifts.
ShiftByte(crc) == Shift(Shift(Shift(Shift(Shift(Shift(Shift(Shift(crc))))))))

Crc8(bytes) ==
    LET after[n \in 0..Cardinality(DOMAIN bytes)] ==
            IF n = 0 THEN {} ELSE ShiftByte(Xor(after[n - 1], bytes[n - 1]))
    IN  after[Cardinality(DOMAIN bytes)]

CrcBits(bits) ==
    LET crc == Crc8(PackBits(bits))
    IN  [i \in 1..8 |-> IF 8 - i \in crc THEN 1 ELSE 0]

BitsOf(p) ==
    LET data == Pushed(p.version, 4) \o Pushed(p.cueIndex, 8) \o Pushed(p.seq, 4)
                \o Pushed(p.countdown \div CountdownRes, 10)
    IN  data \o CrcBits(data)

\* take(off, n): each bit moves those before it up.
Taken(bits, off, n) ==
    LET v[i \in 0..n] == IF i = 0 THEN 0 ELSE 2 * v[i - 1] + bits[off + i]
    IN  v[n]

PayloadOf(bits) ==
    [version |-> Taken(bits, 0, 4), cueIndex |-> Taken(bits, 4, 8),
     seq |-> Taken(bits, 12, 4), countdown |-> Taken(bits, 16, 10) * CountdownRes]

\* parseBits succeeds.
Parses(bits) ==
    /\ SubSeq(bits, 27, PayloadBits) = CrcBits(SubSeq(bits, 1, 26))
    /\ PayloadOK(PayloadOf(bits))

Flipped(bits, at) ==
    [i \in DOMAIN bits |-> IF i - 1 \in at THEN 1 - bits[i] ELSE bits[i]]
-----------------------------------------------------------------------------
\* The bursts so far: a peak has the number of its burst.
Bursts == IF recording = <<>> THEN 0 ELSE recording[Len(recording)].burst

\* Encode refuses a payload that is out of range.
Encode(p, score, near, far, weak) ==
    /\ listening = "recording"
    /\ Bursts < Recorded /\ Len(recording) < Peaks
    /\ PayloadOK(p)
    /\ recording' = Append(recording,
           [payload |-> p, score |-> score, readings |-> <<near, far>>, weak |-> weak,
            burst |-> Bursts + 1])
    /\ UNCHANGED <<from, out, listening>>

\* Another peak half a chirp or more after the last one, before its burst is
\* over: what is read from there is damaged as a far reading is.
Echoes(score, damage) ==
    /\ listening = "recording"
    /\ recording # <<>> /\ Len(recording) < Peaks
    /\ recording' = Append(recording,
           [recording[Len(recording)] EXCEPT !.score = score, !.readings = <<damage, damage>>])
    /\ UNCHANGED <<from, out, listening>>

DecodeAll ==
    /\ listening = "recording"
    /\ listening' = "decoding"
    /\ UNCHANGED <<recording, from, out>>

Heard(burst, r) == Flipped(BitsOf(burst.payload), burst.readings[r])

\* The readings that parse as they are, in the order they are tried.
Clean(burst) == {r \in 1..2 : Parses(Heard(burst, r))}

\* One of the weakest, then two of them, in the order of the loops.
Chases == <<{1}, {2}, {3}, {4}, {1, 2}, {1, 3}, {1, 4}, {2, 3}, {2, 4}, {3, 4}>>

\* tryFlips on the near reading: the far ones are not chased.
TryFlips(burst, n) == Flipped(Heard(burst, 1), {burst.weak[i] : i \in Chases[n]})
Chased(burst) == {n \in DOMAIN Chases : Parses(TryFlips(burst, n))}

\* demodulateWithRetry from the peak k: the first clean reading, or else the
\* first chase; no detection when there is neither.
DemodulateWithRetry(k) ==
    LET burst == recording[k]
    IN  IF Clean(burst) # {}
        THEN LET r == Min(Clean(burst))
             IN  <<[payload |-> PayloadOf(Heard(burst, r)), corrected |-> 0,
                    reading |-> <<k, r>>]>>
        ELSE IF Chased(burst) # {}
             THEN LET n == Min(Chased(burst))
                  IN  <<[payload |-> PayloadOf(TryFlips(burst, n)),
                         corrected |-> Cardinality(Chases[n]), reading |-> <<k, 1>>]>>
             ELSE <<>>

\* findChirp: the strongest from here on, the first of those that are as strong.
Strongest ==
    {k \in from..Len(recording) :
        /\ recording[k].score >= Threshold
        /\ \A j \in from..Len(recording) :
               \/ recording[j].score < recording[k].score
               \/ recording[j].score = recording[k].score /\ k <= j}

\* Mutant of PastBurst: the search goes on half a chirp further, as after a
\* failure.
PastPeak(k) == {k + 1}

\* The first peak of a later burst, if there is one.
PastBurst(k) ==
    {n \in (k + 1)..(Len(recording) + 1) :
        /\ \A m \in k..(n - 1) : recording[m].burst = recording[k].burst
        /\ n <= Len(recording) => recording[n].burst # recording[k].burst}

\* A turn of DecodeAll's loop: after a detection the search goes on when the
\* burst is over, and otherwise half a chirp further, in the same burst.
FindChirp(k) ==
    /\ listening = "decoding" /\ Len(out) < MaxDetections
    /\ k \in Strongest
    /\ LET detection == DemodulateWithRetry(k)
       IN  /\ out' = out \o detection
           /\ from' \in IF detection = <<>> THEN {k + 1} ELSE PastBurst(k)
    /\ UNCHANGED <<recording, listening>>

DecodingEnds ==
    /\ listening = "decoding"
    /\ Len(out) = MaxDetections \/ Strongest = {}
    /\ listening' = "done"
    /\ UNCHANGED <<recording, from, out>>

BeaconNext ==
    \/ \E p \in Payload, s \in Score, near \in NearDamage, far \in FarDamage, w \in Weak :
           Encode(p, s, near, far, w)
    \/ \E s \in Score, damage \in FarDamage : Echoes(s, damage)
    \/ DecodeAll \/ DecodingEnds
    \/ \E k \in 1..Peaks : FindChirp(k)

BeaconSpec == BeaconInit /\ [][BeaconNext]_beaconVars
-----------------------------------------------------------------------------
\* Damage of up to three symbols is never taken for a payload: what is accepted
\* from a reading in which no more than three symbols are wrong or are flipped
\* is what was sent.
DamageDetected ==
    \A i \in DOMAIN out :
        LET burst == recording[out[i].reading[1]]
            damage == burst.readings[out[i].reading[2]]
        IN  Cardinality(damage) + out[i].corrected <= 3 =>
                out[i].payload = [burst.payload EXCEPT
                                      !.countdown = @ - (@ % CountdownRes)]

\* No burst is detected twice, though its echoes are peaks too, the detections
\* are in the order of time, and what was detected had been recorded.
InOrderOfTime ==
    /\ \A i \in DOMAIN out : out[i].reading[1] \in DOMAIN recording
    /\ \A i, j \in DOMAIN out :
           i < j => recording[out[i].reading[1]].burst < recording[out[j].reading[1]].burst

\* What is detected is what was sent, once and in the order it was sent, for any
\* damage of up to three symbols.
DetectedAsSent == DamageDetected /\ InOrderOfTime
=============================================================================
