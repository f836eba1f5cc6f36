------------------------------ MODULE Manifest ------------------------------
(***************************************************************************)
(* What a manifest must be to be published (packages/manifest/manifest.go) *)
(* and what a seat then sees of one of its effects.  A refused manifest is *)
(* shown to nobody.                                                        *)
(***************************************************************************)
EXTENDS Effect, FiniteSets

CONSTANTS
    Show,                \* manifests that may be uploaded
    Seat,                \* where phones sit: place and block
    FormatVersion,
    MaxSequences, MaxLines, MaxCues, MaxDuration,
    Second,              \* 1000 ms
    MaxSince             \* bound: how long a cue is watched

ASSUME ManifestAssumption ==
    /\ {MaxFlashHz, MinEffectPeriod, Second, MaxSince} \subseteq Nat \ {0}
    /\ Second <= MaxFlashHz * MinEffectPeriod

\* What the types of a manifest's fields say, and where seats lie.
ASSUME ShowAssumption ==
    /\ \A p \in Seat : {p.u, p.v, p.w} \subseteq 0..8
    /\ \A m \in Show :
        /\ DOMAIN m = {"version", "title", "blocks", "program", "sequences"}
        /\ DOMAIN m.program = 1..Len(m.program) /\ Len(m.program) \in Nat
        /\ \A n \in DOMAIN m.program : m.program[n].at \in Int
        /\ \A i \in DOMAIN m.sequences :
            /\ m.sequences[i].duration \in Int
            /\ \A l \in DOMAIN m.sequences[i].lanes :
                \A c \in DOMAIN m.sequences[i].lanes[l].cues :
                    EffectTyped(m.sequences[i].lanes[l].cues[c].effect)

VARIABLES
    show,      \* the manifest
    verdict,   \* of Parse
    playing,   \* the lane's kind and the cue that is watched, and the seat
    since,     \* the time since it began
    onsets     \* history: when the seat's light turned to which colour in the
               \* last second

showVars == <<show, verdict, playing, since, onsets>>

Nothing == <<>>
ProgramCueID == "program"

ManifestInit ==
    /\ show \in Show
    /\ verdict = "raw" /\ playing = Nothing /\ since = 0 /\ onsets = {}
-----------------------------------------------------------------------------
\* validateCue: the effect and flash_hz exclude each other.
CueOK(lane, c, duration, blocks) ==
    /\ c.at \in 0..duration /\ c.duration >= 0
    /\ c.effect # Nothing => c.flashHz = 0
    /\ lane \in {"screen", "torch"} =>
        /\ c.flashHz \in 0..MaxFlashHz /\ c.asset = ""
        /\ IF lane = "screen" THEN c.color \in Level ELSE c.color = Off
        /\ c.effect # Nothing => EffectOK(c.effect, lane, blocks)
    /\ lane = "audio" =>
        c.asset # "" /\ c.color = Off /\ c.flashHz = 0 /\ c.effect = Nothing

LanesOK(s, blocks) ==
    \A i \in DOMAIN s.lanes :
        LET lane == s.lanes[i]
        IN  /\ lane.id # "" /\ \A j \in 1..(i - 1) : s.lanes[j].id # lane.id
            /\ lane.kind \in {"screen", "torch", "audio"}
            /\ Len(lane.cues) <= MaxCues
            /\ \A k \in DOMAIN lane.cues :
                   CueOK(lane.kind, lane.cues[k], s.duration, blocks)

LinesOK(s) ==
    /\ Len(s.lines) <= MaxLines
    /\ \A i \in DOMAIN s.lines :
        /\ s.lines[i].text # "" /\ s.lines[i].duration >= 0
        /\ s.lines[i].at \in 0..s.duration

SequencesOK(m) ==
    /\ Len(m.sequences) \in 1..MaxSequences
    /\ \A i \in DOMAIN m.sequences :
        LET s == m.sequences[i]
        IN  /\ s.id \notin {"", ProgramCueID}
            /\ \A j \in 1..(i - 1) : m.sequences[j].id # s.id
            /\ s.duration \in 1..MaxDuration
            /\ LinesOK(s) /\ LanesOK(s, m.blocks)

DurationOf(m, id) ==
    m.sequences[CHOOSE i \in DOMAIN m.sequences : m.sequences[i].id = id].duration

\* prevEnd after the first n items.
EndOf(m, n) ==
    IF n = 0 THEN 0 ELSE m.program[n].at + DurationOf(m, m.program[n].sequence)

ProgramOK(m) ==
    \A n \in DOMAIN m.program :
        /\ \E i \in DOMAIN m.sequences : m.sequences[i].id = m.program[n].sequence
        /\ m.program[n].at >= 0
        /\ m.program[n].at >= EndOf(m, n - 1)

\* Parse: an absent version is the present one.  The venue has a module of its own.
Parse ==
    /\ verdict = "raw"
    /\ show' = [show EXCEPT !.version = IF @ = 0 THEN FormatVersion ELSE @]
    /\ verdict' = IF /\ show'.version = FormatVersion /\ show'.title # ""
                     /\ SequencesOK(show') /\ ProgramOK(show')
                  THEN "valid" ELSE "refused"
    /\ UNCHANGED <<playing, since, onsets>>

\* The light of a seat; a torch is either on or off.
Light(p, at) ==
    EvalEffect(p.cue.effect, IF p.lane = "torch" THEN 255 ELSE p.cue.color, p.seat, at)

\* A cue with an effect begins on a phone in some seat.
CueStarts(s, l, c, seat) ==
    /\ verdict = "valid" /\ playing = Nothing
    /\ s \in DOMAIN show.sequences
    /\ l \in DOMAIN show.sequences[s].lanes
    /\ c \in DOMAIN show.sequences[s].lanes[l].cues
    /\ LET lane == show.sequences[s].lanes[l]
       IN  /\ lane.cues[c].effect # Nothing
           /\ playing' = [lane |-> lane.kind, cue |-> lane.cues[c], seat |-> seat]
    /\ UNCHANGED <<show, verdict, since, onsets>>

Frame ==
    /\ playing # Nothing /\ since < MaxSince
    /\ since' = since + 1
    /\ LET before == Light(playing, since)
           after == Light(playing, since')
       IN  onsets' = {o \in onsets : o.at > since' - Second} \cup
                     IF after \in {before, Off} THEN {}
                     ELSE {[at |-> since', color |-> after]}
    /\ UNCHANGED <<show, verdict, playing>>

ManifestNext ==
    \/ Parse \/ Frame
    \/ \E s, l, c \in 1..MaxCues, seat \in Seat : CueStarts(s, l, c, seat)

ManifestSpec == ManifestInit /\ [][ManifestNext]_showVars
-----------------------------------------------------------------------------
\* While a cue with an effect lasts, no seat's light turns to one colour more
\* often than MaxFlashHz times in any second.
FlashLimited ==
    \A o \in onsets : Cardinality({n \in onsets : n.color = o.color}) <= MaxFlashHz

\* The program has every sequence it names, and at no moment two at once.
PlayingAt(t) ==
    {n \in DOMAIN show.program :
        /\ show.program[n].at <= t
        /\ t < show.program[n].at + DurationOf(show, show.program[n].sequence)}

OneSequenceAtATime ==
    verdict = "valid" =>
        \A m, n \in DOMAIN show.program :
            m \in PlayingAt(show.program[n].at) => m = n

ShowSafe == FlashLimited /\ OneSequenceAtATime
=============================================================================
