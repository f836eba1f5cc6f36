------------------------------- MODULE Effect -------------------------------
(***************************************************************************)
(* Spatial effects (packages/manifest/effect.go): a pure function of a     *)
(* seat's place and the time since its cue began.  Places and widths are   *)
(* eighths, a colour is one channel of it, and seats lie on the axes and   *)
(* the diagonals through the middle of the venue.                          *)
(***************************************************************************)
EXTENDS Integers, Sequences

CONSTANTS
    Level,               \* what a channel may be: 0..255
    MaxFlashHz,
    MinEffectPeriod,     \* 334 ms
    MaxPalette, MaxBitmapRows, MaxBitmapCols, MaxFilter

\* The types of an effect's fields; there is none when it is <<>>.
EffectTyped(e) ==
    e # <<>> =>
        /\ {e.period, e.width} \subseteq Int
        /\ e.area # <<>> => {e.area.u0, e.area.u1, e.area.w0, e.area.w1} \subseteq Int

\* The colour of a light that is off, and of a colour that is not given.
Off == -1

Dot == -1   \* a point of a bitmap that is off
-----------------------------------------------------------------------------
\* validate, one operator per kind; e.bitmap is <<>> when there is none.
WaveOK(e) ==
    /\ e.width \in 1..8
    /\ e.period >= MinEffectPeriod
    /\ e.color2 \in Level \cup {Off}
    /\ e.bitmap = <<>>

GradientOK(e, lane) ==
    /\ lane # "torch"
    /\ e.color2 \in Level
    /\ e.period = 0 /\ e.width = 0 /\ e.bitmap = <<>>

AreaOK(a) == 0 <= a.u0 /\ a.u0 < a.u1 /\ a.u1 <= 8 /\ 0 <= a.w0 /\ a.w0 < a.w1 /\ a.w1 <= 8

\* Mutant of ScrollOK: a turn of the whole bitmap held to the limit of a column.
ScrollOKWhole(period, cols) == period = 0 \/ period >= MinEffectPeriod

ScrollOK(period, cols) == period = 0 \/ period >= cols * MinEffectPeriod

BitmapOK(e) ==
    /\ e.bitmap # <<>>
    /\ e.width = 0 /\ e.color2 = Off
    /\ Len(e.bitmap.palette) \in 1..MaxPalette
    /\ \A i \in DOMAIN e.bitmap.palette : e.bitmap.palette[i] \in Level
    /\ Len(e.bitmap.rows) \in 1..MaxBitmapRows
    /\ Len(e.bitmap.rows[1]) \in 1..MaxBitmapCols
    /\ \A i \in DOMAIN e.bitmap.rows :
        /\ Len(e.bitmap.rows[i]) = Len(e.bitmap.rows[1])
        /\ \A j \in DOMAIN e.bitmap.rows[i] :
               e.bitmap.rows[i][j] \in {Dot} \cup 0..(Len(e.bitmap.palette) - 1)
    /\ ScrollOK(e.period, Len(e.bitmap.rows[1]))
    /\ e.area # <<>> => AreaOK(e.area)

CycleOK(e, lane) ==
    /\ lane # "torch"
    /\ Len(e.colors) \in 2..MaxPalette
    /\ \A i \in DOMAIN e.colors : e.colors[i] \in Level
    /\ e.period = 0 \/ e.period >= MinEffectPeriod
    /\ e.axis = "" /\ e.width = 0 /\ e.color2 = Off /\ e.bitmap = <<>>

\* blocks: the names of the venue's blocks; there is no venue when there are none.
EffectOK(e, lane, blocks) ==
    /\ e.axis \in {"", "u", "v", "w", "ring"}
    /\ Len(e.blocks) <= MaxFilter
    /\ \A i \in DOMAIN e.blocks :
        e.blocks[i] \in blocks /\ \A j \in 1..(i - 1) : e.blocks[j] # e.blocks[i]
    /\ e.area # <<>> => e.kind = "bitmap"
    /\ e.colors # <<>> => e.kind = "cycle"
    /\ \/ e.kind = "wave" /\ WaveOK(e)
       \/ e.kind = "gradient" /\ GradientOK(e, lane)
       \/ e.kind = "bitmap" /\ BitmapOK(e)
       \/ e.kind = "cycle" /\ CycleOK(e, lane)
-----------------------------------------------------------------------------
Sign(n) == IF n > 0 THEN 1 ELSE IF n < 0 THEN -1 ELSE 0

\* The share of a turn at which a seat lies around the middle.
Turn(u, v) ==
    LET around == <<<<1, 0>>, <<1, 1>>, <<0, 1>>, <<-1, 1>>, <<-1, 0>>, <<-1, -1>>,
                    <<0, -1>>, <<1, -1>>>>
        there == {k \in 1..8 : around[k] = <<Sign(u - 4), Sign(v - 4)>>}
    IN  IF there = {} THEN 0 ELSE (CHOOSE k \in there : TRUE) - 1

AxisPos(e, seat) ==
    LET p == IF e.axis = "v" THEN seat.v
             ELSE IF e.axis = "w" THEN seat.w
             ELSE IF e.axis = "ring" THEN Turn(seat.u, seat.v)
             ELSE seat.u
    IN  IF e.reverse THEN 8 - p ELSE p

Dist(a, b) == IF a < b THEN b - a ELSE a - b

\* The front of the sweep has gone since % period; both are put in units of
\* period * 8, and the sweep is wrapped.
EvalWave(e, cueColor, seat, since) ==
    LET d == Dist(AxisPos(e, seat) * e.period, 8 * (since % e.period))
        wrapped == IF 2 * d > 8 * e.period THEN 8 * e.period - d ELSE d
    IN  IF 2 * wrapped <= e.width * e.period THEN cueColor ELSE e.color2

\* Rounded to the nearest, a half upwards.
LerpColor(c1, c2, p) == (2 * (8 * c1 + (c2 - c1) * p) + 8) \div 16

EvalCycle(e, since) ==
    IF e.period <= 0 THEN e.colors[1]
    ELSE e.colors[1 + ((since \div e.period) % Len(e.colors))]

Clamp(n, last) == IF n > last THEN last ELSE IF n < 0 THEN 0 ELSE n

EvalBitmap(e, seat, since) ==
    LET area == IF e.area = <<>> THEN [u0 |-> 0, w0 |-> 0, u1 |-> 8, w1 |-> 8]
                ELSE e.area
        p == AxisPos(e, seat)
        q == seat.w
        cols == Len(e.bitmap.rows[1])
        rows == Len(e.bitmap.rows)
        turn == IF e.period > 0 THEN e.period ELSE 1
        wide == (area.u1 - area.u0) * turn
        at == (p - area.u0) * turn
              + IF e.period > 0 THEN (since % turn) * (area.u1 - area.u0) ELSE 0
        along == IF e.period > 0 /\ at >= wide THEN at - wide ELSE at
        col == Clamp((along * cols) \div wide, cols - 1)
        row == Clamp(((area.w1 - q) * rows) \div (area.w1 - area.w0), rows - 1)
        point == e.bitmap.rows[row + 1][col + 1]
    IN  IF p < area.u0 \/ p > area.u1 \/ q < area.w0 \/ q > area.w1 \/ point = Dot
        THEN Off ELSE e.bitmap.palette[point + 1]

Excluded(e, seat) ==
    e.blocks # <<>> /\ \A i \in DOMAIN e.blocks : e.blocks[i] # seat.block

EvalEffect(e, cueColor, seat, since) ==
    IF Excluded(e, seat) THEN Off
    ELSE IF e.kind = "wave" THEN EvalWave(e, cueColor, seat, since)
    ELSE IF e.kind = "gradient" THEN LerpColor(cueColor, e.color2, AxisPos(e, seat))
    ELSE IF e.kind = "cycle" THEN EvalCycle(e, since)
    ELSE EvalBitmap(e, seat, since)
=============================================================================
