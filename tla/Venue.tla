------------------------------- MODULE Venue -------------------------------
(***************************************************************************)
(* Where a seat is (packages/manifest/venue.go): the plan of a venue is    *)
(* checked when a manifest is parsed; a seat is written on a ticket, read  *)
(* by a phone and resolved to a place between 0 and 1 on each axis.        *)
(*                                                                         *)
(* A string is the sequence of its parts between dashes.  Positions are    *)
(* integers; radii are tens of them, angles are eighths of a turn, and     *)
(* what is 8 long on a circle of radius 1 is the whole circle.             *)
(***************************************************************************)
EXTENDS Integers, Sequences, FiniteSets, FiniteSetsExt, Functions

CONSTANTS
    Plan,            \* venues that may be uploaded
    Ref,             \* seats asked for: block, row and seat
    Typed,           \* tickets written by hand
    MaxVenueBlocks, MaxVenueSeats, MaxLandmark,
    IntLimit         \* the first number beyond an int: 2^63

ASSUME VenueAssumption ==
    /\ {MaxVenueBlocks, MaxVenueSeats, MaxLandmark} \subseteq Nat
    /\ IntLimit \in Nat \ {0}

\* What the types of a block's fields say; a point is an axis after the other.
IsPoint(p) == DOMAIN p = 1..3 /\ \A axis \in 1..3 : p[axis] \in Int

ASSUME PlanAssumption ==
    \A v \in Plan :
        /\ DOMAIN v.blocks = 1..Len(v.blocks) /\ Len(v.blocks) \in Nat
        /\ \A i \in DOMAIN v.blocks :
            LET b == v.blocks[i]
            IN  /\ {b.rows, b.seatsPerRow, b.radius, b.rowStep, b.rake, b.angleStart,
                    b.angleEnd, b.seatStep} \subseteq Int
                /\ IsPoint(b.origin) /\ IsPoint(b.rowVec) /\ IsPoint(b.seatVec)
                /\ b.center = <<>> \/ IsPoint(b.center)

\* A ticket is for a block that has a name; rows and seats are counted from 1.
ASSUME RefAssumption ==
    /\ Ref \subseteq [block : Seq(STRING), row : 1..9, seat : 1..9]
    /\ \A ref \in Ref : Len(ref.block) > 0 /\ ref.block # <<"">>

VARIABLES
    venue,     \* the plan
    seatRef,   \* the seat the ticket is for
    ticket,    \* what is written on it
    heard,     \* the seat the phone has read there
    seatPos,   \* where the phone takes itself to be, an axis as <<part, whole>>
    finding    \* how far the phone has come

venueVars == <<venue, seatRef, ticket, heard, seatPos, finding>>

VenueInit ==
    /\ venue \in Plan
    /\ seatRef \in Ref
    /\ ticket = <<>> /\ heard = <<>> /\ seatPos = <<>>
    /\ finding = "uploaded"
-----------------------------------------------------------------------------
Cos == [a \in 0..7 |-> <<10, 7, 0, -7, -10, -7, 0, 7>>[a + 1]]
Towards(a) == <<Cos[a % 8], Cos[(a + 6) % 8]>>

RadiusOf(b, row) == b.radius + (row - 1) * b.rowStep

SeatsInRow(b, row) ==
    IF b.kind # "arc" THEN b.seatsPerRow
    ELSE (RadiusOf(b, row) * (b.angleEnd - b.angleStart)) \div b.seatStep + 1

OnArc(b, row, angle) ==
    LET r == RadiusOf(b, row)
    IN  <<b.center[1] + r * Towards(angle)[1], b.center[2] + r * Towards(angle)[2],
          b.center[3] + (row - 1) * b.rake>>

SeatWorld(b, row, seat) ==
    IF b.kind = "arc"
    THEN OnArc(b, row, b.angleStart + ((seat - 1) * b.seatStep) \div RadiusOf(b, row))
    ELSE [axis \in 1..3 |-> b.origin[axis] + (row - 1) * b.rowVec[axis]
                                           + (seat - 1) * b.seatVec[axis]]

\* Mutant of ExtremeAngles: the ends of the arc only.
ArcEnds(b) == {b.angleStart, b.angleEnd}

\* The ends of the arc and the quarter turns between them.
ExtremeAngles(b) ==
    {b.angleStart, b.angleEnd} \cup
    {a \in b.angleStart..b.angleEnd : a % 2 = 0}

BoundsSamples(b) ==
    IF b.kind = "arc"
    THEN {OnArc(b, row, a) : row \in {1, b.rows}, a \in ExtremeAngles(b)}
    ELSE {SeatWorld(b, row, seat) : row \in {1, b.rows}, seat \in {1, b.seatsPerRow}}

Bounds(axis) ==
    LET along == {p[axis] : p \in UNION {BoundsSamples(venue.blocks[i]) :
                                            i \in DOMAIN venue.blocks}}
    IN  <<Min(along), Max(along)>>

NormAxis(p, lo, hi) == IF hi - lo < 1 THEN <<1, 2>> ELSE <<p - lo, hi - lo>>
-----------------------------------------------------------------------------
NoStep == <<0, 0, 0>>

GridOK(b) ==
    /\ b.seatsPerRow >= 1
    /\ b.rows > 1 => b.rowVec # NoStep
    /\ b.seatsPerRow > 1 => b.seatVec # NoStep

ArcOK(b) ==
    /\ b.center # <<>>
    /\ b.radius >= 1 /\ b.seatStep >= 1
    /\ b.rows > 1 => b.rowStep >= 1
    /\ b.angleEnd - b.angleStart \in 1..8

SeatsIn(b) ==
    IF b.kind = "arc"
    THEN FoldFunction(+, 0, [row \in 1..b.rows |-> SeatsInRow(b, row)])
    ELSE b.rows * b.seatsPerRow

\* Arithmetic of an int wraps around: too many seats may pass for few.
Wrapped(n) == ((n + IntLimit) % (2 * IntLimit)) - IntLimit

\* validateVenue, and what the regular expression asks of a block's name.
VenueOK(v) ==
    /\ Len(v.blocks) \in 1..MaxVenueBlocks
    /\ \A i \in DOMAIN v.blocks :
        LET b == v.blocks[i]
        IN  /\ b.id # <<"">>
            /\ \A j \in 1..(i - 1) : v.blocks[j].id # b.id
            /\ b.rows >= 1
            /\ \/ b.kind \in {"", "grid"} /\ GridOK(b)
               \/ b.kind = "arc" /\ ArcOK(b)
    /\ Wrapped(FoldFunction(+, 0, [i \in DOMAIN v.blocks |-> SeatsIn(v.blocks[i])]))
           <= MaxVenueSeats
    /\ v.landmark # <<>> => /\ v.landmark.kind \in {"pitch", "stage"}
                            /\ {v.landmark.w, v.landmark.d} \subseteq 1..MaxLandmark

ValidateVenue ==
    /\ finding = "uploaded"
    /\ finding' = IF VenueOK(venue) THEN "planned" ELSE "refused"
    /\ UNCHANGED <<venue, seatRef, ticket, heard, seatPos>>

\* The parts Atoi takes for numbers, the first nine as Sprintf writes them.
Numeral == <<"1", "2", "3", "4", "5", "6", "7", "8", "9", "0", "02">>
NumberOf(part) == CHOOSE n \in 0..9 : \E k \in DOMAIN Numeral :
                      Numeral[k] = part /\ n = (IF k = 11 THEN 2 ELSE k % 10)
Numeric(part) == \E k \in DOMAIN Numeral : Numeral[k] = part

String(ref) == ref.block \o <<Numeral[ref.row], Numeral[ref.seat]>>

WriteTicket ==
    /\ finding = "planned"
    /\ ticket' \in {String(seatRef)} \cup Typed
    /\ finding' = IF ticket' = String(seatRef) THEN "written" ELSE "typed"
    /\ UNCHANGED <<venue, seatRef, heard, seatPos>>

\* From the right: the last two parts are the row and the seat.
ParseSeatRef ==
    LET n == Len(ticket)
        block == SubSeq(ticket, 1, n - 2)
        ok == /\ n >= 3
              /\ Numeric(ticket[n - 1]) /\ NumberOf(ticket[n - 1]) >= 1
              /\ Numeric(ticket[n]) /\ NumberOf(ticket[n]) >= 1
              /\ block # <<"">>
    IN  /\ finding \in {"written", "typed"}
        /\ heard' = IF ok THEN [block |-> block, row |-> NumberOf(ticket[n - 1]),
                                seat |-> NumberOf(ticket[n])]
                    ELSE <<>>
        /\ finding' = IF ok THEN "read" ELSE "unreadable"
        /\ UNCHANGED <<venue, seatRef, ticket, seatPos>>

Exists(ref) ==
    \E i \in DOMAIN venue.blocks :
        /\ venue.blocks[i].id = ref.block
        /\ ref.row \in 1..venue.blocks[i].rows
        /\ ref.seat \in 1..SeatsInRow(venue.blocks[i], ref.row)

Resolve ==
    /\ finding = "read"
    /\ IF Exists(heard)
       THEN LET b == venue.blocks[CHOOSE i \in DOMAIN venue.blocks :
                                      venue.blocks[i].id = heard.block]
                p == SeatWorld(b, heard.row, heard.seat)
            IN  /\ seatPos' = [axis \in 1..3 |->
                       NormAxis(p[axis], Bounds(axis)[1], Bounds(axis)[2])]
                /\ finding' = "seated"
       ELSE seatPos' = <<>> /\ finding' = "unknown"
    /\ UNCHANGED <<venue, seatRef, ticket, heard>>

VenueNext == ValidateVenue \/ WriteTicket \/ ParseSeatRef \/ Resolve

VenueSpec == VenueInit /\ [][VenueNext]_venueVars
-----------------------------------------------------------------------------
\* A seat of a plan that was accepted comes back from its ticket as it was,
\* whatever dashes its block's name has, and is found; and wherever a phone
\* takes itself to sit lies within the venue on every axis, arcs included.
SeatsSurvive ==
    /\ finding \in {"seated", "unknown"} /\ ticket = String(seatRef) =>
           heard = seatRef /\ (finding = "seated") = Exists(seatRef)
    /\ finding = "unreadable" => ticket # String(seatRef)
    /\ seatPos # <<>> =>
           \A axis \in 1..3 : seatPos[axis][1] \in 0..seatPos[axis][2]
=============================================================================
