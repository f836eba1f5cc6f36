------------------------------- MODULE Clock -------------------------------
(***************************************************************************)
(* The clock of a process: it is read from a monotonic source, so that it  *)
(* never goes back (gateway/internal/clock/clock.go, and Go's time.Now).   *)
(***************************************************************************)
EXTENDS Integers

CONSTANT MaxNow   \* bound: the clock

ASSUME ClockAssumption == MaxNow \in Nat

VARIABLE nowMs

ClockInit == nowMs = 1

ClockTick == nowMs < MaxNow /\ nowMs' = nowMs + 1
=============================================================================
