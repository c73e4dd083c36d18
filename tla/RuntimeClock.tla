------------------------------ MODULE RuntimeClock ------------------------------
(***************************************************************************)
(* The time that the runtime services of the Python package look at:       *)
(* time.time() and datetime.now(), which only go forward.                  *)
(***************************************************************************)
EXTENDS Integers

CONSTANT MaxTime   \* bound

ASSUME ClockAssumption == MaxTime \in Nat

VARIABLE now

ClockInit == now = 0

Tick == now < MaxTime /\ now' = now + 1
=============================================================================
