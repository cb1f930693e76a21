------------------------------ MODULE Durations ------------------------------
(***************************************************************************)
(* A time.Duration is a 64-bit integer; here its largest value is          *)
(* MaxDuration and what goes beyond wraps around.                          *)
(***************************************************************************)
EXTENDS Integers

CONSTANT MaxDuration

ASSUME MaxDurationAssumption == MaxDuration \in Nat \ {0}

Duration(x) == ((x + MaxDuration + 1) % (2 * (MaxDuration + 1))) - (MaxDuration + 1)
=============================================================================
