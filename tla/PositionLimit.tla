--------------------------- MODULE PositionLimit ---------------------------
(* The pre-trade risk check of src/src/bin/strategy.rs. *)
EXTENDS Integers

CONSTANTS
  MaxPosition,    \* MAX_POSITION
  PositionDelta   \* position_delta: an order's quantity in whole units, rounded up

ASSUME DeltaAssumption == PositionDelta \in Nat \ {0}

\* Beyond a negative limit nothing is ever sent.
ASSUME LimitAssumption == MaxPosition \in Nat

Delta(side) == IF side = "buy" THEN PositionDelta ELSE -PositionDelta

WithinLimit(p) == -MaxPosition <= p /\ p <= MaxPosition
=============================================================================
