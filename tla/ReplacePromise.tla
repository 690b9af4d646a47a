--------------------------- MODULE ReplacePromise ---------------------------
(***************************************************************************)
(* What repricing promises of one order's quantity, without an outbox,     *)
(* processes or lost answers: it works at the venue under one order at a   *)
(* time, and never more of it than is still unfilled.                      *)
(***************************************************************************)
EXTENDS Integers

CONSTANT Qty        \* the quantity of the first order

VARIABLES
  left,             \* unfilled so far
  working           \* quantity at the venue or on its way there

PromiseInit == left = Qty /\ working = Qty

Filled == working > 0 /\ working' = working - 1 /\ left' = left - 1
Ended == working > 0 /\ working' = 0 /\ UNCHANGED left
Placed == working = 0 /\ working' \in 1..left /\ UNCHANGED left

PromiseNext == Filled \/ Ended \/ Placed

PromiseSpec == PromiseInit /\ [][PromiseNext]_<<left, working>>
=============================================================================
