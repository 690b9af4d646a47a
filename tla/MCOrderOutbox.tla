----------------------------- MODULE MCOrderOutbox -----------------------------
(* Model checking instances of OrderOutbox *)
EXTENDS OrderOutboxInv, TLC

CONSTANT stream    \* the one stream of the instances that consolidate

SameStream == [i \in Intents |-> stream]

IntentSymmetry == Permutations(Intents)

================================================================================
