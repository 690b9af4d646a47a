--------------------------- MODULE MCOutboxGateway ---------------------------
(* Model checking instances of OutboxGateway *)
EXTENDS OutboxGateway

CONSTANT stream    \* the one stream of the instances

SameStream == [i \in Intents |-> stream]

================================================================================
