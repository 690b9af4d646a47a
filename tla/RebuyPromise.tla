---------------------------- MODULE RebuyPromise ----------------------------
(***************************************************************************)
(* What a strategy that buys back through TrackedOrderLifecycle promises,  *)
(* without intents, files, lookups or failures: one order at a time works  *)
(* on the quantity still to be bought, and what it bought is taken off     *)
(* that quantity once, after the order has ended and before the next one.  *)
(***************************************************************************)
EXTENDS Naturals

CONSTANT Goal        \* the quantity sold, which is to be bought back

VARIABLES
  owed,              \* what the ledger still wants
  bought,            \* what the account really received
  open,              \* an order is working at the venue
  part               \* bought by the latest order and not yet booked

promiseVars == <<owed, bought, open, part>>

Init == owed = Goal /\ bought = 0 /\ open = FALSE /\ part = 0

\* A new order only for a ledger that knows all there is to know.
Start ==
  /\ ~open /\ part = 0 /\ owed > 0
  /\ open' = TRUE
  /\ UNCHANGED <<owed, bought, part>>

Fill ==
  /\ open
  /\ \E k \in 1..(owed - part) : bought' = bought + k /\ part' = part + k
  /\ open' \in BOOLEAN
  /\ UNCHANGED owed

End == open /\ open' = FALSE /\ UNCHANGED <<owed, bought, part>>

\* The remainder stays owed, or the campaign ends.
Book ==
  /\ ~open /\ part > 0
  /\ owed' \in {owed - part, 0}
  /\ part' = 0
  /\ UNCHANGED <<bought, open>>

Next == Start \/ Fill \/ End \/ Book

Spec == Init /\ [][Next]_promiseVars
=============================================================================
