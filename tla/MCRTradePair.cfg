\* A round of two units; the answer to an exit arrives.
CONSTANTS
  Qty = 2
  Ambiguous = {"first", "second", "stop", "restop"}
  MaxRev = 1
  MaxOrders = 4
  MaxMishaps = 1
SPECIFICATION Spec
INVARIANTS TypeOK WorkingOrdersHaveIntents WorkingOrdersAreWatched
PROPERTIES KeepsPromise
CHECK_DEADLOCK FALSE
