CONSTANTS
  Qty = 2
  MaxOrders = 3
  MaxRecords = 1
  MaxMishaps = 1
SPECIFICATION LiveSpec
INVARIANTS TypeOK ReplacementSurvives OpenOrdersAreTracked
PROPERTIES KeepsPromise EndedOrdersAreNotAwaited
CHECK_DEADLOCK FALSE
