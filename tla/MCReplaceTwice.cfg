CONSTANTS
  Qty = 2
  MaxOrders = 3
  MaxRecords = 2
  MaxMishaps = 1
SPECIFICATION Spec
INVARIANT ReplacedOnce
CHECK_DEADLOCK FALSE
