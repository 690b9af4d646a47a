CONSTANTS
  MaxFills = 2
  MaxNow = 4
  MaxAge = 1
  PermitTtl = 1
  Retention = 2
  Readers = {r1}
  RestoreFails = FALSE
  MaxCrashes = 0
  MaxAppendFaults = 1
  MaxCompactFaults = 0
  MaxPrunes = 1
SPECIFICATION Spec
INVARIANTS CursorCovered
CHECK_DEADLOCK FALSE
