CONSTANTS
  MaxFills = 1
  MaxNow = 3
  MaxAge = 1
  PermitTtl = 1
  Retention = 1
  Readers = {r1}
  RestoreFails = FALSE
  MaxCrashes = 1
  MaxAppendFaults = 1
  MaxCompactFaults = 0
  MaxPrunes = 0
SPECIFICATION LiveSpec
PROPERTIES FillsReachReaders
CHECK_DEADLOCK FALSE
