CONSTANTS
  MaxFills = 2
  MaxNow = 4
  MaxAge = 1
  PermitTtl = 1
  Retention = 2
  Readers = {r1}
  RestoreFails = FALSE
  MaxCrashes = 1
  MaxAppendFaults = 0
  MaxCompactFaults = 1
  MaxPrunes = 1
SPECIFICATION Spec
INVARIANTS TypeOK CursorCovered VersionNamesRows PermitMeansFresh
PROPERTIES GenerationKept CertifiesAsPromised
CONSTRAINT FillsInTime
CHECK_DEADLOCK FALSE
