CONSTANTS
  Goal = 4
  Dust = 2
  Prices = {p1}
  Oids = {o1, o2, o3}
  MissingConfirmations = 2
  RetryOnLookupError = FALSE
  Lag = 1
  MaxAttempts = 3
  MaxFailures = 2
  None = None
SPECIFICATION Spec
INVARIANTS TypeOK LiveOrdersAreTracked LedgerExact FreshClientIds
PROPERTIES KeepsPromise
CHECK_DEADLOCK FALSE
SYMMETRY OidSymmetry
