CONSTANTS
  Goal = 3
  Dust = 2
  Prices = {p1}
  Oids = {o1, o2}
  MissingConfirmations = 2
  RetryOnLookupError = TRUE
  Lag = 1
  MaxAttempts = 2
  MaxFailures = 1
  None = None
SPECIFICATION FairSpec
PROPERTIES KnownOrderIsBooked FillsGetBooked AmbiguityEnds
CHECK_DEADLOCK FALSE
