\* Three interchangeable intents, a queue of two: capacity, eviction, consolidation.
SPECIFICATION Spec
CONSTANTS
  Intents = {i1, i2, i3}
  Producers = {p1}
  Workers = {w1}
  OneAtATime = TRUE
  Tokens = {1, 2}
  Oids = {1}
  stream = s
  Streams = {s}
  StreamOf <- SameStream
  ShortLived = {}
  Qty = 1
  MaxQueue = 2
  MaxRev = 0
  MaxCrashes = 0
  HasLookup = TRUE
  Nobody = Nobody
  NoRec = NoRec
  NoToken = NoToken
  NoOid = NoOid
  NoOrder = NoOrder
  NoIntent = NoIntent
SYMMETRY IntentSymmetry
INVARIANTS
  OneOrderPerClientId LiveOrderTracked
CHECK_DEADLOCK FALSE
