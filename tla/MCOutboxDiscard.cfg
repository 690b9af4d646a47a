\* The gateway discards records while they are claimed, submitted or accepted.
SPECIFICATION GatewaySpec
CONSTANTS
  Intents = {i1}
  Producers = {p1}
  Workers = {w1}
  OneAtATime = TRUE
  Tokens = {1, 2, 3, 4}
  Oids = {1, 2}
  stream = s
  Streams = {s}
  StreamOf <- SameStream
  ShortLived = {}
  Qty = 2
  MaxQueue = 1
  MaxRev = 1
  MaxCrashes = 1
  HasLookup = TRUE
  Nobody = Nobody
  NoRec = NoRec
  NoToken = NoToken
  NoOid = NoOid
  NoOrder = NoOrder
  NoIntent = NoIntent
INVARIANTS
  GatewayTypeOK
PROPERTIES
  DiscardIsFinal
CHECK_DEADLOCK FALSE
