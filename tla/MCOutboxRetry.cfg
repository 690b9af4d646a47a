\* One intent: revisions, partial fills, crashes.
SPECIFICATION Spec
CONSTANTS
  Intents = {i1}
  Producers = {p1}
  Workers = {w1}
  OneAtATime = TRUE
  Tokens = {1, 2, 3, 4}
  Oids = {1, 2, 3}
  stream = s
  Streams = {s}
  StreamOf <- SameStream
  ShortLived = {}
  Qty = 3
  MaxQueue = 1
  MaxRev = 2
  MaxCrashes = 2
  HasLookup = TRUE
  Nobody = Nobody
  NoRec = NoRec
  NoToken = NoToken
  NoOid = NoOid
  NoOrder = NoOrder
  NoIntent = NoIntent
INVARIANTS
  TypeOK
  SingleDispatcher
  OneOrderPerClientId
  LiveOrderTracked
  RefusedMeansAbsent
  NeverOverfilled
  LedgerMatchesVenue
PROPERTIES
  RevisionsGrow
  LiveOwnerKeepsClaim
  TrackerOutlivesOrder
CHECK_DEADLOCK FALSE
