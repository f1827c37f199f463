CONSTANTS
  t1 = t1
  t2 = t2
  NoToken = NoToken
  Tokens <- MCTokens
  History = 2
  MaxRetries = 1
  MaxStock = 1
  MaxEvents = 2
SPECIFICATION FairSpec
INVARIANTS
  StoppedStaysClosed
PROPERTIES
  ScanIsFencedLease
  OfferReopens
