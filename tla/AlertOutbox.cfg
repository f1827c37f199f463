CONSTANTS
  k1 = k1
  k2 = k2
  k3 = k3
  Prices = {4, 10}
  Sellers = {1, 2}
  Thresholds = {20, 50}
  Window = 2
  CardPrices = {2, 4, 5, 6}
  Rises = {0, 100}
  Tokens = {k1, k2, k3}
  NoToken = NoToken
  Limit = 1
  Starts <- MCStarts
  MaxChecks = 3
  MaxEdits = 1
  MaxMishaps = 1
SPECIFICATION FairSpec
INVARIANTS
  SentMeansTold
PROPERTIES
  BandOnlyRises
  EventLeaves
CHECK_DEADLOCK FALSE
