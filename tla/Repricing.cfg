SPECIFICATION FairSpec
CONSTANTS
  MinProfit = 200
  Step = 10
  MaxGap = 35
  Band = 20
  Position = 2
  MaxPrice = 100000
  Shops = {"a", "b"}
  First = "a"
  AllowRaise = TRUE
  Changes = 1
  Markets <- MCMarkets
  Costs <- MCCosts
  Stock <- MCStock
  Starts <- MCStarts
INVARIANTS FloorIsLeast
PROPERTIES LowersForSellers StockAboveFloor EndsAtBest
