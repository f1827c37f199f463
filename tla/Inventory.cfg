CONSTANTS
  Products = {"cup", "mug"}
  NoProduct = "none"
  Batches = {1, 2}
  Orders = {"o1", "o2"}
  Lines = {1, 2}
  OrderOf <- MCOrderOf
  Matches <- MCOneCard
  Reports <- MCStatuses
  Demand <- MCTwoAndOne
  Amounts = {1, 2}
  Times = {1}
  Now = 2
  Manual = {"cancelled"}
  Importers = {"sync"}
  MaxEdits = 1
SPECIFICATION Spec
CONSTRAINT BeforeLate
INVARIANTS
  StockConserved
  CancelledHoldsNothing
  BatchesStayReachable
  FeedShowsStock
PROPERTIES
  FifoTaken
  ReturnsStayAllocated
