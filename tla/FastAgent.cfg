SPECIFICATION FairSpec
CONSTANTS
  Lanes <- MCLanes
  Rivals <- MCRivals
  Peers <- MCPeers
  Promised <- MCPromised
  Prices <- MCPrices
  Starts <- MCStarts
  Premium = 0
  Advantage = 4
  Floor = 1
  MaxStock = 2
  PageSize = 2
  MaxPages = 2
  RequestTries = 2
  MaxChecks = 1
  PhotoTries = 1
  MaxFaults = 1
  MaxEvents = 1
INVARIANTS
  ScanTellsTheMarket
PROPERTIES
  AppliedWasShown
  QueuedIsTaken
  Converges
CHECK_DEADLOCK FALSE
