CONSTANTS
  j1 = j1
  j2 = j2
  j3 = j3
  r1 = r1
  NoJob = NoJob
  Jobs <- MCJobs
  Requests = {r1}
  Markets <- MCTwoMarkets
  SupplierOffers <- MCSupplierOffers
  InventoryCost = 1
  PreorderStock = 5
  MaxStock = 1
  MaxScanAttempts = 2
  MaxVerifyAttempts = 1
  MaxEvents = 1
SPECIFICATION FairSpec
CONSTRAINT BeforeRace
INVARIANTS
  OneActiveUnlessRaced
PROPERTIES
  SentIsNeverRewritten
  HandedPlanIsCurrent
  ScansForEver
CHECK_DEADLOCK FALSE
