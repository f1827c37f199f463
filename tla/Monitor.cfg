CONSTANTS
  k1 = k1
  k2 = k2
  k3 = k3
  NoToken = NoToken
  Targets <- MCOneTarget
  Tokens <- MCTokens
  Products <- MCProducts
  Fingerprints = {"f1"}
  Suppliers <- MCSuppliers
  SupplierOf <- MCSupplierOf
  InitialSource <- MCInitialSource
  Registered = {"ozon"}
  Jitter <- MCJitter
  HardSignals = {"captcha"}
  BlockFor <- MCBlockFor
  SoftFailures = {"timeout"}
  Workers = {"w1", "w2"}
  Manual = "manual-api"
  LeaseSeconds = 2
  TaskMax = 3
  MaxDisruptions = 1
  MaxHistory = 1
  FailureCap = 1
  BatchSize = 2
  Concurrency = 1
  Interval = 1
  MaxBackoff = 2
SPECIFICATION FairSpec
PROPERTIES
  NoStaleOverwrite
  ImplementsFencedLease
  KeepsBeingChecked
