CONSTANTS
  Count = 2
  Known = {1}
  Batch = 1
  Slice = 1
  Half = 1
  Answers <- MCAnswers
  Workers = 1
  Registered = {1}
  Told = {TRUE}
  MaxCalls = 2
  MaxMishaps = 1
SPECIFICATION FairSpec
CONSTRAINT FewTroubles
PROPERTIES
  NoStaleStatus
  IdentityNeverLost
  ActiveSetCovered
CHECK_DEADLOCK FALSE
