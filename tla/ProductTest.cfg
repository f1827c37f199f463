CONSTANTS
  t1 = t1
  t2 = t2
  u1 = u1
  NoToken = NoToken
  NoUrl = NoUrl
  Tokens <- MCTokens
  Urls <- MCUrls
  Agents = 1
  MaxAsks = 3
  MaxMishaps = 1
SPECIFICATION FairSpec
PROPERTIES
  ImportedOnce
  EnrolledAsShown
  SubmissionEnds
CHECK_DEADLOCK FALSE
