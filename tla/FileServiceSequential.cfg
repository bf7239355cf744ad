SPECIFICATION FairSpec
CONSTANTS
  h1 = h1
  h2 = h2
  f1 = f1
  f2 = f2
  author = author
  other = other
  backend = backend
  Nobody = Nobody
  Handlers <- OneHandler
  Files <- TwoFiles
  Users <- Principals
  Backend <- BackendUsers
  MaxRequests = 6
  MaxCrashes = 1
  MaxFaults = 2
CHECK_DEADLOCK FALSE
INVARIANTS
  LeftoversBounded
PROPERTIES
  UploadsSucceed
  ExistingFileIsFound
