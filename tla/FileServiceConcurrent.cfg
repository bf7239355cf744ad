SPECIFICATION FairSpec
CONSTANTS
  h1 = h1
  h2 = h2
  f1 = f1
  f2 = f2
  author = author
  other = other
  backend = backend
  Nobody = Nobody
  Handlers <- TwoHandlers
  Files <- TwoFiles
  Users <- Principals
  Backend <- BackendUsers
  MaxRequests = 3
  MaxCrashes = 1
  MaxFaults = 1
CHECK_DEADLOCK FALSE
INVARIANTS
  TypeOK
PROPERTIES
  StagedOutlivesOnlyFailures
  OnlyOwnerDeletes
  ServedFileExisted
  RequestsAreAnswered
