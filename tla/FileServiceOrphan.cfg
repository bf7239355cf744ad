SPECIFICATION Spec
CONSTANTS
  h1 = h1
  h2 = h2
  f1 = f1
  f2 = f2
  author = author
  other = other
  backend = backend
  Nobody = Nobody
  Handlers <- TwoHandlers
  Files <- TwoFiles
  Users <- Principals
  Backend <- BackendUsers
  MaxRequests = 3
  MaxCrashes = 0
  MaxFaults = 0
CHECK_DEADLOCK FALSE
PROPERTIES
  FailedUploadsStoreNothing
