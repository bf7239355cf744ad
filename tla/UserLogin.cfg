SPECIFICATION FairSpec
CONSTANTS
  t1 = t1
  t2 = t2
  orcid = orcid
  None = None
  Threads <- TwoThreads
  UserIds <- FourUsers
  Assertions <- SomeAssertions
  Preloaded <- PossibleTables
  Profiles <- SomeProfiles
  Orcids <- OneOrcid
  MaxEdits = 1
  MaxFaults = 1
INVARIANTS
  TypeOK
  OneUserPerDurableId
PROPERTIES
  NotLockedOut
  UsersKeepTheirPerson
  LoginResetsUser
  LockIsReleased
