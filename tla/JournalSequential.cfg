SPECIFICATION Spec
CONSTANTS
  w1 = w1
  w2 = w2
  j1 = j1
  j2 = j2
  j3 = j3
  print = print
  online = online
  untyped = untyped
  None = None
  NoTitle = NoTitle
  Workers <- OneWorker
  Ids <- ThreeIds
  Records <- SomeRecords
  Preloaded <- PossibleTables
  MaxLoads = 1
  MaxFaults = 1
PROPERTIES
  ResolvedIsComplete
  ResolvedIsBestMatch
  NoDuplicateCreated
  IssnsOnlyGrow
INVARIANTS
  TypeOK
