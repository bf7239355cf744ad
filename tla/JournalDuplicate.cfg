SPECIFICATION Spec
CONSTANTS
  w1 = w1
  w2 = w2
  j1 = j1
  j2 = j2
  j3 = j3
  print = print
  online = online
  untyped = untyped
  None = None
  NoTitle = NoTitle
  Workers <- TwoWorkers
  Ids <- ThreeIds
  Records <- FewRecords
  Preloaded <- PossibleTables
  MaxLoads = 0
  MaxFaults = 0
PROPERTIES
  NoDuplicateCreated
