SPECIFICATION FairSpec
CONSTANTS
  s1 = s1
  s2 = s2
  x1 = x1
  Streams <- TwoStreams
  Selectors <- OneSelector
  Ids <- ThreeObjects
  Limit = 2
  MaxOffset = 0
  MaxChanges = 2
  MaxFaults = 1
CHECK_DEADLOCK FALSE
INVARIANTS
  TypeOK
  UnmovedIsDelivered
  NothingTwice
PROPERTIES
  StreamEnds
