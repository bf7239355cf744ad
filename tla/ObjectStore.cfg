SPECIFICATION FairSpec
CONSTANTS
  c1 = c1
  c2 = c2
  o1 = o1
  draft = draft
  submitted = submitted
  Clients <- TwoClients
  Ids <- OneObject
  Values <- Contents
  Announced <- Submitted
  Null = Null
  Gone = Gone
  MaxVersion = 2
  MaxFaults = 1
INVARIANTS
  TypeOK
  NothingUnannounced
  NoPhantomMessage
PROPERTIES
  NoLostUpdate
  NoSpuriousConflict
  ImplementsAtomicObjects
  AnnouncementsArriveOrFail
  RequestsAreAnswered
