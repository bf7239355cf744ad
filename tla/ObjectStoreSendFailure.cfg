SPECIFICATION FairSpec
CONSTANTS
  c1 = c1
  c2 = c2
  o1 = o1
  draft = draft
  submitted = submitted
  Null = Null
  Gone = Gone
  Clients <- TwoClients
  Ids <- OneObject
  Values <- Contents
  Announced <- Submitted
  MaxVersion = 1
  MaxFaults = 1
PROPERTIES
  AnnouncementsArrive
