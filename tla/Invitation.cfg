SPECIFICATION Spec
CONSTANTS
  c1 = c1
  c2 = c2
  ann = ann
  prep = prep
  service = service
  e1 = e1
  e2 = e2
  s1 = s1
  None = None
  Gone = Gone
  Threads <- TwoThreads
  Users <- People
  Backend <- Services
  Preparers <- OnePreparer
  Emails <- Addresses
  Ids <- OneSubmission
  MaxVersion = 2
SYMMETRY Symmetry
INVARIANTS
  TypeOK
  OneInvitee
PROPERTIES
  EnactsStandingInvitation
  AcceptedIsSubmitter
  ImplementsObjects
