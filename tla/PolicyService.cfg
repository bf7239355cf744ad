SPECIFICATION Spec
CONSTANTS
  r1 = r1
  g1 = g1
  f1 = f1
  f2 = f2
  p1 = p1
  p2 = p2
  journal = journal
  library = library
  u1 = u1
  u2 = u2
  text = text
  text2 = text2
  None = None
  Requests <- OneRequest
  Grants <- OneGrant
  Funders <- TwoFunders
  Policies <- TwoPolicies
  Repos <- TwoRepos
  Institutional <- Library
  Users <- TwoUsers
  Texts <- TwoTexts
  InitialDbs <- UsualDbs
  MaxEdits = 2
CHECK_DEADLOCK FALSE
INVARIANTS
  TypeOK
  PoliciesFit
  RepositoriesFit
  SomethingRequired
