SPECIFICATION FairSpec
CONSTANTS
  s1 = s1
  s2 = s2
  s3 = s3
  g1 = g1
  g2 = g2
  p1 = p1
  p2 = p2
  None = None
  Sessions = {s1, s2}
  Gets = {g1}
  Private = {p1, p2}
  Startup = p1
  MaxCalls = 2
INVARIANT ReturnsWhereAsked
PROPERTIES KeepsSession DeadSessionLeaves
