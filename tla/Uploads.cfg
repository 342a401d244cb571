SPECIFICATION FairSpec
CONSTANTS
  u1 = u1
  u2 = u2
  p1 = p1
  p2 = p2
  r1 = r1
  r2 = r2
  Long = 2
  Short = 0
  Foreign = Foreign
  None = None
  Uploads = {u1, u2}
  Paths = {p1, p2}
  Length <- MCLength
  Target <- MCTarget
  Overwrite = {u2}
  Crossing = {p1}
  Atomic = {p2}
  Requests = {r1, r2}
  Slots = 2
  MaxActive = 1
INVARIANTS PublishedWhole Resumable NoOrphan
PROPERTIES NoOverwrite RequestsEnd
