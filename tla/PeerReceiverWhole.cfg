SPECIFICATION Spec
CONSTANTS
  o1 = o1
  o2 = o2
  f1 = f1
  f2 = f2
  r1 = r1
  r2 = r2
  None = None
  Offers = {o1}
  Files = {f1, f2}
  Requests = {r1}
  Folders = {o1}
  Atomic = {o1}
  Manifest <- TwoFiles
  MaxIndex = 0
  Chunks = 0
INVARIANT PublishedWhole
