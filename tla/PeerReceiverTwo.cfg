SPECIFICATION FairSpec
CONSTANTS
  o1 = o1
  o2 = o2
  f1 = f1
  f2 = f2
  r1 = r1
  r2 = r2
  None = None
  Offers = {o1, o2}
  Files = {f1}
  Requests = {r1}
  Folders = {o1}
  Atomic = {o2}
  Manifest <- FolderFile
  MaxIndex = 0
  Chunks = 1
PROPERTIES KeepsPromise SlotFreed
