SPECIFICATION FairSpec
CONSTANTS
  b1 = b1
  b2 = b2
  f1 = f1
  f2 = f2
  f3 = f3
  None = None
  Batches = {b1, b2}
  Files = {f1, f2, f3}
  BatchOf <- TheBatchOf
  PathOf <- ThePathOf
  EmptyDirs <- TheEmptyDirs
  Size <- TheSize
  Small = 0
  Packable = {f3}
  Concurrency = 2
  Contested <- TheContested
INVARIANTS Consent DoneIsStored QuestionOpen
PROPERTIES NoWorkAfterAbort BatchEnds
CHECK_DEADLOCK FALSE
