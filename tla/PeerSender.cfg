SPECIFICATION FairSpec
CONSTANTS
  j1 = j1
  j2 = j2
  None = None
  Jobs = {j1, j2}
  Count = 2
INVARIANT CompleteIsPublished
PROPERTY JobEnds
CHECK_DEADLOCK FALSE
