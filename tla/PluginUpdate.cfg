SPECIFICATION Spec
CONSTANTS
  None = None
  Torn = Torn
  Versions = {1, 2, 3}
  MaxStarting = 1
  MaxFaults = 1
INVARIANTS Recoverable RollbackKept SwapsStopped
