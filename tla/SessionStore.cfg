SPECIFICATION Spec
CONSTANTS
  t1 = t1
  t2 = t2
  None = None
  Tokens = {t1, t2}
  Time = {0, 1, 2, 3, 4, 5, 6, 7, 8}
  Idle = 4
  Absolute = 7
  MaxInterval = 2
PROPERTY ExactSessions
SYMMETRY TokenSymmetry
