SPECIFICATION FairLocks
CONSTANTS
  r1 = r1
  r2 = r2
  r3 = r3
  r4 = r4
  e1 = e1
  e2 = e2
  e3 = e3
  i1 = i1
  i2 = i2
  Nil = Nil
  Callers = {r1, r2, r3, r4}
  Ids = {i1, i2}
  Entries = {e1, e2, e3}
INVARIANT Exclusive
PROPERTY Served
