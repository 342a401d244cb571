SPECIFICATION SupervisorSpec
CONSTANTS
  s1 = s1
  s2 = s2
  s3 = s3
  Nobody = Nobody
  Supervisors = {s1, s2, s3}
INVARIANTS OneOwner Reachable Released
SYMMETRY SupervisorSymmetry
CHECK_DEADLOCK FALSE
