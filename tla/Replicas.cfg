SPECIFICATION Spec
CONSTANTS
  r1 = r1
  r2 = r2
  r3 = r3
  a1 = a1
  a2 = a2
  Process = {r1, r2, r3}
  Request = {r1, r2, r3}
  Replica = {a1, a2}
  Nobody = Nobody
  MayFail = TRUE
SYMMETRY Interchangeable
INVARIANTS
  PublishedOnce
  NothingUnapproved
