SPECIFICATION Spec
CONSTANTS
  r1 = r1
  r2 = r2
  a1 = a1
  a2 = a2
  Process = {r1, r2}
  Request = {r1, r2}
  Replica = {a1, a2}
  Nobody = Nobody
  MayFail = FALSE
INVARIANTS
  RejectedMeansUnpublished
