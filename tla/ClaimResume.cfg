SPECIFICATION InsistingSpec
CONSTANTS
  r1 = r1
  r2 = r2
  a1 = a1
  Process = {r1, r2}
  Request = {r1, r2}
  Replica = {a1}
  Nobody = Nobody
  MayFail = TRUE
PROPERTIES
  ApprovedRunEnds
