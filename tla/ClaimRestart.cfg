SPECIFICATION FairService
CONSTANTS
  r1 = r1
  w1 = w1
  w2 = w2
  a1 = a1
  Process = {r1, w1, w2}
  Request = {r1}
  Replica = {a1}
  Nobody = Nobody
  MayFail = FALSE
  Worker = {w1, w2}
  MaxDeaths = 1
  MaxTimeouts = 0
  MayRaise = FALSE
PROPERTIES
  RestartDoesNotDropTheRun
