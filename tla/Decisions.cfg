SPECIFICATION FairSpec
CONSTANTS
  r1 = r1
  r2 = r2
  r3 = r3
  a1 = a1
  Process = {r1, r2, r3}
  Request = {r1, r2, r3}
  Replica = {a1}
  Nobody = Nobody
  MayFail = TRUE
INVARIANTS
  ApiTypeOK
  DecidedOnce
  AnswersAreTruthful
  PublishedOnce
  NothingUnapproved
PROPERTIES
  EveryRequestIsAnswered
